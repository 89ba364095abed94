------------------------------- MODULE PioSpi -------------------------------
(***************************************************************************)
(* pio_spi.c and the program spi_cpha1_cs of spi.pio: one SPI transfer, with *)
(* the CPU at one end of two FIFOs and a state machine of PIO1 at the other. *)
(*                                                                         *)
(* pio_spi_write8_read8_blocking pushes bytes while there is room and takes   *)
(* bytes while there are any, until as many have come as went; that it tries  *)
(* one after the other only narrows what happens here.  Its only caller       *)
(* passes ONE buffer as source and destination.  The state machine lowers     *)
(* chip select when it finds a byte and raises it when it finds none: a frame *)
(* stays whole because the CPU is faster than the line (KeepsUp).             *)
(***************************************************************************)
EXTENDS Integers, Sequences

CONSTANTS
  Byte,
  FifoDepth   \* entries of a FIFO of the state machine: 4

ASSUME FifoAssumption == FifoDepth \in Nat \ {0}

VARIABLES
  \* pio_spi_write8_read8_blocking
  buffer,    \* src and dst
  pushed,    \* bytes written to the transmit FIFO: len - tx_remain
  popped,    \* bytes read from the receive FIFO: len - rx_remain
  \* the state machine
  txf, rxf,  \* its FIFOs
  osr,       \* the byte it is shifting, <<>> while chip select is high
  \* history
  frame,     \* the bytes the transfer was called with
  seen,      \* those the chip has received
  got        \* those it has answered

cpuVars == <<buffer, pushed, popped>>
smVars == <<txf, rxf, osr>>
spiVars == <<cpuVars, smVars, frame, seen, got>>

InitSpi ==
  /\ buffer = <<>> /\ pushed = 0 /\ popped = 0
  /\ txf = <<>> /\ rxf = <<>> /\ osr = <<>>
  /\ frame = <<>> /\ seen = <<>> /\ got = <<>>

Transferring == popped < Len(buffer)

\* nuvoton_spi_transfer is called.
Transfer(bytes) ==
  /\ ~Transferring
  /\ buffer' = bytes /\ frame' = bytes
  /\ pushed' = 0 /\ popped' = 0
  /\ seen' = <<>> /\ got' = <<>>
  /\ UNCHANGED smVars

\* Seeded fault: src is not advanced.
PushFirstByte ==
  /\ pushed < Len(buffer) /\ Len(txf) < FifoDepth
  /\ txf' = Append(txf, buffer[1])
  /\ pushed' = pushed + 1
  /\ UNCHANGED <<buffer, popped, rxf, osr, frame, seen, got>>

PushByte ==
  /\ pushed < Len(buffer) /\ Len(txf) < FifoDepth
  /\ txf' = Append(txf, buffer[pushed + 1])
  /\ pushed' = pushed + 1
  /\ UNCHANGED <<buffer, popped, rxf, osr, frame, seen, got>>

\* Seeded fault: one pointer for both directions.
PopByteMisplaced ==
  /\ Transferring /\ rxf # <<>>
  /\ buffer' = [buffer EXCEPT ![IF pushed < Len(buffer) THEN pushed + 1 ELSE pushed] = Head(rxf)]
  /\ rxf' = Tail(rxf)
  /\ popped' = popped + 1
  /\ UNCHANGED <<pushed, txf, osr, frame, seen, got>>

PopByte ==
  /\ Transferring /\ rxf # <<>>
  /\ buffer' = [buffer EXCEPT ![popped + 1] = Head(rxf)]
  /\ rxf' = Tail(rxf)
  /\ popped' = popped + 1
  /\ UNCHANGED <<pushed, txf, osr, frame, seen, got>>

\* The byte after this one is in the FIFO before this one has been shifted: a byte
\* takes 8 microseconds, a turn of the loop a small part of one.
KeepsUp == txf # <<>> \/ pushed = Len(buffer)

\* `pull ifempty`, with chip select high.
SelectChip ==
  /\ osr = <<>> /\ txf # <<>>
  /\ osr' = <<Head(txf)>> /\ txf' = Tail(txf)
  /\ UNCHANGED <<cpuVars, rxf, frame, seen, got>>

\* `byteloop`, which stalls while the receive FIFO is full.  Autopull brings the next
\* byte; if there is none, chip select goes high.
ShiftByte(answer) ==
  /\ osr # <<>> /\ Len(rxf) < FifoDepth /\ KeepsUp
  /\ seen' = Append(seen, Head(osr))
  /\ got' = Append(got, answer)
  /\ rxf' = Append(rxf, answer)
  /\ IF txf = <<>> THEN osr' = <<>> /\ txf' = txf
                   ELSE osr' = <<Head(txf)>> /\ txf' = Tail(txf)
  /\ UNCHANGED <<cpuVars, frame>>

\* The transfer on its own, against a chip that answers anything.
NextSpi ==
  \/ \E bytes \in Seq(Byte) \ {<<>>} : Transfer(bytes)
  \/ PushByte \/ PopByte \/ SelectChip
  \/ \E answer \in Byte : ShiftByte(answer)

SpecSpi == InitSpi /\ [][NextSpi]_spiVars
-----------------------------------------------------------------------------
(* Properties *)

\* Although received bytes overwrite the bytes to be sent, the chip sees the frame
\* the caller gave, byte for byte, and when the call returns the buffer holds the
\* chip's answers: the cursor that writes never gets ahead of the one that reads.
TransferIsFaithful ==
  /\ seen = SubSeq(frame, 1, Len(seen))
  /\ ~Transferring => seen = frame /\ buffer = got

Exchange == INSTANCE SpiExchange WITH
  busy <- Transferring, result <- IF Transferring THEN <<>> ELSE buffer

\* The loop, the FIFOs and the state machine implement a plain exchange.
ImplementsExchange == Exchange!Spec
=============================================================================
