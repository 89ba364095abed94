------------------------------ MODULE SpiLink ------------------------------
(***************************************************************************)
(* spiex.c of both firmwares, with pi4_spi.c and pi4_gpio.c under one of     *)
(* them: a register access as a frame of bytes between two levels of the     *)
(* chip select line.                                                        *)
(*                                                                         *)
(* The SPI block sends the highest bit of a byte first and the controller    *)
(* takes the first bit for the lowest, so both ends of a frame go through    *)
(* lsb2msb.  The transfer itself is an exchange of bytes (SpiExchange): the  *)
(* SDK's and the bcm2835 library's functions return when the last byte is    *)
(* in, and a plain write is one whose answers are thrown away.               *)
(***************************************************************************)
EXTENDS Integers, Sequences, SequencesExt

CONSTANTS
  Regs,    \* the registers: 0x00, 0x04, 0x08, 0x0C, 0x10
  Values,  \* the words they hold, least significant byte first
  Floats,  \* the bytes an undriven data line may give
  NoCall

Byte == 0 .. 255
Word == [1 .. 4 -> Byte]

ASSUME SpiLinkAssumption ==
  /\ Regs \subseteq 0 .. 63     \* `reg << 2` is stored in a byte
  /\ Values \subseteq Word
  /\ Floats \subseteq Byte

\* The accesses a caller can ask for.
Calls == [op : {"read"}, reg : Regs] \cup [op : {"write"}, reg : Regs, val : Values]

ASSUME NoCallAssumption == NoCall \notin Calls

VARIABLES
  \* spiex.c
  up,      \* spiex_init has succeeded
  ss,      \* the level of chip select
  call,    \* the access in progress, or NoCall
  reply,   \* what the last read returned
  \* the transfer (SpiExchange)
  busy, frame, seen, got, result,
  \* the flash controller
  regs,    \* its registers
  heard,   \* the bytes of its frame: those it got since chip select fell
  latch    \* the word it is answering with

wireVars == <<busy, frame, seen, got, result>>
vars == <<up, ss, call, reply, wireVars, regs, heard, latch>>

Wire == INSTANCE SpiExchange
-----------------------------------------------------------------------------
(* Bits on the line *)

nibbles == <<0, 8, 4, 12, 2, 10, 6, 14, 1, 9, 5, 13, 3, 11, 7, 15>>

\* Seeded fault: the nibbles are reversed and stay where they were.
lsb2msbInPlace(b) == 16 * nibbles[(b \div 16) + 1] + nibbles[(b % 16) + 1]

\* The table: its columns run through the low nibble, its rows through the high one.
lsb2msb(b) == 16 * nibbles[(b % 16) + 1] + nibbles[(b \div 16) + 1]

\* The bits in the order the SPI block sends them, and the byte the controller makes
\* of bits that come in this order.
MsbFirst(b) == <<b \div 128, (b \div 64) % 2, (b \div 32) % 2, (b \div 16) % 2,
                 (b \div 8) % 2, (b \div 4) % 2, (b \div 2) % 2, b % 2>>
LsbFirst(bits) == bits[1] + 2 * bits[2] + 4 * bits[3] + 8 * bits[4]
                  + 16 * bits[5] + 32 * bits[6] + 64 * bits[7] + 128 * bits[8]
Crossed(b) == LsbFirst(MsbFirst(b))

Reversed(bytes) == [i \in DOMAIN bytes |-> lsb2msb(bytes[i])]
-----------------------------------------------------------------------------
(* spiex.c *)

ReadFrame(reg) == <<reg * 4 + 1, 255, 0, 0, 0, 0>>

WriteFrame(reg, val) == <<reg * 4 + 2>> \o val

FrameOf(c) == IF c.op = "read" THEN ReadFrame(c.reg) ELSE WriteFrame(c.reg, c.val)

Init ==
  /\ regs \in [Regs -> Values] /\ latch \in Values /\ reply \in Values
  /\ up = FALSE /\ ss = TRUE /\ call = NoCall /\ heard = <<>>
  /\ Wire!Init

\* bcm2835_spi_begin may fail, which leaves the block as it was.
pi4_spi_init(ok) == up' = (up \/ ok)

Select == ss' = FALSE

\* Seeded fault: chip select stays low.
DeselectNot == UNCHANGED <<ss, heard>>

\* Chip select goes high, and with it a frame is over.
Deselect == ss' = TRUE /\ heard' = <<>>

\* Pi4Flasher's says so and returns if the block could not be set up, and nobody asks.
spiex_init ==
  /\ call = NoCall
  /\ \E ok \in BOOLEAN :
       pi4_spi_init(ok) /\ IF ok THEN Deselect ELSE UNCHANGED <<ss, heard>>
  /\ UNCHANGED <<call, reply, wireVars, regs, latch>>

spiex_deinit ==
  /\ call = NoCall
  /\ up' = FALSE
  /\ UNCHANGED <<ss, call, reply, wireVars, regs, heard, latch>>

\* Chip select goes low and the transfer begins.
Access(c) ==
  /\ call = NoCall
  /\ call' = c
  /\ frame' = Reversed(FrameOf(c))
  /\ Wire!Begin
  /\ Select
  /\ UNCHANGED <<up, reply, regs, heard, latch>>

spiex_read_reg == \E c \in [op : {"read"}, reg : Regs] : Access(c)
spiex_write_reg == \E c \in [op : {"write"}, reg : Regs, val : Values] : Access(c)

\* Bytes 2 to 5 of the buffer, counted from 0.
Value(rx) == SubSeq(Reversed(rx), 3, 6)

Return ==
  /\ Wire!Return
  /\ Deselect
  /\ call' = NoCall
  /\ reply' = IF call.op = "read" THEN Value(result') ELSE reply
  /\ UNCHANGED <<up, regs, latch>>
-----------------------------------------------------------------------------
(* The line and the controller *)

\* The controller takes part in a frame if the link is up and chip select is low.  Its
\* header names register and direction.  A register to be read is taken when the byte
\* after the header has come, one to be written changes with the last byte.
ExchangeByte ==
  LET n == Len(heard) + 1
      reg == heard'[1] \div 4
      answers == up /\ ~ss /\ reg \in Regs /\ heard'[1] % 4 = 1
      obeys == up /\ ~ss /\ reg \in Regs /\ heard'[1] % 4 = 2
  IN
  /\ Len(seen) < Len(frame)
  /\ heard' = IF ss THEN heard ELSE Append(heard, Crossed(frame[Len(seen) + 1]))
  /\ \E byte \in IF answers /\ n \in 3 .. 6 THEN {latch[n - 2]} ELSE Floats :
       got' = Append(got, Crossed(byte))
  /\ Wire!ExchangeByte
  /\ latch' = IF answers /\ n = 2 THEN regs[reg] ELSE latch
  /\ regs' = IF obeys /\ n = 5 THEN [regs EXCEPT ![reg] = SubSeq(heard', 2, 5)] ELSE regs
  /\ UNCHANGED <<up, ss, call, reply>>

\* A job ends, a page arrives, another console is attached.
RegisterChanges ==
  /\ \E reg \in Regs, val \in Values : regs' = [regs EXCEPT ![reg] = val]
  /\ UNCHANGED <<up, ss, call, reply, wireVars, heard, latch>>

Next ==
  \/ spiex_init \/ spiex_deinit \/ spiex_read_reg \/ spiex_write_reg \/ Return
  \/ ExchangeByte \/ RegisterChanges

Spec == Init /\ [][Next]_vars
-----------------------------------------------------------------------------
(* Properties *)

\* With chip select high the controller is in no frame, while it is low it has heard
\* nothing but the beginning of the frame spiex.c built, byte for byte in its own bit order,
\* and when it rises again at the end of an access it has heard all of it.
HearsTheBeginning ==
  IF ss THEN heard = <<>> /\ ~busy
        ELSE IsPrefix(heard, FrameOf(call))

ControllerHearsTheFrame ==
  [][HearsTheBeginning' /\ (~ss /\ ss' => heard = FrameOf(call))]_vars

File == INSTANCE RegisterFile WITH
  served <- /\ up /\ call # NoCall
            /\ Len(seen) >= IF call.op = "read" THEN 2 ELSE 5,
  taken <- latch

\* A register access of spiex.c is what xbox.c takes it for: one word, read or written
\* at one moment, however the controller changes its registers meanwhile.
ImplementsRegisterFile == File!Spec
=============================================================================
