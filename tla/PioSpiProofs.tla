---------------------------- MODULE PioSpiProofs ----------------------------
(***************************************************************************)
(* Theorems about PioSpi for every set of bytes, length of frame and depth   *)
(* of the FIFOs.                                                            *)
(***************************************************************************)
EXTENDS PioSpi, SequenceTheorems, TLAPS

SpiType ==
  /\ buffer \in Seq(Byte) /\ frame \in Seq(Byte)
  /\ seen \in Seq(Byte) /\ got \in Seq(Byte)
  /\ txf \in Seq(Byte) /\ rxf \in Seq(Byte) /\ osr \in Seq(Byte)
  /\ pushed \in Nat /\ popped \in Nat

\* A byte is in one place at a time: still to be pushed, in the transmit FIFO, in the
\* shift register, seen; its answer in the receive FIFO or in the buffer.
BytesCounted ==
  /\ Len(buffer) = Len(frame)
  /\ Len(got) = Len(seen)
  /\ Len(osr) \in 0 .. 1
  /\ popped + Len(rxf) = Len(got)
  /\ Len(seen) + Len(osr) + Len(txf) = pushed
  /\ pushed <= Len(frame)

\* What has not been seen yet is on its way in the order of the frame.
OutwardInOrder ==
  /\ \A i \in 1 .. Len(seen) : seen[i] = frame[i]
  /\ \A i \in 1 .. Len(osr) : osr[i] = frame[Len(seen) + i]
  /\ \A i \in 1 .. Len(txf) : txf[i] = frame[Len(seen) + Len(osr) + i]

\* The receive FIFO holds the newest answers and the buffer the ones before, followed
\* by the rest of the frame.
InwardInOrder ==
  /\ \A i \in 1 .. Len(rxf) : rxf[i] = got[popped + i]
  /\ \A i \in 1 .. popped : buffer[i] = got[i]
  /\ \A i \in popped + 1 .. Len(buffer) : buffer[i] = frame[i]

SpiInv == SpiType /\ BytesCounted /\ OutwardInOrder /\ InwardInOrder
-----------------------------------------------------------------------------
\* Lengths are numbers.
LEMMA Lengths ==
  SpiType => /\ Len(buffer) \in Nat /\ Len(frame) \in Nat
             /\ Len(seen) \in Nat /\ Len(got) \in Nat
             /\ Len(txf) \in Nat /\ Len(rxf) \in Nat /\ Len(osr) \in Nat
  BY DEF SpiType

\* What head and tail of a FIFO are.
LEMMA HeadAndTail ==
  ASSUME NEW S, NEW q \in Seq(S), q # <<>>
  PROVE  /\ Len(q) > 0 /\ Head(q) \in S /\ Head(q) = q[1]
         /\ Tail(q) \in Seq(S) /\ Len(Tail(q)) = Len(q) - 1
         /\ \A i \in 1 .. Len(q) - 1 : Tail(q)[i] = q[i + 1]
  OBVIOUS

\* What a sequence with one element more is.
LEMMA OneMore ==
  ASSUME NEW S, NEW q \in Seq(S), NEW e \in S
  PROVE  /\ Append(q, e) \in Seq(S) /\ Len(Append(q, e)) = Len(q) + 1
         /\ Append(q, e)[Len(q) + 1] = e
         /\ \A i \in 1 .. Len(q) : Append(q, e)[i] = q[i]
  OBVIOUS

\* When a call has returned nothing is left in the FIFOs or the shift register.
LEMMA NothingLeft ==
  SpiInv /\ ~Transferring =>
    /\ txf = <<>> /\ rxf = <<>> /\ osr = <<>>
    /\ Len(seen) = Len(frame) /\ popped = Len(buffer)
  BY DEF SpiInv, SpiType, BytesCounted, Transferring

LEMMA SpiInit == InitSpi => SpiInv
  BY DEF InitSpi, SpiInv, SpiType, BytesCounted, OutwardInOrder, InwardInOrder

LEMMA TransferStep ==
  ASSUME SpiInv, NEW bytes \in Seq(Byte), Transfer(bytes) PROVE SpiInv'
  BY NothingLeft
  DEF Transfer, smVars, SpiInv, SpiType, BytesCounted, OutwardInOrder, InwardInOrder

LEMMA PushStep == ASSUME SpiInv, PushByte PROVE SpiInv'
<1>1. SpiType /\ BytesCounted /\ OutwardInOrder /\ InwardInOrder
  BY DEF SpiInv
<1>2. /\ pushed < Len(buffer)
      /\ txf' = Append(txf, buffer[pushed + 1])
      /\ pushed' = pushed + 1
      /\ UNCHANGED <<buffer, popped, rxf, osr, frame, seen, got>>
  BY DEF PushByte
<1>3. pushed + 1 \in popped + 1 .. Len(buffer)
  BY SMTT(30), <1>1, <1>2, Lengths DEF SpiType, BytesCounted
<1>4. buffer[pushed + 1] = frame[pushed + 1]
  BY <1>1, <1>3 DEF InwardInOrder
<1>5. buffer[pushed + 1] \in Byte
  BY <1>1, <1>2, Lengths DEF SpiType
<1>6. /\ txf' \in Seq(Byte) /\ Len(txf') = Len(txf) + 1
      /\ txf'[Len(txf) + 1] = buffer[pushed + 1]
      /\ \A i \in 1 .. Len(txf) : txf'[i] = txf[i]
  BY <1>1, <1>2, <1>5, OneMore DEF SpiType
<1>7. ASSUME NEW i \in 1 .. Len(txf')
      PROVE  txf'[i] = frame[Len(seen) + Len(osr) + i]
  <2>1. CASE i \in 1 .. Len(txf)
    BY <1>1, <1>6, <2>1 DEF OutwardInOrder
  <2>2. CASE i = Len(txf) + 1
    <3>1. Len(seen) + Len(osr) + i = pushed + 1
      BY <1>1, <2>2, Lengths DEF SpiType, BytesCounted
    <3> QED
      BY <1>4, <1>6, <2>2, <3>1
  <2> QED
    BY <1>1, <1>6, <2>1, <2>2, Lengths
<1>8. SpiType' /\ BytesCounted'
  BY SMTT(30), <1>1, <1>2, <1>6, Lengths DEF SpiType, BytesCounted
<1>9. OutwardInOrder' /\ InwardInOrder'
  BY <1>1, <1>2, <1>7 DEF OutwardInOrder, InwardInOrder
<1> QED
  BY <1>8, <1>9 DEF SpiInv

LEMMA PopStep == ASSUME SpiInv, PopByte PROVE SpiInv'
<1>1. SpiType /\ BytesCounted /\ OutwardInOrder /\ InwardInOrder
  BY DEF SpiInv
<1>2. /\ popped < Len(buffer) /\ rxf # <<>>
      /\ buffer' = [buffer EXCEPT ![popped + 1] = Head(rxf)]
      /\ rxf' = Tail(rxf)
      /\ popped' = popped + 1
      /\ UNCHANGED <<pushed, txf, osr, frame, seen, got>>
  BY DEF PopByte, Transferring
<1>3. /\ Len(rxf) > 0 /\ Head(rxf) \in Byte /\ Head(rxf) = rxf[1]
      /\ rxf' \in Seq(Byte) /\ Len(rxf') = Len(rxf) - 1
      /\ \A i \in 1 .. Len(rxf) - 1 : rxf'[i] = rxf[i + 1]
  BY <1>1, <1>2, HeadAndTail DEF SpiType
<1>4. /\ popped + 1 \in 1 .. Len(buffer)
      /\ popped \in Nat /\ Len(rxf) \in Nat /\ Len(buffer) \in Nat
  BY <1>1, <1>2, Lengths DEF SpiType
<1>5. /\ buffer' \in Seq(Byte) /\ Len(buffer') = Len(buffer)
      /\ buffer'[popped + 1] = Head(rxf)
      /\ \A i \in 1 .. Len(buffer) : i # popped + 1 => buffer'[i] = buffer[i]
  BY <1>1, <1>2, <1>3, <1>4 DEF SpiType
<1>6. Head(rxf) = got[popped + 1]
  <2>1. 1 \in 1 .. Len(rxf)
    BY <1>3, <1>4
  <2> QED
    BY <1>1, <1>3, <2>1 DEF InwardInOrder
<1>7. \A i \in 1 .. Len(rxf') : rxf'[i] = got'[popped' + i]
  <2>1. ASSUME NEW i \in 1 .. Len(rxf) - 1 PROVE rxf'[i] = got[popped + 1 + i]
    <3>1. i + 1 \in 1 .. Len(rxf) /\ popped + (i + 1) = popped + 1 + i
      BY <1>4
    <3> QED
      BY <1>1, <1>3, <3>1 DEF InwardInOrder
  <2> QED
    BY <1>2, <1>3, <2>1
<1>8. \A i \in 1 .. popped' : buffer'[i] = got'[i]
  <2>1. ASSUME NEW i \in 1 .. popped + 1 PROVE buffer'[i] = got[i]
    <3>1. CASE i = popped + 1
      BY <1>5, <1>6, <3>1
    <3>2. CASE i # popped + 1
      <4>1. i \in 1 .. popped /\ i \in 1 .. Len(buffer)
        BY <1>4, <3>2
      <4> QED
        BY <1>1, <1>5, <3>2, <4>1 DEF InwardInOrder
    <3> QED
      BY <3>1, <3>2
  <2> QED
    BY <1>2, <2>1
<1>9. \A i \in popped' + 1 .. Len(buffer') : buffer'[i] = frame'[i]
  <2>1. ASSUME NEW i \in popped + 2 .. Len(buffer) PROVE buffer'[i] = frame[i]
    <3>1. /\ i \in popped + 1 .. Len(buffer) /\ i \in 1 .. Len(buffer)
          /\ i # popped + 1
      BY <1>4
    <3> QED
      BY <1>1, <1>5, <3>1 DEF InwardInOrder
  <2> QED
    BY <1>2, <1>4, <1>5, <2>1
<1>10. SpiType' /\ BytesCounted'
  BY <1>1, <1>2, <1>3, <1>5, Lengths DEF SpiType, BytesCounted
<1>11. OutwardInOrder'
  BY <1>1, <1>2 DEF OutwardInOrder
<1> QED
  BY <1>7, <1>8, <1>9, <1>10, <1>11 DEF SpiInv, InwardInOrder

\* Fetching a byte from the transmit FIFO into the empty shift register.
LEMMA Fetched ==
  ASSUME NEW q \in Seq(Byte), q # <<>>, NEW n \in Nat,
         \A i \in 1 .. Len(q) : q[i] = frame[n + i]
  PROVE  /\ <<Head(q)>> \in Seq(Byte) /\ Tail(q) \in Seq(Byte)
         /\ Len(<<Head(q)>>) = 1 /\ Len(Tail(q)) = Len(q) - 1
         /\ \A i \in 1 .. 1 : <<Head(q)>>[i] = frame[n + i]
         /\ \A i \in 1 .. Len(q) - 1 : Tail(q)[i] = frame[n + 1 + i]
<1>1. /\ Len(q) \in Nat /\ Len(q) > 0 /\ Head(q) \in Byte /\ Head(q) = q[1]
      /\ Tail(q) \in Seq(Byte) /\ Len(Tail(q)) = Len(q) - 1
      /\ \A i \in 1 .. Len(q) - 1 : Tail(q)[i] = q[i + 1]
  BY HeadAndTail
<1>2. 1 \in 1 .. Len(q)
  BY <1>1
<1>3. q[1] = frame[n + 1]
  BY <1>2
<1>4. ASSUME NEW i \in 1 .. Len(q) - 1 PROVE Tail(q)[i] = frame[n + 1 + i]
  <2>1. i + 1 \in 1 .. Len(q) /\ n + (i + 1) = n + 1 + i
    BY <1>1
  <2> QED
    BY <1>1, <2>1
<1> QED
  BY <1>1, <1>3, <1>4

LEMMA SelectStep == ASSUME SpiInv, SelectChip PROVE SpiInv'
<1>1. SpiType /\ BytesCounted /\ OutwardInOrder /\ InwardInOrder
  BY DEF SpiInv
<1>2. /\ osr = <<>> /\ txf # <<>>
      /\ osr' = <<Head(txf)>> /\ txf' = Tail(txf)
      /\ UNCHANGED <<buffer, pushed, popped, rxf, frame, seen, got>>
  BY DEF SelectChip, cpuVars
<1>3. Len(osr) = 0 /\ \A i \in 1 .. Len(txf) : txf[i] = frame[Len(seen) + i]
  BY <1>1, <1>2, Lengths DEF SpiType, OutwardInOrder
<1>4. /\ osr' \in Seq(Byte) /\ txf' \in Seq(Byte)
      /\ Len(osr') = 1 /\ Len(txf') = Len(txf) - 1
      /\ \A i \in 1 .. 1 : osr'[i] = frame[Len(seen) + i]
      /\ \A i \in 1 .. Len(txf) - 1 : txf'[i] = frame[Len(seen) + 1 + i]
  BY SMTT(30), <1>1, <1>2, <1>3, Fetched, Lengths DEF SpiType
<1>5. SpiType'
  BY <1>1, <1>2, <1>4 DEF SpiType
<1>6. BytesCounted'
  <2>0. /\ Len(seen) \in Nat /\ Len(osr) \in Nat /\ Len(txf) \in Nat /\ pushed \in Nat
        /\ Len(frame) \in Nat /\ Len(seen) + Len(osr) + Len(txf) = pushed
        /\ Len(osr) \in 0 .. 1 /\ pushed <= Len(frame)
    BY <1>1, Lengths DEF SpiType, BytesCounted
  <2>1. Len(seen) + Len(osr') + Len(txf') = pushed
    <3>1. \A s, t \in Nat : s + 1 + (t - 1) = s + 0 + t
      OBVIOUS
    <3>2. Len(seen) + 1 + (Len(txf) - 1) = Len(seen) + 0 + Len(txf)
      BY <2>0, <3>1
    <3> QED
      BY <1>3, <1>4, <2>0, <3>2
  <2> QED
    BY <1>1, <1>2, <1>4, <2>1 DEF BytesCounted
<1>7. OutwardInOrder' /\ InwardInOrder'
  BY <1>1, <1>2, <1>4 DEF OutwardInOrder, InwardInOrder
<1> QED
  BY <1>5, <1>6, <1>7 DEF SpiInv

\* A byte that is shifted is the next one of the frame.
LEMMA ShiftedByte ==
  ASSUME SpiInv, NEW answer \in Byte, ShiftByte(answer)
  PROVE  /\ Len(seen) < Len(frame) /\ Len(osr) = 1
         /\ Head(osr) \in Byte /\ Head(osr) = frame[Len(seen) + 1]
<1>1. SpiType /\ BytesCounted /\ OutwardInOrder /\ osr # <<>>
  BY DEF SpiInv, ShiftByte
<1>2. Len(osr) > 0 /\ Head(osr) \in Byte /\ Head(osr) = osr[1]
  BY <1>1, HeadAndTail DEF SpiType
<1>0. /\ Len(seen) \in Nat /\ Len(osr) \in Nat /\ Len(txf) \in Nat /\ pushed \in Nat
      /\ Len(frame) \in Nat /\ Len(seen) + Len(osr) + Len(txf) = pushed
      /\ Len(osr) \in 0 .. 1 /\ pushed <= Len(frame)
  BY <1>1, Lengths DEF SpiType, BytesCounted
<1>3. Len(osr) = 1 /\ Len(seen) < Len(frame)
  <2>1. PICK s, o, t, f \in Nat :
          s = Len(seen) /\ o = Len(osr) /\ t = Len(txf) /\ f = Len(frame)
    BY <1>0
  <2> QED
    BY <1>0, <1>2, <2>1
<1>4. 1 \in 1 .. Len(osr)
  BY <1>3
<1> QED
  BY <1>1, <1>2, <1>3, <1>4 DEF OutwardInOrder

LEMMA ShiftStep ==
  ASSUME SpiInv, NEW answer \in Byte, ShiftByte(answer) PROVE SpiInv'
<1>1. SpiType /\ BytesCounted /\ OutwardInOrder /\ InwardInOrder
  BY DEF SpiInv
<1>2. /\ Len(seen) < Len(frame) /\ Len(osr) = 1
      /\ Head(osr) \in Byte /\ Head(osr) = frame[Len(seen) + 1]
  BY ShiftedByte
<1>3. /\ seen' = Append(seen, Head(osr))
      /\ got' = Append(got, answer) /\ rxf' = Append(rxf, answer)
      /\ UNCHANGED <<buffer, pushed, popped, frame>>
  BY DEF ShiftByte, cpuVars
<1>4. /\ seen' \in Seq(Byte) /\ Len(seen') = Len(seen) + 1
      /\ seen'[Len(seen) + 1] = Head(osr) /\ \A i \in 1 .. Len(seen) : seen'[i] = seen[i]
  BY <1>1, <1>2, <1>3, OneMore DEF SpiType
<1>5. /\ got' \in Seq(Byte) /\ Len(got') = Len(got) + 1
      /\ got'[Len(got) + 1] = answer /\ \A i \in 1 .. Len(got) : got'[i] = got[i]
  BY <1>1, <1>3, OneMore DEF SpiType
<1>6. /\ rxf' \in Seq(Byte) /\ Len(rxf') = Len(rxf) + 1
      /\ rxf'[Len(rxf) + 1] = answer /\ \A i \in 1 .. Len(rxf) : rxf'[i] = rxf[i]
  BY <1>1, <1>3, OneMore DEF SpiType
<1>7. ASSUME NEW i \in 1 .. Len(seen') PROVE seen'[i] = frame[i]
  <2>1. CASE i \in 1 .. Len(seen)
    BY <1>1, <1>4, <2>1 DEF OutwardInOrder
  <2>2. CASE i = Len(seen) + 1
    BY <1>2, <1>4, <2>2
  <2> QED
    BY <1>1, <1>4, <2>1, <2>2, Lengths
<1>8. /\ osr' \in Seq(Byte) /\ txf' \in Seq(Byte) /\ Len(osr') \in 0 .. 1
      /\ Len(osr') + Len(txf') = Len(txf)
      /\ \A i \in 1 .. Len(osr') : osr'[i] = frame[Len(seen) + 1 + i]
      /\ \A i \in 1 .. Len(txf') : txf'[i] = frame[Len(seen) + 1 + Len(osr') + i]
  <2>1. CASE txf = <<>>
    BY <2>1 DEF ShiftByte
  <2>2. CASE txf # <<>>
    <3>1. osr' = <<Head(txf)>> /\ txf' = Tail(txf)
      BY <2>2 DEF ShiftByte
    <3>2. Len(seen) + 1 \in Nat /\ Len(txf) \in Nat
      BY <1>1, Lengths
    <3>3. \A i \in 1 .. Len(txf) : txf[i] = frame[Len(seen) + 1 + i]
      BY <1>1, <1>2 DEF OutwardInOrder
    <3>4. /\ osr' \in Seq(Byte) /\ txf' \in Seq(Byte)
          /\ Len(osr') = 1 /\ Len(txf') = Len(txf) - 1
          /\ \A i \in 1 .. 1 : osr'[i] = frame[Len(seen) + 1 + i]
          /\ \A i \in 1 .. Len(txf) - 1 : txf'[i] = frame[Len(seen) + 1 + 1 + i]
      BY <1>1, <2>2, <3>1, <3>2, <3>3, Fetched DEF SpiType
    <3> QED
      BY <3>2, <3>4
  <2> QED
    BY <2>1, <2>2
<1>9. ASSUME NEW i \in 1 .. Len(rxf') PROVE rxf'[i] = got'[popped + i]
  <2>1. /\ popped \in Nat /\ Len(rxf) \in Nat /\ Len(got) \in Nat
        /\ popped + Len(rxf) = Len(got)
    BY <1>1, Lengths DEF SpiType, BytesCounted
  <2>2. CASE i \in 1 .. Len(rxf)
    <3>1. popped + i \in 1 .. Len(got)
      BY <2>1, <2>2
    <3> QED
      BY <1>1, <1>5, <1>6, <2>2, <3>1 DEF InwardInOrder
  <2>3. CASE i = Len(rxf) + 1
    <3>1. popped + i = Len(got) + 1
      BY <2>1, <2>3
    <3> QED
      BY <1>5, <1>6, <2>3, <3>1
  <2> QED
    BY <1>6, <2>1, <2>2, <2>3
<1>10. ASSUME NEW i \in 1 .. popped PROVE buffer[i] = got'[i]
  <2>1. i \in 1 .. Len(got)
    BY <1>1, Lengths DEF SpiType, BytesCounted
  <2> QED
    BY <1>1, <1>5, <2>1 DEF InwardInOrder
<1>11. SpiType'
  BY <1>1, <1>3, <1>4, <1>5, <1>6, <1>8 DEF SpiType
<1>12. BytesCounted'
  <2>0. /\ Len(seen) \in Nat /\ Len(osr) \in Nat /\ Len(txf) \in Nat /\ pushed \in Nat
        /\ Len(frame) \in Nat /\ Len(seen) + Len(osr) + Len(txf) = pushed
        /\ Len(osr) \in 0 .. 1 /\ pushed <= Len(frame)
    BY <1>1, Lengths DEF SpiType, BytesCounted
  <2>1. Len(osr') \in Nat /\ Len(txf') \in Nat /\ Len(osr') \in 0 .. 1
    BY <1>8
  <2>2. Len(seen') + Len(osr') + Len(txf') = pushed
    <3>1. \A s, o, t \in Nat : s + 1 + o + t = s + 1 + (o + t)
      OBVIOUS
    <3>2. Len(seen) + 1 + Len(osr') + Len(txf') = Len(seen) + 1 + (Len(osr') + Len(txf'))
      BY <2>0, <2>1, <3>1
    <3> QED
      BY <1>2, <1>4, <1>8, <2>0, <3>2
  <2>3. Len(got') = Len(seen') /\ popped + Len(rxf') = Len(got')
    BY <1>1, <1>4, <1>5, <1>6, Lengths DEF SpiType, BytesCounted
  <2> QED
    BY <1>1, <1>3, <2>1, <2>2, <2>3 DEF BytesCounted
<1>13. OutwardInOrder'
  BY <1>3, <1>4, <1>7, <1>8 DEF OutwardInOrder
<1>14. InwardInOrder'
  BY <1>1, <1>3, <1>9, <1>10 DEF InwardInOrder
<1> QED
  BY <1>11, <1>12, <1>13, <1>14 DEF SpiInv

LEMMA SpiStep == SpiInv /\ [NextSpi]_spiVars => SpiInv'
<1> SUFFICES ASSUME SpiInv, [NextSpi]_spiVars PROVE SpiInv'
  OBVIOUS
<1>1. CASE UNCHANGED spiVars
  BY <1>1 DEF spiVars, cpuVars, smVars, SpiInv, SpiType, BytesCounted, OutwardInOrder,
              InwardInOrder
<1>2. CASE NextSpi
  BY <1>2, TransferStep, PushStep, PopStep, SelectStep, ShiftStep DEF NextSpi
<1> QED
  BY <1>1, <1>2
-----------------------------------------------------------------------------
LEMMA InvIsFaithful == SpiInv => TransferIsFaithful
<1> SUFFICES ASSUME SpiInv PROVE TransferIsFaithful
  OBVIOUS
<1> USE DEF SpiInv, SpiType, BytesCounted, OutwardInOrder, InwardInOrder
<1>1. /\ SubSeq(frame, 1, Len(seen)) \in Seq(Byte)
      /\ Len(SubSeq(frame, 1, Len(seen))) = Len(seen)
      /\ \A i \in 1 .. Len(seen) : SubSeq(frame, 1, Len(seen))[i] = frame[i]
  OBVIOUS
<1>2. seen = SubSeq(frame, 1, Len(seen))
  BY <1>1, SeqEqual
<1>3. ASSUME ~Transferring PROVE seen = frame /\ buffer = got
  <2>1. Len(seen) = Len(frame) /\ popped = Len(buffer)
    BY <1>3, NothingLeft
  <2>2. seen = frame
    BY <2>1, SeqEqual
  <2>3. buffer = got
    BY <2>1, SeqEqual
  <2> QED
    BY <2>2, <2>3
<1> QED
  BY <1>2, <1>3 DEF TransferIsFaithful

\* pio_spi_write8_read8_blocking with one buffer for both directions: the chip sees the
\* frame, and the buffer holds its answers when the call returns.
THEOREM TransfersAreFaithful == SpecSpi => []TransferIsFaithful
<1> QED
  BY SpiInit, SpiStep, InvIsFaithful, PTL DEF SpecSpi

\* Each step of the loop and of the state machine is one of a plain exchange, or none.
LEMMA StepIsExchange ==
  SpiInv /\ SpiInv' /\ [NextSpi]_spiVars => [Exchange!Next]_(Exchange!vars)
<1> SUFFICES ASSUME SpiInv, SpiInv', [NextSpi]_spiVars
             PROVE  [Exchange!Next]_(Exchange!vars)
  OBVIOUS
<1> DEFINE result == IF Transferring THEN <<>> ELSE buffer
<1>0. TransferIsFaithful'
  BY InvIsFaithful, PTL
<1> USE DEF SpiInv, SpiType, BytesCounted
<1>1. CASE UNCHANGED spiVars
  BY <1>1 DEF spiVars, cpuVars, Exchange!vars, Transferring
<1>2. ASSUME NEW bytes \in Seq(Byte) \ {<<>>}, Transfer(bytes) PROVE Exchange!Begin
  <2>1. Len(bytes) > 0
    OBVIOUS
  <2>2. ~Transferring /\ Transferring'
    BY <1>2, <2>1 DEF Transfer, Transferring
  <2> QED
    BY <1>2, <2>2 DEF Transfer, Exchange!Begin
<1>3. CASE PushByte \/ SelectChip
  BY <1>3 DEF PushByte, SelectChip, cpuVars, Exchange!vars, Transferring
<1>4. ASSUME NEW answer \in Byte, ShiftByte(answer) PROVE Exchange!ExchangeByte
  <2>1. Len(seen) < Len(frame) /\ Len(osr) = 1 /\ Head(osr) = frame[Len(seen) + 1]
    BY <1>4, ShiftedByte
  <2>2. Transferring /\ Transferring' = Transferring /\ result' = result
    BY <1>4, <2>1 DEF ShiftByte, cpuVars, Transferring
  <2> QED
    BY <1>4, <2>1, <2>2 DEF ShiftByte, cpuVars, Exchange!ExchangeByte
<1>5. CASE PopByte
  <2>1. UNCHANGED <<frame, seen, got>>
    BY <1>5 DEF PopByte
  <2>2. CASE Transferring'
    BY <1>5, <2>1, <2>2 DEF PopByte, Exchange!vars
  <2>3. CASE ~Transferring'
    <3>1. Len(seen) = Len(frame)
      BY <1>0, <2>1, <2>3 DEF TransferIsFaithful
    <3>2. buffer' = got'
      BY <2>3, <1>0 DEF TransferIsFaithful
    <3>3. Exchange!Return
      BY <1>5, <2>1, <2>3, <3>1, <3>2 DEF PopByte, Exchange!Return
    <3> QED
      BY <3>3 DEF Exchange!Next
  <2> QED
    BY <2>2, <2>3
<1> QED
  BY <1>1, <1>2, <1>3, <1>4, <1>5 DEF NextSpi, Exchange!Next

\* The loop, the FIFOs and the state machine implement an exchange of bytes as callers
\* see it, which is what SpiLink takes the transfers of spiex.c for.
THEOREM TransfersExchange == SpecSpi => ImplementsExchange
<1>1. InitSpi => Exchange!Init
  BY DEF InitSpi, Exchange!Init, Transferring
<1> QED
  BY <1>1, SpiInit, SpiStep, StepIsExchange, PTL
  DEF SpecSpi, ImplementsExchange, Exchange!Spec
=============================================================================
