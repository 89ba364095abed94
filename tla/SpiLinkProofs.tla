---------------------------- MODULE SpiLinkProofs ----------------------------
(***************************************************************************)
(* Theorems about SpiLink for every set of registers, of values, and of      *)
(* bytes an undriven line may give.                                         *)
(***************************************************************************)
EXTENDS SpiLink, TLAPS

-----------------------------------------------------------------------------
(* Bits *)

Nibble == 0 .. 15

\* The table of spiex.c turns a nibble round.
LEMMA NibbleTurned ==
  ASSUME NEW n \in Nibble
  PROVE  /\ nibbles[n + 1] \in Nibble
         /\ nibbles[n + 1] = 8 * (n % 2) + 4 * ((n \div 2) % 2) + 2 * ((n \div 4) % 2) + n \div 8
<1>1. \/ n = 0 \/ n = 1 \/ n = 2 \/ n = 3 \/ n = 4 \/ n = 5 \/ n = 6 \/ n = 7 \/ n = 8
      \/ n = 9 \/ n = 10 \/ n = 11 \/ n = 12 \/ n = 13 \/ n = 14 \/ n = 15
  BY DEF Nibble
<1> QED
  BY <1>1 DEF nibbles, Nibble

\* What arrives of a byte on the other side is the byte turned round.
LEMMA CrossedTurns ==
  ASSUME NEW b \in Byte
  PROVE  Crossed(b) = b \div 128 + 2 * ((b \div 64) % 2) + 4 * ((b \div 32) % 2)
                      + 8 * ((b \div 16) % 2) + 16 * ((b \div 8) % 2) + 32 * ((b \div 4) % 2)
                      + 64 * ((b \div 2) % 2) + 128 * (b % 2)
  BY DEF Crossed, LsbFirst, MsbFirst

LEMMA TableTurns ==
  ASSUME NEW b \in Byte
  PROVE  lsb2msb(b) = Crossed(b)
<1> DEFINE l == b % 16  h == b \div 16
<1>1. l \in Nibble /\ h \in Nibble
  BY DEF Byte, Nibble
<1>2. /\ l % 2 = b % 2 /\ (l \div 2) % 2 = (b \div 2) % 2
      /\ (l \div 4) % 2 = (b \div 4) % 2 /\ l \div 8 = (b \div 8) % 2
      /\ h % 2 = (b \div 16) % 2 /\ (h \div 2) % 2 = (b \div 32) % 2
      /\ (h \div 4) % 2 = (b \div 64) % 2 /\ h \div 8 = b \div 128
  BY SMTT(30) DEF Byte
<1>3. lsb2msb(b) = 16 * nibbles[l + 1] + nibbles[h + 1]
  BY DEF lsb2msb
<1> HIDE DEF l, h
<1>4. nibbles[l + 1] = 8 * (b % 2) + 4 * ((b \div 2) % 2) + 2 * ((b \div 4) % 2)
                       + ((b \div 8) % 2)
  BY <1>1, <1>2, NibbleTurned
<1>5. nibbles[h + 1] = 8 * ((b \div 16) % 2) + 4 * ((b \div 32) % 2) + 2 * ((b \div 64) % 2)
                       + b \div 128
  BY <1>1, <1>2, NibbleTurned
<1> QED
  BY SMTT(60), <1>3, <1>4, <1>5, CrossedTurns DEF Byte

\* The crossing and the table undo one another.
Sum(b1, b2, b3, b4, b5, b6, b7, b8) ==
  b1 + 2 * b2 + 4 * b3 + 8 * b4 + 16 * b5 + 32 * b6 + 64 * b7 + 128 * b8

LEMMA TableUndoes ==
  ASSUME NEW b \in Byte
  PROVE  Crossed(b) \in Byte /\ lsb2msb(b) \in Byte
         /\ Crossed(lsb2msb(b)) = b /\ lsb2msb(Crossed(b)) = b
<1>1. /\ b % 2 \in 0 .. 1 /\ (b \div 2) % 2 \in 0 .. 1 /\ (b \div 4) % 2 \in 0 .. 1
      /\ (b \div 8) % 2 \in 0 .. 1 /\ (b \div 16) % 2 \in 0 .. 1 /\ (b \div 32) % 2 \in 0 .. 1
      /\ (b \div 64) % 2 \in 0 .. 1 /\ b \div 128 \in 0 .. 1
  BY DEF Byte
<1>2. Crossed(b) = Sum(b \div 128, (b \div 64) % 2, (b \div 32) % 2, (b \div 16) % 2,
                       (b \div 8) % 2, (b \div 4) % 2, (b \div 2) % 2, b % 2)
  BY CrossedTurns DEF Sum
<1>3. PICK c : c = Crossed(b)
  OBVIOUS
<1>4. /\ c \in Byte
      /\ c % 2 = b \div 128 /\ (c \div 2) % 2 = (b \div 64) % 2
      /\ (c \div 4) % 2 = (b \div 32) % 2 /\ (c \div 8) % 2 = (b \div 16) % 2
      /\ (c \div 16) % 2 = (b \div 8) % 2 /\ (c \div 32) % 2 = (b \div 4) % 2
      /\ (c \div 64) % 2 = (b \div 2) % 2 /\ c \div 128 = b % 2
  <2>1. PICK d1 \in 0 .. 1, d2 \in 0 .. 1, d3 \in 0 .. 1, d4 \in 0 .. 1,
             d5 \in 0 .. 1, d6 \in 0 .. 1, d7 \in 0 .. 1, d8 \in 0 .. 1 :
          /\ d1 = b \div 128 /\ d2 = (b \div 64) % 2
          /\ d3 = (b \div 32) % 2 /\ d4 = (b \div 16) % 2
          /\ d5 = (b \div 8) % 2 /\ d6 = (b \div 4) % 2
          /\ d7 = (b \div 2) % 2 /\ d8 = b % 2
    BY <1>1
  <2>2. /\ d1 \in 0 .. 1 /\ d2 \in 0 .. 1 /\ d3 \in 0 .. 1 /\ d4 \in 0 .. 1
        /\ d5 \in 0 .. 1 /\ d6 \in 0 .. 1 /\ d7 \in 0 .. 1 /\ d8 \in 0 .. 1
        /\ c = Sum(d1, d2, d3, d4, d5, d6, d7, d8)
    BY <1>2, <1>3, <2>1
  <2>3. /\ c \in Byte
        /\ c % 2 = d1 /\ (c \div 2) % 2 = d2 /\ (c \div 4) % 2 = d3 /\ (c \div 8) % 2 = d4
        /\ (c \div 16) % 2 = d5 /\ (c \div 32) % 2 = d6 /\ (c \div 64) % 2 = d7
        /\ c \div 128 = d8
    BY ONLY <2>2 DEF Sum, Byte
  <2> QED
    BY ONLY <2>1, <2>3
<1>5. Crossed(c) = (b % 2) + 2 * ((b \div 2) % 2) + 4 * ((b \div 4) % 2)
            + 8 * ((b \div 8) % 2) + 16 * ((b \div 16) % 2) + 32 * ((b \div 32) % 2)
            + 64 * ((b \div 64) % 2) + 128 * (b \div 128)
  BY <1>4, CrossedTurns
<1>6. Crossed(c) = b
  BY <1>5 DEF Byte
<1> QED
  BY <1>3, <1>4, <1>6, TableTurns
-----------------------------------------------------------------------------
(* Frames *)

HeaderOf(c) == c.reg * 4 + IF c.op = "read" THEN 1 ELSE 2
Length(c) == IF c.op = "read" THEN 6 ELSE 5

LEMMA CallFacts ==
  ASSUME NEW c \in Calls
  PROVE  /\ c # NoCall /\ c.reg \in Regs /\ c.op \in {"read", "write"}
         /\ c.op = "write" => c.val \in Values
         /\ HeaderOf(c) \in Byte /\ HeaderOf(c) \div 4 = c.reg
         /\ HeaderOf(c) % 4 = IF c.op = "read" THEN 1 ELSE 2
<1>1. /\ c # NoCall /\ c.reg \in Regs /\ c.op \in {"read", "write"}
      /\ c.op = "write" => c.val \in Values
  BY NoCallAssumption DEF Calls
<1>2. c.reg \in 0 .. 63
  BY <1>1, SpiLinkAssumption
<1> QED
  BY <1>1, <1>2 DEF HeaderOf, Byte

LEMMA WordIsSequence ==
  ASSUME NEW w \in Word
  PROVE  w \in Seq(Byte) /\ Len(w) = 4 /\ \A i \in 1 .. 4 : w[i] \in Byte
<1>1. w = [i \in 1 .. 4 |-> w[i]] /\ \A i \in 1 .. 4 : w[i] \in Byte
  BY DEF Word
<1>2. [i \in 1 .. 4 |-> w[i]] \in Seq(Byte) /\ Len([i \in 1 .. 4 |-> w[i]]) = 4
  BY <1>1
<1> QED
  BY <1>1, <1>2, Zenon

LEMMA Prefixed ==
  ASSUME NEW S, NEW h \in S, NEW q \in Seq(S)
  PROVE  /\ <<h>> \o q \in Seq(S) /\ Len(<<h>> \o q) = 1 + Len(q) /\ (<<h>> \o q)[1] = h
         /\ \A i \in 2 .. 1 + Len(q) : (<<h>> \o q)[i] = q[i - 1]
  OBVIOUS

LEMMA FrameFacts ==
  ASSUME NEW c \in Calls
  PROVE  /\ FrameOf(c) \in Seq(Byte) /\ Len(FrameOf(c)) = Length(c)
         /\ FrameOf(c)[1] = HeaderOf(c)
         /\ c.op = "write" => \A i \in 2 .. 5 : FrameOf(c)[i] = c.val[i - 1]
         /\ \A i \in 1 .. Length(c) : FrameOf(c)[i] \in Byte
<1>1. HeaderOf(c) \in Byte
  BY CallFacts
<1>2. CASE c.op = "read"
  <2>1. FrameOf(c) = <<HeaderOf(c), 255, 0, 0, 0, 0>>
    BY <1>2 DEF FrameOf, ReadFrame, HeaderOf
  <2>2. 255 \in Byte /\ 0 \in Byte
    BY DEF Byte
  <2> QED
    BY <1>1, <1>2, <2>1, <2>2 DEF Length
<1>3. CASE c.op # "read"
  <2>1. c.op = "write" /\ c.val \in Word
    BY <1>3, CallFacts, SpiLinkAssumption
  <2>2. FrameOf(c) = <<HeaderOf(c)>> \o c.val
    BY <2>1 DEF FrameOf, WriteFrame, HeaderOf
  <2>3. c.val \in Seq(Byte) /\ Len(c.val) = 4 /\ \A i \in 1 .. 4 : c.val[i] \in Byte
    BY <2>1, WordIsSequence
  <2>4. /\ FrameOf(c) \in Seq(Byte) /\ Len(FrameOf(c)) = 5 /\ FrameOf(c)[1] = HeaderOf(c)
        /\ \A i \in 2 .. 5 : FrameOf(c)[i] = c.val[i - 1]
    <3>1. /\ FrameOf(c) \in Seq(Byte) /\ Len(FrameOf(c)) = 1 + Len(c.val)
          /\ FrameOf(c)[1] = HeaderOf(c)
          /\ \A i \in 2 .. 1 + Len(c.val) : FrameOf(c)[i] = c.val[i - 1]
      <4>1. PICK h, w : h = HeaderOf(c) /\ w = c.val
        OBVIOUS
      <4>2. h \in Byte /\ w \in Seq(Byte) /\ FrameOf(c) = <<h>> \o w
        BY <1>1, <2>2, <2>3, <4>1
      <4>3. /\ <<h>> \o w \in Seq(Byte) /\ Len(<<h>> \o w) = 1 + Len(w) /\ (<<h>> \o w)[1] = h
            /\ \A i \in 2 .. 1 + Len(w) : (<<h>> \o w)[i] = w[i - 1]
        BY <4>2, Prefixed
      <4> QED
        BY <4>1, <4>2, <4>3
    <3> QED
      BY <2>3, <3>1
  <2> QED
    BY <1>1, <2>1, <2>3, <2>4 DEF Length
<1> QED
  BY <1>2, <1>3

LEMMA ReversedFacts ==
  ASSUME NEW q \in Seq(Byte)
  PROVE  /\ Reversed(q) \in Seq(Byte) /\ Len(Reversed(q)) = Len(q)
         /\ \A i \in 1 .. Len(q) :
              /\ Reversed(q)[i] \in Byte /\ Reversed(q)[i] = lsb2msb(q[i])
              /\ Crossed(Reversed(q)[i]) = q[i]
<1>1. \A i \in 1 .. Len(q) : q[i] \in Byte
  OBVIOUS
<1>2. Reversed(q) = [i \in 1 .. Len(q) |-> lsb2msb(q[i])]
  BY DEF Reversed
<1> QED
  BY <1>1, <1>2, TableUndoes
-----------------------------------------------------------------------------
(* The invariant *)

LinkTypes ==
  /\ regs \in [Regs -> Values] /\ latch \in Values /\ reply \in Word
  /\ up \in BOOLEAN
  /\ seen \in Seq(Byte) /\ got \in Seq(Byte)

\* Between two accesses nothing is on the line.
Idle == ss = TRUE /\ ~busy /\ call = NoCall /\ heard = <<>>

\* During one the controller has heard, of the frame, as many bytes as were sent, and
\* what it answered after the turn-around byte is the word it took.
InFrame ==
  /\ ss = FALSE /\ busy /\ call \in Calls
  /\ frame = Reversed(FrameOf(call))
  /\ Len(seen) \in 0 .. Length(call) /\ Len(got) = Len(seen)
  /\ heard \in Seq(Byte) /\ Len(heard) = Len(seen)
  /\ \A i \in 1 .. Len(seen) : heard[i] = FrameOf(call)[i]
  /\ up /\ call.op = "read" => \A i \in 3 .. Len(seen) : got[i] = Crossed(latch[i - 2])

AccessInv == LinkTypes /\ (Idle \/ InFrame)

LEMMA AccessInit == Init => AccessInv /\ File!Init
<1> SUFFICES ASSUME Init PROVE AccessInv /\ File!Init
  OBVIOUS
<1>1. AccessInv
  <2>1. seen \in Seq(Byte) /\ got \in Seq(Byte)
    BY DEF Init, Wire!Init
  <2>2. regs \in [Regs -> Values] /\ latch \in Values /\ reply \in Word
    BY SpiLinkAssumption DEF Init
  <2>3. up \in BOOLEAN /\ ss = TRUE /\ ~busy /\ call = NoCall /\ heard = <<>>
    BY Zenon DEF Init, Wire!Init
  <2> QED
    BY <2>1, <2>2, <2>3 DEF AccessInv, LinkTypes, Idle
<1>2. File!Init
  BY DEF Init, File!Init
<1> QED
  BY <1>1, <1>2
-----------------------------------------------------------------------------
(* Each step keeps the invariant and is one of the register file, or none *)

LEMMA LinkStep ==
  ASSUME AccessInv, spiex_init \/ spiex_deinit
  PROVE  AccessInv' /\ File!Link
<1>1. call = NoCall /\ UNCHANGED <<call, reply, wireVars, regs, latch>>
  BY DEF spiex_init, spiex_deinit
<1>2. Idle /\ LinkTypes
  BY <1>1, CallFacts DEF AccessInv, InFrame
<1>3. up' \in BOOLEAN
  BY <1>2, Zenon DEF spiex_init, spiex_deinit, pi4_spi_init, LinkTypes
<1>4. ss' = TRUE /\ heard' = <<>>
  BY <1>2 DEF spiex_init, spiex_deinit, Deselect, Idle
<1>5. AccessInv'
  BY <1>1, <1>2, <1>3, <1>4 DEF AccessInv, Idle, LinkTypes, wireVars
<1>6. File!Link
  BY <1>1, <1>3 DEF File!Link
<1> QED
  BY <1>5, <1>6

LEMMA AskStep ==
  ASSUME AccessInv, NEW c \in Calls, Access(c)
  PROVE  AccessInv' /\ File!Ask(c)
<1>1. /\ call = NoCall /\ call' = c /\ frame' = Reversed(FrameOf(c)) /\ ss' = FALSE
      /\ busy' = TRUE /\ seen' = <<>> /\ got' = <<>>
      /\ UNCHANGED <<up, reply, regs, heard, latch>>
  BY DEF Access, Wire!Begin, Select
<1>2. Idle /\ LinkTypes
  BY <1>1, CallFacts DEF AccessInv, InFrame
<1>3. LinkTypes'
  BY <1>1, <1>2 DEF LinkTypes
<1>4. InFrame'
  <2>1. Len(seen') = 0 /\ Len(got') = 0 /\ heard' = <<>> /\ Len(heard') = 0
        /\ heard' \in Seq(Byte) /\ 0 \in 0 .. Length(c)
    BY <1>1, <1>2 DEF Idle, Length
  <2> QED
    BY <1>1, <2>1 DEF InFrame
<1>5. File!Ask(c)
  BY <1>1 DEF File!Ask
<1> QED
  BY <1>3, <1>4, <1>5 DEF AccessInv

LEMMA ReturnStep ==
  ASSUME AccessInv, Return
  PROVE  AccessInv' /\ File!Answer
<1>1. /\ busy /\ Len(seen) = Len(frame) /\ busy' = FALSE /\ result' = got
      /\ ss' = TRUE /\ heard' = <<>> /\ call' = NoCall
      /\ reply' = IF call.op = "read" THEN Value(got) ELSE reply
      /\ UNCHANGED <<frame, seen, got, up, regs, latch>>
  BY DEF Return, Wire!Return, Deselect
<1>2. InFrame /\ LinkTypes
  BY <1>1 DEF AccessInv, Idle
<1>3. call \in Calls /\ call # NoCall /\ call.op \in {"read", "write"} /\ Len(seen) = Length(call)
      /\ Len(got) = Length(call)
  <2>1. call \in Calls
    BY <1>2 DEF InFrame
  <2> QED
    BY <1>1, <1>2, <2>1, CallFacts, FrameFacts, ReversedFacts DEF InFrame
<1>4. ASSUME call.op = "read"
      PROVE  Value(got) \in Word /\ (up => Value(got) = latch)
  <2>1. Len(got) = 6 /\ got \in Seq(Byte)
    BY <1>2, <1>3, <1>4 DEF Length, LinkTypes
  <2>2. /\ Reversed(got) \in Seq(Byte) /\ Len(Reversed(got)) = 6
        /\ \A i \in 1 .. 6 : Reversed(got)[i] \in Byte /\ Reversed(got)[i] = lsb2msb(got[i])
    BY <2>1, ReversedFacts
  <2>3. Value(got) = [i \in 1 .. 4 |-> Reversed(got)[i + 2]]
    BY <2>2 DEF Value
  <2>4. \A i \in 1 .. 4 : i + 2 \in 1 .. 6 /\ i + 2 \in 3 .. 6 /\ (i + 2) - 2 = i
    OBVIOUS
  <2>5. Value(got) \in Word
    <3>1. \A i \in 1 .. 6 : Reversed(got)[i] \in Byte
      BY <2>2
    <3>2. \A i \in 1 .. 4 : Reversed(got)[i + 2] \in Byte
      BY <2>4, <3>1
    <3> QED
      BY <2>3, <3>2 DEF Word
  <2>6. ASSUME up PROVE Value(got) = latch
    <3>1. latch \in Word
      BY <1>2, SpiLinkAssumption DEF LinkTypes
    <3>2. \A i \in 3 .. 6 : got[i] = Crossed(latch[i - 2])
      BY <1>2, <1>3, <1>4, <2>1, <2>6 DEF InFrame
    <3>3. ASSUME NEW i \in 1 .. 4 PROVE Reversed(got)[i + 2] = latch[i]
      <4>1. latch[i] \in Byte /\ got[i + 2] = Crossed(latch[i])
        BY <2>4, <3>1, <3>2 DEF Word
      <4> QED
        BY <2>2, <2>4, <4>1, TableUndoes
    <3> QED
      BY <2>3, <3>1, <3>3 DEF Word
  <2> QED
    BY <2>5, <2>6
<1>5. LinkTypes'
  BY <1>1, <1>2, <1>4 DEF LinkTypes
<1>6. Idle'
  BY <1>1 DEF Idle
<1>7. File!Answer
  <2>1. Len(seen) >= (IF call.op = "read" THEN 2 ELSE 5)
    BY <1>3 DEF Length
  <2>2. reply' \in IF call.op = "write" THEN {reply} ELSE IF up THEN {latch} ELSE Word
    BY <1>1, <1>3, <1>4
  <2>3. (/\ up /\ call # NoCall
         /\ Len(seen) >= IF call.op = "read" THEN 2 ELSE 5) = up
    BY <1>2, <1>3, <2>1 DEF LinkTypes
  <2>4. (/\ up /\ call # NoCall
         /\ Len(seen) >= IF call.op = "read" THEN 2 ELSE 5)' = FALSE
    BY <1>1
  <2> QED
    BY <1>1, <1>3, <2>2, <2>3, <2>4 DEF File!Answer
<1> QED
  BY <1>5, <1>6, <1>7 DEF AccessInv

LEMMA ChangeStep ==
  ASSUME AccessInv, NEW reg \in Regs, NEW val \in Values,
         regs' = [regs EXCEPT ![reg] = val],
         UNCHANGED <<up, ss, call, reply, wireVars, heard, latch>>
  PROVE  AccessInv' /\ File!Change(reg, val)
<1>1. LinkTypes'
  BY DEF AccessInv, LinkTypes, wireVars
<1>2. Idle \/ InFrame => (Idle \/ InFrame)'
  BY DEF Idle, InFrame, wireVars
<1>3. File!Change(reg, val)
  BY DEF File!Change, wireVars
<1> QED
  BY <1>1, <1>2, <1>3 DEF AccessInv

LEMMA IdleStep ==
  ASSUME AccessInv, UNCHANGED vars
  PROVE  AccessInv' /\ UNCHANGED File!vars
<1>1. AccessInv'
  BY DEF AccessInv, LinkTypes, Idle, InFrame, vars, wireVars
<1> QED
  BY <1>1 DEF File!vars, vars, wireVars

\* The next byte of a frame, as the controller hears it.
LEMMA ByteHeard ==
  ASSUME InFrame, ExchangeByte
  PROVE  /\ Len(seen) + 1 \in 1 .. Length(call) /\ Len(heard) = Len(seen)
         /\ heard' \in Seq(Byte) /\ Len(heard') = Len(seen) + 1
         /\ \A i \in 1 .. Len(seen) + 1 : heard'[i] = FrameOf(call)[i]
         /\ heard'[1] \div 4 = call.reg
         /\ heard'[1] % 4 = IF call.op = "read" THEN 1 ELSE 2
         /\ frame[Len(seen) + 1] \in Byte
<1>1. /\ ss = FALSE /\ call \in Calls /\ frame = Reversed(FrameOf(call))
      /\ Len(seen) \in 0 .. Length(call) /\ heard \in Seq(Byte) /\ Len(heard) = Len(seen)
      /\ \A i \in 1 .. Len(seen) : heard[i] = FrameOf(call)[i]
  BY DEF InFrame
<1>2. /\ Len(seen) < Len(frame)
      /\ heard' = Append(heard, Crossed(frame[Len(seen) + 1]))
  BY <1>1 DEF ExchangeByte
<1>3. /\ Len(frame) = Length(call) /\ Length(call) \in {5, 6}
      /\ \A i \in 1 .. Length(call) :
           /\ frame[i] \in Byte /\ FrameOf(call)[i] \in Byte
           /\ Crossed(frame[i]) = FrameOf(call)[i]
  <2>1. FrameOf(call) \in Seq(Byte) /\ Len(FrameOf(call)) = Length(call)
    BY <1>1, FrameFacts
  <2>2. frame \in Seq(Byte) /\ Len(frame) = Length(call)
        /\ \A i \in 1 .. Length(call) : Crossed(frame[i]) = FrameOf(call)[i]
    BY <1>1, <2>1, ReversedFacts
  <2>3. \A i \in 1 .. Length(call) : frame[i] \in Byte /\ FrameOf(call)[i] \in Byte
    BY <2>1, <2>2
  <2> QED
    BY <2>2, <2>3 DEF Length
<1>4. PICK n : n = Len(seen)
  OBVIOUS
<1>5. n \in Nat /\ n + 1 \in 1 .. Length(call)
  BY <1>1, <1>2, <1>3, <1>4
<1>6. heard' = Append(heard, FrameOf(call)[n + 1]) /\ FrameOf(call)[n + 1] \in Byte
      /\ frame[n + 1] \in Byte
  BY <1>2, <1>3, <1>4, <1>5
<1>7. heard' \in Seq(Byte) /\ Len(heard') = n + 1 /\ heard'[n + 1] = FrameOf(call)[n + 1]
      /\ \A i \in 1 .. n : heard'[i] = heard[i]
  BY <1>1, <1>4, <1>6
<1>8. \A i \in 1 .. n + 1 : heard'[i] = FrameOf(call)[i]
  BY <1>1, <1>4, <1>5, <1>7
<1>9. heard'[1] = HeaderOf(call)
  BY <1>1, <1>5, <1>8, FrameFacts
<1> QED
  BY <1>1, <1>4, <1>5, <1>6, <1>7, <1>8, <1>9, CallFacts

\* The word a write frame carries, once the whole of it is heard.
LEMMA WordHeard ==
  ASSUME NEW q \in Seq(Byte), Len(q) = 5, NEW w \in Word, \A i \in 2 .. 5 : q[i] = w[i - 1]
  PROVE  SubSeq(q, 2, 5) = w
<1>1. SubSeq(q, 2, 5) = [i \in 1 .. 4 |-> q[i + 1]]
  OBVIOUS
<1>2. w = [i \in 1 .. 4 |-> w[i]]
  BY DEF Word
<1>3. \A i \in 1 .. 4 : i + 1 \in 2 .. 5 /\ (i + 1) - 1 = i
  OBVIOUS
<1>4. \A i \in 1 .. 4 : q[i + 1] = w[i]
  BY <1>3
<1> QED
  BY <1>1, <1>2, <1>4

\* The buffer a byte is appended to, and what stands where in it afterwards.
LEMMA OneMore ==
  ASSUME NEW q \in Seq(Byte), NEW b \in Byte, NEW r, r = Append(q, b)
  PROVE  /\ r \in Seq(Byte) /\ Len(r) = Len(q) + 1 /\ r[Len(q) + 1] = b
         /\ \A i \in 1 .. Len(q) : r[i] = q[i]
  OBVIOUS

LEMMA ByteStep ==
  ASSUME AccessInv, ExchangeByte
  PROVE  AccessInv' /\ (File!Serve \/ UNCHANGED File!vars)
<1>1. PICK n : n = Len(seen) + 1
  OBVIOUS
<1>2. busy /\ UNCHANGED <<up, ss, call, reply, busy, frame, result>>
      /\ seen' = Append(seen, frame[n])
  BY <1>1 DEF ExchangeByte, Wire!ExchangeByte
<1>3. InFrame /\ LinkTypes
  BY <1>2 DEF AccessInv, Idle
<1>4. /\ ss = FALSE /\ call \in Calls /\ call # NoCall /\ call.reg \in Regs
      /\ call.op \in {"read", "write"} /\ (call.op = "write" => call.val \in Values)
      /\ seen \in Seq(Byte) /\ got \in Seq(Byte) /\ Len(got) = Len(seen)
      /\ regs \in [Regs -> Values] /\ latch \in Values /\ up \in BOOLEAN
  BY <1>3, CallFacts DEF InFrame, LinkTypes
<1>5. /\ n \in Nat /\ n \in 1 .. Length(call) /\ Len(heard) + 1 = n /\ Len(seen) = n - 1
      /\ heard' \in Seq(Byte) /\ Len(heard') = n
      /\ \A i \in 1 .. n : heard'[i] = FrameOf(call)[i]
      /\ heard'[1] \div 4 = call.reg
      /\ heard'[1] % 4 = IF call.op = "read" THEN 1 ELSE 2
      /\ frame[n] \in Byte
  BY <1>1, <1>3, <1>4, ByteHeard
<1>6. /\ latch' = IF up /\ call.op = "read" /\ n = 2 THEN regs[call.reg] ELSE latch
      /\ regs' = IF up /\ call.op = "write" /\ n = 5
                    THEN [regs EXCEPT ![call.reg] = SubSeq(heard', 2, 5)] ELSE regs
      /\ \E byte \in IF up /\ call.op = "read" /\ n \in 3 .. 6 THEN {latch[n - 2]} ELSE Floats :
           got' = Append(got, Crossed(byte))
  <2> DEFINE reg == heard'[1] \div 4
             answers == up /\ ~ss /\ reg \in Regs /\ heard'[1] % 4 = 1
             obeys == up /\ ~ss /\ reg \in Regs /\ heard'[1] % 4 = 2
  <2>1. /\ latch' = IF answers /\ Len(heard) + 1 = 2 THEN regs[reg] ELSE latch
        /\ regs' = IF obeys /\ Len(heard) + 1 = 5
                      THEN [regs EXCEPT ![reg] = SubSeq(heard', 2, 5)] ELSE regs
        /\ \E byte \in IF answers /\ Len(heard) + 1 \in 3 .. 6
                          THEN {latch[Len(heard) + 1 - 2]} ELSE Floats :
             got' = Append(got, Crossed(byte))
    BY SMTT(30) DEF ExchangeByte
  <2>2. reg = call.reg
    BY <1>5
  <2>3. answers <=> up /\ call.op = "read"
    BY <1>4, <1>5, <2>2
  <2>4. obeys <=> up /\ call.op = "write"
    BY <1>4, <1>5, <2>2
  <2> HIDE DEF reg, answers, obeys
  <2> QED
    BY <1>5, <2>1, <2>2, <2>3, <2>4
<1>7. PICK byte \in Byte :
        /\ got' = Append(got, Crossed(byte))
        /\ up /\ call.op = "read" /\ n \in 3 .. 6 => byte = latch[n - 2]
  <2>1. Floats \subseteq Byte
    BY SpiLinkAssumption
  <2>2. CASE up /\ call.op = "read" /\ n \in 3 .. 6
    <3>1. latch \in Word /\ n - 2 \in 1 .. 4
      BY <1>4, <2>2, SpiLinkAssumption
    <3>2. latch[n - 2] \in Byte
      BY <3>1 DEF Word
    <3> QED
      BY <1>6, <2>2, <3>2
  <2> QED
    BY <1>6, <2>1, <2>2
<1>8. /\ got' \in Seq(Byte) /\ Len(got') = n /\ got'[n] = Crossed(byte)
      /\ \A i \in 1 .. n - 1 : got'[i] = got[i]
  <2>1. Crossed(byte) \in Byte
    BY TableUndoes
  <2> QED
    BY ONLY <1>4, <1>5, <1>7, <2>1, OneMore
<1>9. seen' \in Seq(Byte) /\ Len(seen') = n
  BY ONLY <1>2, <1>4, <1>5, OneMore
<1>10. ASSUME up, call.op = "write", n = 5
       PROVE  SubSeq(heard', 2, 5) = call.val
  <2>1. call.val \in Word
    BY <1>4, <1>10, SpiLinkAssumption
  <2>2. \A i \in 2 .. 5 : heard'[i] = call.val[i - 1]
    BY SMTT(30), <1>4, <1>5, <1>10, FrameFacts
  <2>3. PICK h, w : h = heard' /\ w = call.val
    OBVIOUS
  <2> QED
    BY ONLY <1>5, <1>10, <2>1, <2>2, <2>3, WordHeard
<1>11. LinkTypes'
  <2>1. regs' \in [Regs -> Values]
    BY <1>4, <1>6, <1>10
  <2>2. latch' \in Values
    BY <1>4, <1>6
  <2> QED
    BY <1>2, <1>3, <1>8, <1>9, <2>1, <2>2 DEF LinkTypes
<1>12. InFrame'
  <2>1. ASSUME up, call.op = "read", NEW i \in 3 .. n
        PROVE  got'[i] = Crossed(latch'[i - 2])
    <3>1. latch' = latch /\ n \in 3 .. 6
      BY <1>4, <1>5, <1>6, <2>1 DEF Length
    <3>2. CASE i = n
      BY <1>7, <1>8, <2>1, <3>1, <3>2
    <3>3. CASE i # n
      <4>1. i \in 3 .. Len(seen) /\ i \in 1 .. n - 1
        BY <1>5, <3>3
      <4> QED
        BY <1>3, <1>8, <2>1, <3>1, <4>1 DEF InFrame
    <3> QED
      BY <3>2, <3>3
  <2>2. n \in 0 .. Length(call)
    BY <1>4, <1>5 DEF Length
  <2> QED
    BY <1>2, <1>3, <1>5, <1>8, <1>9, <2>1, <2>2 DEF InFrame
<1>13. File!Serve \/ UNCHANGED File!vars
  <2> DEFINE least == IF call.op = "read" THEN 2 ELSE 5
  <2>1. (up /\ call # NoCall /\ Len(seen) >= least) <=> (up /\ n > least)
    BY <1>4, <1>5
  <2>2. (up /\ call # NoCall /\ Len(seen) >= least)' <=> (up /\ n >= least)
    BY <1>2, <1>4, <1>9
  <2>3. CASE up /\ n = least
    <3>1. ~(up /\ call # NoCall /\ Len(seen) >= least)
          /\ (up /\ call # NoCall /\ Len(seen) >= least)'
      BY <1>5, <2>1, <2>2, <2>3
    <3>2. \/ call.op = "read" /\ latch' = regs[call.reg] /\ UNCHANGED regs
          \/ call.op = "write" /\ regs' = [regs EXCEPT ![call.reg] = call.val] /\ UNCHANGED latch
      BY <1>4, <1>6, <1>10, <2>3
    <3> QED
      BY <1>2, <1>4, <2>3, <3>1, <3>2 DEF File!Serve
  <2>4. CASE ~(up /\ n = least)
    <3>1. (up /\ call # NoCall /\ Len(seen) >= least)'
          = (up /\ call # NoCall /\ Len(seen) >= least)
      BY <1>4, <1>5, <2>1, <2>2, <2>4
    <3>2. UNCHANGED <<regs, latch>>
      BY <1>4, <1>6, <2>4
    <3> QED
      BY <1>2, <3>1, <3>2 DEF File!vars
  <2> QED
    BY <2>3, <2>4
<1> QED
  BY <1>11, <1>12, <1>13 DEF AccessInv

LEMMA AccessStep ==
  ASSUME AccessInv, [Next]_vars
  PROVE  AccessInv' /\ [File!Next]_(File!vars)
<1>1. CASE spiex_init \/ spiex_deinit
  BY <1>1, LinkStep DEF File!Next
<1>2. CASE spiex_read_reg
  <2>1. PICK c \in [op : {"read"}, reg : Regs] : Access(c)
    BY <1>2 DEF spiex_read_reg
  <2>2. c \in Calls /\ c.reg \in Regs /\ c = [op |-> "read", reg |-> c.reg]
    BY DEF Calls
  <2>3. AccessInv' /\ File!Ask(c)
    BY <2>1, <2>2, AskStep
  <2> QED
    BY <2>2, <2>3 DEF File!Next
<1>3. CASE spiex_write_reg
  <2>1. PICK c \in [op : {"write"}, reg : Regs, val : Values] : Access(c)
    BY <1>3 DEF spiex_write_reg
  <2>2. /\ c \in Calls /\ c.reg \in Regs /\ c.val \in Values
        /\ c = [op |-> "write", reg |-> c.reg, val |-> c.val]
    BY DEF Calls
  <2>3. AccessInv' /\ File!Ask(c)
    BY <2>1, <2>2, AskStep
  <2> QED
    BY <2>2, <2>3 DEF File!Next
<1>4. CASE Return
  BY <1>4, ReturnStep DEF File!Next
<1>5. CASE ExchangeByte
  BY <1>5, ByteStep DEF File!Next
<1>6. CASE RegisterChanges
  <2>1. PICK reg \in Regs, val \in Values : regs' = [regs EXCEPT ![reg] = val]
    BY <1>6 DEF RegisterChanges
  <2>2. UNCHANGED <<up, ss, call, reply, wireVars, heard, latch>>
    BY <1>6 DEF RegisterChanges
  <2>3. AccessInv' /\ File!Change(reg, val)
    BY <2>1, <2>2, ChangeStep
  <2> QED
    BY <2>3 DEF File!Next
<1>7. CASE UNCHANGED vars
  BY <1>7, IdleStep
<1> QED
  BY <1>1, <1>2, <1>3, <1>4, <1>5, <1>6, <1>7 DEF Next
-----------------------------------------------------------------------------
(* Theorems *)

\* Every access of spiex.c is in one of two situations: none under way and the line at
\* rest, or a frame with as many bytes heard and answered as were sent.
THEOREM Accesses == Spec => []AccessInv
<1>1. Init => AccessInv
  BY AccessInit
<1>2. AccessInv /\ [Next]_vars => AccessInv'
  BY AccessStep
<1> QED
  BY <1>1, <1>2, PTL DEF Spec

\* When chip select rises at the end of an access the controller has heard all of it:
\* nothing but the return of the transfer ends a frame.
LEMMA FrameIsWhole ==
  ASSUME AccessInv, Next, ~ss, ss'
  PROVE  heard = FrameOf(call)
<1>1. InFrame
  BY DEF AccessInv, Idle
<1>2. call \in Calls /\ call # NoCall
  BY <1>1, NoCallAssumption DEF InFrame
<1>3. Return
  BY <1>2 DEF Next, spiex_init, spiex_deinit, spiex_read_reg, spiex_write_reg, Access, Select,
              ExchangeByte, RegisterChanges
<1>4. /\ frame = Reversed(FrameOf(call)) /\ Len(seen) = Len(frame)
      /\ heard \in Seq(Byte) /\ Len(heard) = Len(seen)
      /\ \A i \in 1 .. Len(seen) : heard[i] = FrameOf(call)[i]
  BY <1>1, <1>3 DEF InFrame, Return, Wire!Return
<1>5. FrameOf(call) \in Seq(Byte) /\ Len(frame) = Len(FrameOf(call))
  BY <1>2, <1>4, FrameFacts, ReversedFacts
<1>6. PICK h, f : h = heard /\ f = FrameOf(call)
  OBVIOUS
<1>7. h \in Seq(Byte) /\ f \in Seq(Byte) /\ Len(h) = Len(f) /\ \A i \in 1 .. Len(h) : h[i] = f[i]
  BY <1>4, <1>5, <1>6
<1>8. h = f
  BY ONLY <1>7
<1> QED
  BY <1>6, <1>8

\* The controller is in no frame while chip select is high, inside one it has heard the
\* beginning of what spiex.c means, byte for byte, and all of it when chip select rises at
\* the end of the access: lsb2msb undoes the crossing of the two bit orders for every byte,
\* and no level of chip select cuts a frame short.
THEOREM FrameArrives == Spec => ControllerHearsTheFrame
<1>1. AccessInv => HearsTheBeginning
  <2> SUFFICES ASSUME AccessInv PROVE HearsTheBeginning
    OBVIOUS
  <2>1. CASE Idle
    BY <2>1 DEF Idle, HearsTheBeginning
  <2>2. CASE InFrame
    <3>1. /\ heard \in Seq(Byte) /\ Len(heard) = Len(seen) /\ Len(seen) \in 0 .. Length(call)
          /\ \A i \in 1 .. Len(seen) : heard[i] = FrameOf(call)[i]
          /\ FrameOf(call) \in Seq(Byte) /\ Len(FrameOf(call)) = Length(call)
          /\ Length(call) \in {5, 6}
      BY <2>2, FrameFacts DEF InFrame, Length
    <3>2. PICK h, f, n : h = heard /\ f = FrameOf(call) /\ n = Len(heard)
      OBVIOUS
    <3>3. /\ h \in Seq(Byte) /\ f \in Seq(Byte) /\ n \in Nat /\ n = Len(h) /\ n <= Len(f)
          /\ \A i \in 1 .. n : h[i] = f[i]
      BY <3>1, <3>2
    <3>4. SubSeq(h, 1, n) = SubSeq(f, 1, n)
      BY ONLY <3>3
    <3>5. IsPrefix(heard, FrameOf(call))
      BY <3>2, <3>3, <3>4 DEF IsPrefix
    <3> QED
      BY <2>2, <3>5 DEF InFrame, HearsTheBeginning
  <2> QED
    BY <2>1, <2>2 DEF AccessInv
<1>2. HearsTheBeginning' /\ AccessInv /\ [Next]_vars =>
        [HearsTheBeginning' /\ (~ss /\ ss' => heard = FrameOf(call))]_vars
  BY FrameIsWhole
<1> QED
  BY <1>1, <1>2, Accesses, PTL DEF Spec, ControllerHearsTheFrame

\* The bytes, the bit orders, chip select and the moment the controller looks at its
\* registers together make an access of spiex.c one indivisible read or write of a
\* register: the link refines the register file.
THEOREM LinkIsRegisterFile == Spec => ImplementsRegisterFile
<1>1. Init => AccessInv /\ File!Init
  BY AccessInit
<1>2. AccessInv /\ [Next]_vars => AccessInv' /\ [File!Next]_(File!vars)
  BY AccessStep
<1> QED
  BY <1>1, <1>2, PTL DEF Spec, ImplementsRegisterFile, File!Spec
=============================================================================
