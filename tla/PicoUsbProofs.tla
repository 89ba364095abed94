---------------------------- MODULE PicoUsbProofs ----------------------------
(***************************************************************************)
(* Theorems about PicoUsb for every chunking of the host's bytes, every      *)
(* payload and frame size, every FIFO that holds a frame and every number of *)
(* commands and bus events.                                                  *)
(***************************************************************************)
EXTENDS PicoUsb, TLAPS

-----------------------------------------------------------------------------
(* Sequences, frames and pins *)

LEMMA HeadAndTail ==
  ASSUME NEW S, NEW q \in Seq(S), q # <<>>
  PROVE  /\ Len(q) > 0 /\ Head(q) \in S /\ Head(q) = q[1]
         /\ Tail(q) \in Seq(S) /\ Len(Tail(q)) = Len(q) - 1
         /\ \A i \in 1 .. Len(q) - 1 : Tail(q)[i] = q[i + 1]
  OBVIOUS

LEMMA Joined ==
  ASSUME NEW S, NEW p \in Seq(S), NEW q \in Seq(S)
  PROVE  /\ p \o q \in Seq(S) /\ Len(p \o q) = Len(p) + Len(q)
         /\ \A i \in 1 .. Len(p) : (p \o q)[i] = p[i]
         /\ \A i \in 1 .. Len(q) : (p \o q)[Len(p) + i] = q[i]
         /\ \A i \in 1 .. Len(p) + Len(q) :
              (p \o q)[i] = IF i <= Len(p) THEN p[i] ELSE q[i - Len(p)]
  OBVIOUS

LEMMA Cut ==
  ASSUME NEW S, NEW q \in Seq(S), NEW a \in 1 .. Len(q) + 1, NEW b \in a - 1 .. Len(q)
  PROVE  /\ SubSeq(q, a, b) \in Seq(S) /\ Len(SubSeq(q, a, b)) = b - a + 1
         /\ \A i \in 1 .. b - a + 1 : SubSeq(q, a, b)[i] = q[a + i - 1]
  OBVIOUS

LEMMA Empty ==
  ASSUME NEW S, NEW q \in Seq(S)
  PROVE  /\ Len(q) \in Nat
         /\ q = <<>> <=> Len(q) = 0
         /\ \A i \in 1 .. Len(q) : q[i] \in S
  OBVIOUS

LEMMA NoUnits ==
  /\ Len(<<>>) = 0 /\ Len(<<>>) + Len(<<>>) <= 1 + PayloadUnits /\ Len(<<>>) <= TxCapacity
  /\ <<>> \in Seq(UnitIn(Kinds)) /\ <<>> \in Seq(UnitOut)
  BY LinkAssumption

\* How long an answer is.
LEMMA AnswerLenType ==
  ASSUME NEW kind \in AllKinds, NEW ok \in BOOLEAN
  PROVE  /\ AnswerLen(kind, ok) \in 0 .. 1 + DataUnits
         /\ AnswerLen(kind, ok) = 0 <=> kind \in {"reboot", "other"}
         /\ AnswerLen(kind, TRUE) = 0 <=> kind \in {"reboot", "other"}
         /\ kind \in StreamKinds => AnswerLen(kind, ok) = IF ok THEN 1 + DataUnits ELSE 1
  BY LinkAssumption DEF AnswerLen, StreamKinds, AllKinds

LEMMA FrameType ==
  ASSUME NEW id \in 0 .. MaxCommands, NEW blk \in Nat, NEW ok \in BOOLEAN,
         NEW len \in 0 .. 1 + DataUnits
  PROVE  /\ Frame(id, blk, ok, len) \in Seq(UnitOut) /\ Len(Frame(id, blk, ok, len)) = len
         /\ \A i \in 1 .. len :
              Frame(id, blk, ok, len)[i] = [id |-> id, blk |-> blk, ok |-> ok, part |-> i]
         /\ \A i \in 1 .. len : Frame(id, blk, ok, len)[i].id = id
<1>1. \A i \in 1 .. len : [id |-> id, blk |-> blk, ok |-> ok, part |-> i] \in UnitOut
  BY LinkAssumption DEF UnitOut
<1> QED
  BY <1>1, LinkAssumption DEF Frame

\* The units of a whole command.
Size(kind) == 1 + (IF kind \in PayloadKinds THEN PayloadUnits ELSE 0)

LEMMA BytesType ==
  ASSUME NEW kind \in Kinds, NEW lba \in Lengths, NEW id \in 1 .. MaxCommands
  PROVE  /\ Bytes(kind, lba, id) \in Seq(UnitIn(Kinds))
         /\ Len(Bytes(kind, lba, id)) = Size(kind)
         /\ \A i \in 1 .. Size(kind) :
              Bytes(kind, lba, id)[i] = [kind |-> kind, lba |-> lba, id |-> id, part |-> i]
<1>1. Size(kind) \in 1 .. 1 + PayloadUnits
  BY LinkAssumption DEF Size
<1>2. Bytes(kind, lba, id) =
        [i \in 1 .. Size(kind) |-> [kind |-> kind, lba |-> lba, id |-> id, part |-> i]]
  BY DEF Bytes, Size
<1>3. \A i \in 1 .. Size(kind) :
        [kind |-> kind, lba |-> lba, id |-> id, part |-> i] \in UnitIn(Kinds)
  BY <1>1, LinkAssumption DEF UnitIn
<1> QED
  BY <1>1, <1>2, <1>3

\* What tud_cdc_write leaves in the FIFO.
LEMMA PutFacts ==
  ASSUME NEW q \in Seq(UnitOut), Len(q) <= TxCapacity, NEW units \in Seq(UnitOut)
  PROVE  /\ Put(q, units) \in Seq(UnitOut) /\ Len(Put(q, units)) <= TxCapacity
         /\ Len(q) <= Len(Put(q, units))
         /\ Len(units) <= TxCapacity - Len(q) => Put(q, units) = q \o units
         /\ \A i \in 1 .. Len(Put(q, units)) :
              \/ i <= Len(q) /\ Put(q, units)[i] = q[i]
              \/ i - Len(q) \in 1 .. Len(units) /\ Put(q, units)[i] = units[i - Len(q)]
<1> DEFINE n == IF Len(units) <= TxCapacity - Len(q) THEN Len(units) ELSE TxCapacity - Len(q)
<1>1. n \in 0 .. Len(units) /\ n + Len(q) <= TxCapacity /\ Len(q) \in Nat /\ Len(units) \in Nat
  BY LinkAssumption, Empty
<1>2. Put(q, units) = q \o SubSeq(units, 1, n)
  BY DEF Put
<1> HIDE DEF n
<1>3. /\ SubSeq(units, 1, n) \in Seq(UnitOut) /\ Len(SubSeq(units, 1, n)) = n
      /\ \A i \in 1 .. n : SubSeq(units, 1, n)[i] = units[i]
  BY <1>1, Cut
<1>4. /\ Put(q, units) \in Seq(UnitOut) /\ Len(Put(q, units)) = Len(q) + n
      /\ \A i \in 1 .. Len(q) + n :
           Put(q, units)[i] = IF i <= Len(q) THEN q[i] ELSE SubSeq(units, 1, n)[i - Len(q)]
  BY <1>2, <1>3, Joined
<1>5. Len(units) <= TxCapacity - Len(q) => Put(q, units) = q \o units
  <2>1. SubSeq(units, 1, Len(units)) = units
    OBVIOUS
  <2> QED
    BY <1>2, <2>1 DEF n
<1>6. ASSUME NEW i \in 1 .. Len(q) + n
      PROVE  \/ i <= Len(q) /\ Put(q, units)[i] = q[i]
             \/ i - Len(q) \in 1 .. Len(units) /\ Put(q, units)[i] = units[i - Len(q)]
  <2>1. CASE i <= Len(q)
    BY <1>4, <2>1
  <2>2. CASE ~(i <= Len(q))
    <3>1. i - Len(q) \in 1 .. n
      BY <1>1, <2>2
    <3> QED
      BY <1>1, <1>3, <1>4, <2>2, <3>1
  <2> QED
    BY <2>1, <2>2
<1> QED
  BY <1>1, <1>4, <1>5, <1>6

\* xbox_stop_smc leaves the console where the NAND controller answers.
LEMMA SmcStopped == \A p \in PinType : StopSmc(p) \in PinType /\ NandReachable(StopSmc(p))
  BY ZenonT(40) DEF PinType, StopSmc, PutDbg, PutSs, PutRst, SpiUp, NandReachable

LEMMA SmcStarted == \A p \in PinType : StartSmc(p) \in PinType /\ PutRst(p, FALSE) \in PinType
  BY DEF PinType, StartSmc, PutDbg, PutRst, SpiDown

-----------------------------------------------------------------------------
(* What the host has said and the device has not yet acted on *)

\* The units of q are those of command `sent` from number f on.
Units(q, k, l, f) ==
  \A i \in 1 .. Len(q) : q[i] = [kind |-> k, lba |-> l, id |-> sent, part |-> f + i - 1]

\* The FIFO and the wire hold, in order, command `sent` from its unit f on.
Pending(k, l, f) ==
  /\ Units(rx, k, l, f) /\ Units(wire, k, l, f + Len(rx))
  /\ f + Len(rx) + Len(wire) = 1 + Size(k)

NothingPending == rx = <<>> /\ wire = <<>>

NoAnswerDue(k, l) == AnswerLen(k, TRUE) = 0 \/ (k \in StreamKinds /\ l = 0)

\* The whole command is pending and the host waits for the start of its answer.
WholePending(k, l) ==
  /\ Pending(k, l, 1)
  /\ rx # <<>> => k \in CountedPayload
  /\ waiting = IF NoAnswerDue(k, l) THEN NoCommand
               ELSE [id |-> sent, kind |-> k, lba |-> l, blk |-> 0, part |-> 1]

\* What is left of an EMMC_WRITE whose handler ran too early.
RestPending(k, l, f) ==
  /\ Pending(k, l, f)
  /\ f > 1
  /\ short_emmc
  /\ waiting # NoCommand

\* Nothing the device has sent or will send answers command `sent`.
Unanswered ==
  /\ \A i \in 1 .. Len(tx) : tx[i].id # sent
  /\ stream_of # sent

HeardInv ==
  /\ waiting # NoCommand => waiting.id = sent
  /\ stream_of <= sent /\ \A i \in 1 .. Len(tx) : tx[i].id <= sent
  /\ \/ NothingPending
     \/ /\ Unanswered
        /\ sent > 0
        /\ \E k \in Kinds, l \in Lengths :
             WholePending(k, l) \/ \E f \in 2 .. Size(k) : RestPending(k, l, f)

-----------------------------------------------------------------------------
(* What the device has still to say *)

StreamDone == do_stream => stream_offset >= stream_end

\* v is the unit the host expects after u.
Follows(u, v) ==
  IF u.part < AnswerLen(waiting.kind, u.ok)
  THEN v.part = u.part + 1 /\ v.blk = u.blk /\ v.ok = u.ok
  ELSE /\ v.part = 1 /\ v.blk = u.blk + 1
       /\ waiting.kind \in StreamKinds /\ u.ok /\ u.blk + 1 < waiting.lba

\* The FIFO holds the rest of the answer from the unit the host expects next.
AnswerInFifo ==
  /\ \A i \in 1 .. Len(tx) : tx[i].id = waiting.id
  /\ tx # <<>> => tx[1].blk = waiting.blk /\ tx[1].part = waiting.part
  /\ \A i \in 1 .. Len(tx) - 1 : Follows(tx[i], tx[i + 1])
  /\ tx # <<>> => tx[Len(tx)].part = AnswerLen(waiting.kind, tx[Len(tx)].ok)
  /\ IF waiting.kind \in StreamKinds
     THEN /\ stream_of = waiting.id /\ stream_end = waiting.lba
          /\ tx = <<>> => /\ do_stream /\ stream_offset < stream_end
                          /\ waiting.part = 1 /\ waiting.blk = stream_offset
          /\ tx # <<>> =>
               IF tx[Len(tx)].ok
               THEN /\ stream_offset = tx[Len(tx)].blk + 1
                    /\ stream_offset < stream_end => do_stream
               ELSE ~do_stream
     ELSE tx # <<>> /\ StreamDone

StepInv ==
  aligned /\ ~orphaned =>
    /\ ~confused
    /\ waiting = NoCommand \/ ~NothingPending => tx = <<>> /\ StreamDone
    /\ waiting # NoCommand /\ NothingPending => AnswerInFifo

\* Nothing is under way on a link that is not there.
DetachedInv == usb = "detached" => waiting = NoCommand /\ aligned /\ NothingPending

\* The inductive invariant behind the safety properties of the link.
LinkInv ==
  TypeOK /\ HeardInv /\ FramingHolds /\ StepInv /\ DetachedInv /\ NandReachableWhileMounted

LEMMA LinkInit == Init => LinkInv
<1> SUFFICES ASSUME Init PROVE LinkInv
  OBVIOUS
<1>0. InitPins(Undriven) \in PinType
  BY DEF InitPins, PutSs, PutRst, PutDbg, Undriven, PinType
<1>3. /\ wire \in Seq(UnitIn(Kinds)) /\ rx \in Seq(UnitIn(Kinds))
      /\ Len(wire) + Len(rx) <= 1 + PayloadUnits
      /\ tx \in Seq(UnitOut) /\ Len(tx) <= TxCapacity
  BY NoUnits DEF Init
<1>4. /\ stream_of = 0 /\ stream_offset = 0 /\ stream_end = 0 /\ sent = 0 /\ attached = 0
      /\ 0 \in 0 .. MaxCommands /\ 0 \in 0 .. MaxAttach /\ 0 \in Nat
  BY LinkAssumption DEF Init, Stray
<1>1. TypeOK
  BY <1>0, <1>3, <1>4, Zenon DEF Init, TypeOK
<1>2. HeardInv /\ FramingHolds /\ StepInv /\ DetachedInv /\ NandReachableWhileMounted
  BY DEF Init, Stray, HeardInv, NothingPending, FramingHolds, StepInv, StreamDone, DetachedInv,
         NandReachableWhileMounted
<1> QED
  BY <1>1, <1>2 DEF LinkInv

\* The numbers of the units in the transmit FIFO.
LEMMA NumbersSent ==
  ASSUME TypeOK, HeardInv
  PROVE  /\ sent \in Nat /\ stream_of \in Nat /\ stream_of <= sent
         /\ \A i \in 1 .. Len(tx) : tx[i] \in UnitOut /\ tx[i].id \in Nat /\ tx[i].id <= sent
<1>1. tx \in Seq(UnitOut) /\ sent \in 0 .. MaxCommands /\ stream_of \in 0 .. MaxCommands
  BY DEF TypeOK
<1>2. \A i \in 1 .. Len(tx) : tx[i] \in UnitOut
  BY <1>1, Empty
<1>3. \A u \in UnitOut : u.id \in Nat
  BY LinkAssumption DEF UnitOut
<1> QED
  BY <1>1, <1>2, <1>3, LinkAssumption DEF HeardInv

-----------------------------------------------------------------------------
(* The bus *)

\* The end of an attachment leaves nothing under way but a stream.
LEMMA DisconnectStep ==
  ASSUME LinkInv, Disconnect, UNCHANGED <<sent, streamVars>>,
         attached' \in 0 .. MaxAttach, usb' \in {"mounted", "detached"},
         pins' \in PinType, usb' = "mounted" => NandReachable(pins'),
         tx' = <<>> \/ (tx' = tx /\ usb = "detached")
  PROVE  LinkInv'
<1> USE DEF LinkInv
<1>1. TypeOK'
  BY NoUnits, LinkAssumption DEF TypeOK, Disconnect, streamVars
<1>2. HeardInv'
  <2>1. /\ stream_of <= sent /\ \A i \in 1 .. Len(tx) : tx[i].id <= sent
        /\ stream_of' = stream_of /\ sent' = sent /\ waiting' = NoCommand /\ NothingPending'
    BY DEF HeardInv, Disconnect, streamVars, NothingPending
  <2>2. CASE tx' = <<>>
    BY <2>1, <2>2 DEF HeardInv
  <2>3. CASE tx' = tx
    BY <2>1, <2>3 DEF HeardInv
  <2> QED
    BY <2>2, <2>3
<1>3. StepInv'
  BY DEF StepInv, DetachedInv, Disconnect, NothingPending, StreamDone, streamVars
<1>4. FramingHolds' /\ DetachedInv' /\ NandReachableWhileMounted'
  BY DEF Disconnect, FramingHolds, DetachedInv, NothingPending, NandReachableWhileMounted
<1> QED
  BY <1>1, <1>2, <1>3, <1>4

LEMMA BusStep == ASSUME LinkInv, Bus PROVE LinkInv'
<1> USE DEF LinkInv
<1>1. pins \in PinType /\ attached \in 0 .. MaxAttach
  BY DEF TypeOK
<1>2. CASE tud_mount_cb
  <2>1. pins' \in PinType /\ NandReachable(pins')
    BY <1>1, <1>2, SmcStopped DEF tud_mount_cb
  <2>2. attached' \in 0 .. MaxAttach
    BY <1>1, <1>2, LinkAssumption DEF tud_mount_cb, BusEvent
  <2>3. tx' = <<>> \/ (tx' = tx /\ usb = "detached")
    BY <1>2 DEF tud_mount_cb
  <2> QED
    BY <1>2, <2>1, <2>2, <2>3, DisconnectStep DEF tud_mount_cb
<1>3. CASE tud_umount_cb
  <2>1. pins' \in PinType
    BY <1>1, <1>3, SmcStarted DEF tud_umount_cb
  <2>2. attached' \in 0 .. MaxAttach
    BY <1>1, <1>3, LinkAssumption DEF tud_umount_cb, BusEvent
  <2> QED
    BY <1>3, <2>1, <2>2, DisconnectStep DEF tud_umount_cb
<1>4. CASE tud_suspend_cb \/ tud_resume_cb
  <2>1. /\ pins' \in PinType /\ (usb' = "mounted" => NandReachable(pins'))
        /\ usb # "detached" /\ usb' \in {"mounted", "suspended"}
    BY <1>1, <1>4, SmcStarted, SmcStopped DEF tud_suspend_cb, tud_resume_cb
  <2>2. attached' \in 0 .. MaxAttach
    BY <1>1, <1>4, LinkAssumption DEF tud_suspend_cb, tud_resume_cb, BusEvent
  <2>3. UNCHANGED <<wire, waiting, sent, fifoVars, streamVars, history>>
    BY <1>4 DEF tud_suspend_cb, tud_resume_cb
  <2>4. TypeOK'
    BY <2>1, <2>2, <2>3 DEF TypeOK, fifoVars, streamVars, history
  <2>5. HeardInv' /\ FramingHolds'
    BY ZenonT(40), <2>3
    DEF HeardInv, NothingPending, WholePending, RestPending, Pending, Units, Unanswered, FramingHolds,
        fifoVars, streamVars, history
  <2>6. StepInv'
    BY <2>3
    DEF StepInv, NothingPending, StreamDone, AnswerInFifo, Follows, fifoVars, streamVars, history
  <2> QED
    BY <2>1, <2>4, <2>5, <2>6 DEF DetachedInv, NandReachableWhileMounted
<1> QED
  BY <1>2, <1>3, <1>4 DEF Bus
-----------------------------------------------------------------------------
(* The host *)

\* When the host is free to send, the device has acted on all it was sent.
LEMMA NothingLeftToHear ==
  ASSUME TypeOK, HeardInv, waiting = NoCommand, wire = <<>>
  PROVE  NothingPending
<1> SUFFICES ASSUME NEW k \in Kinds, NEW l \in Lengths, WholePending(k, l)
             PROVE  NothingPending
  BY DEF HeardInv, RestPending
<1>1. CASE rx = <<>>
  BY <1>1 DEF NothingPending
<1>2. CASE rx # <<>>
  <2>1. k \in CountedPayload
    BY <1>2 DEF WholePending
  <2>2. ~NoAnswerDue(k, l)
    BY <2>1 DEF NoAnswerDue, CountedPayload, AnswerLen, StreamKinds
  <2>3. waiting = [id |-> sent, kind |-> k, lba |-> l, blk |-> 0, part |-> 1]
    BY <2>2 DEF WholePending
  <2>4. sent \in Nat /\ k \in AllKinds /\ l \in Nat
    BY LinkAssumption DEF TypeOK
  <2> QED
    BY <2>3, <2>4, NoCommandAssumption
<1> QED
  BY <1>1, <1>2

LEMMA SendStep == ASSUME LinkInv, HostSends PROVE LinkInv'
<1> USE DEF LinkInv
<1>1. PICK k \in Kinds, l \in Lengths :
        /\ wire' = Bytes(k, l, sent + 1)
        /\ waiting' = IF NoAnswerDue(k, l) THEN NoCommand
                      ELSE [id |-> sent + 1, kind |-> k, lba |-> l, blk |-> 0, part |-> 1]
  BY DEF HostSends, NoAnswerDue
<1>2. /\ usb = "mounted" /\ waiting = NoCommand /\ wire = <<>> /\ sent < MaxCommands
      /\ sent' = sent + 1
      /\ UNCHANGED <<usb, attached, fifoVars, pins, streamVars, history>>
  BY DEF HostSends
<1>3. sent \in 0 .. MaxCommands /\ sent + 1 \in 1 .. MaxCommands /\ NothingPending
      /\ k \in AllKinds /\ l \in Nat
  BY <1>2, NothingLeftToHear, LinkAssumption DEF TypeOK
<1>4. /\ wire' \in Seq(UnitIn(Kinds)) /\ Len(wire') = Size(k)
      /\ \A i \in 1 .. Size(k) :
           wire'[i] = [kind |-> k, lba |-> l, id |-> sent + 1, part |-> i]
      /\ Size(k) \in 1 .. 1 + PayloadUnits
  <2>1. Size(k) \in 1 .. 1 + PayloadUnits
    BY LinkAssumption DEF Size
  <2> QED
    BY <1>1, <1>3, <2>1, BytesType
<1>5. rx' = <<>> /\ Len(rx') = 0
  BY <1>2, <1>3 DEF NothingPending, fifoVars
<1>6. TypeOK'
  <2>1. waiting' \in {NoCommand} \cup
          [id : 1 .. MaxCommands, kind : Kinds, lba : Lengths, blk : Nat, part : 1 .. 1 + DataUnits]
    BY <1>1, <1>3, LinkAssumption
  <2>2. Len(wire') + Len(rx') <= 1 + PayloadUnits
    BY <1>4, <1>5, LinkAssumption
  <2> QED
    BY <1>2, <1>3, <1>4, <2>1, <2>2 DEF TypeOK, fifoVars, streamVars, history
<1>7. HeardInv'
  <2>1. Unanswered' /\ sent' > 0
    BY <1>2, NumbersSent DEF Unanswered, fifoVars, streamVars
  <2>2. Pending(k, l, 1)'
    BY <1>2, <1>3, <1>4, <1>5 DEF Pending, Units
  <2>3. WholePending(k, l)'
    BY <1>1, <1>2, <1>5, <2>2 DEF WholePending, NoAnswerDue
  <2>4. stream_of' <= sent' /\ \A i \in 1 .. Len(tx') : tx'[i].id <= sent'
    BY <1>2, NumbersSent DEF fifoVars, streamVars
  <2>5. waiting' # NoCommand => waiting'.id = sent'
    BY <1>1, <1>2
  <2> QED
    BY <2>1, <2>3, <2>4, <2>5 DEF HeardInv
<1>8. StepInv'
  BY <1>2, <1>3, <1>4, NoUnits DEF StepInv, StreamDone, NothingPending, fifoVars, streamVars, history
<1>9. FramingHolds' /\ DetachedInv' /\ NandReachableWhileMounted'
  BY <1>2 DEF FramingHolds, DetachedInv, NandReachableWhileMounted, history
<1> QED
  BY <1>6, <1>7, <1>8, <1>9

\* What the host may be waiting for, and going on with the same answer.
Awaited == [id : 1 .. MaxCommands, kind : Kinds, lba : Lengths, blk : Nat, part : 1 .. 1 + DataUnits]
SameCommand(w, v) == v.id = w.id /\ v.kind = w.kind /\ v.lba = w.lba

GoesOn(w, v, blk, part) ==
  v \in Awaited /\ v # NoCommand /\ SameCommand(w, v) /\ v.blk = blk /\ v.part = part

LEMMA AfterFacts ==
  ASSUME waiting \in Awaited, NEW u \in UnitOut, u.blk = waiting.blk, u.part = waiting.part
  PROVE  /\ u.part < AnswerLen(waiting.kind, u.ok) =>
              GoesOn(waiting, After(u), u.blk, u.part + 1)
         /\ ~(u.part < AnswerLen(waiting.kind, u.ok)) =>
              IF waiting.kind \in StreamKinds /\ u.ok /\ u.blk + 1 < waiting.lba
              THEN GoesOn(waiting, After(u), u.blk + 1, 1)
              ELSE After(u) = NoCommand
<1>1. /\ waiting.kind \in AllKinds /\ u.ok \in BOOLEAN /\ u.part \in 1 .. 1 + DataUnits
      /\ u.blk \in Nat
  BY LinkAssumption DEF Awaited, UnitOut
<1>2. AnswerLen(waiting.kind, u.ok) \in 0 .. 1 + DataUnits
  BY <1>1, AnswerLenType
<1>3. \A v \in Awaited : v # NoCommand
  <2> SUFFICES ASSUME NEW v \in Awaited PROVE v # NoCommand
    OBVIOUS
  <2>1. /\ 1 .. MaxCommands \subseteq Nat /\ Kinds \subseteq AllKinds /\ Lengths \subseteq Nat
        /\ 1 .. 1 + DataUnits \subseteq Nat
    BY LinkAssumption
  <2>2. v \in [id : Nat, kind : AllKinds, lba : Nat, blk : Nat, part : Nat]
    BY <2>1 DEF Awaited
  <2> QED
    BY <2>2, NoCommandAssumption
<1>4. ASSUME u.part < AnswerLen(waiting.kind, u.ok)
      PROVE  GoesOn(waiting, After(u), u.blk, u.part + 1)
  <2>1. u.part + 1 \in 1 .. 1 + DataUnits
    BY <1>1, <1>2, <1>4, LinkAssumption
  <2>2. After(u) = [waiting EXCEPT !.part = u.part + 1]
    BY <1>4 DEF After
  <2>3. After(u) \in Awaited /\ After(u).part = u.part + 1 /\ After(u).blk = u.blk
        /\ SameCommand(waiting, After(u))
    BY <2>1, <2>2 DEF Awaited, SameCommand
  <2> QED
    BY <1>3, <2>3 DEF GoesOn
<1>5. ASSUME ~(u.part < AnswerLen(waiting.kind, u.ok)), waiting.kind \in StreamKinds, u.ok,
             u.blk + 1 < waiting.lba
      PROVE  GoesOn(waiting, After(u), u.blk + 1, 1)
  <2>1. u.blk + 1 \in Nat /\ 1 \in 1 .. 1 + DataUnits
    BY <1>1, LinkAssumption
  <2>2. After(u) = [waiting EXCEPT !.blk = u.blk + 1, !.part = 1]
    BY <1>5 DEF After
  <2>3. After(u) \in Awaited /\ After(u).part = 1 /\ After(u).blk = u.blk + 1
        /\ SameCommand(waiting, After(u))
    BY <2>1, <2>2 DEF Awaited, SameCommand
  <2> QED
    BY <1>3, <2>3 DEF GoesOn
<1> QED
  BY <1>4, <1>5 DEF After

LEMMA ReceiveStep == ASSUME LinkInv, HostReceives PROVE LinkInv'
<1> USE DEF LinkInv
<1> DEFINE u == Head(tx)
           expected == /\ waiting # NoCommand
                       /\ u.id = waiting.id /\ u.blk = waiting.blk /\ u.part = waiting.part
<1>1. /\ usb = "mounted" /\ sending /\ tx' = Tail(tx) /\ sending' = (tx' # <<>>)
      /\ IF expected THEN waiting' = After(u) /\ confused' = confused
                     ELSE confused' = TRUE /\ waiting' = waiting
      /\ UNCHANGED <<usb, wire, sent, attached, rx, pins, streamVars, emmc_ready, aligned,
                     short_emmc, orphaned, asleep>>
  BY DEF HostReceives
<1>2. /\ tx \in Seq(UnitOut) /\ tx # <<>> /\ Len(tx) \in 1 .. TxCapacity
      /\ u \in UnitOut /\ u = tx[1] /\ tx' \in Seq(UnitOut) /\ Len(tx') = Len(tx) - 1
      /\ \A i \in 1 .. Len(tx) - 1 : tx'[i] = tx[i + 1]
  BY <1>1, HeadAndTail, Empty, LinkAssumption DEF TypeOK
<1> HIDE DEF u
<1>3. u.id \in 0 .. MaxCommands /\ u.blk \in Nat /\ u.ok \in BOOLEAN /\ u.part \in 1 .. 1 + DataUnits
  BY <1>2 DEF UnitOut
<1>4. /\ sending' \in BOOLEAN /\ (sending' => tx' # <<>>) /\ Len(tx') <= TxCapacity
  <2>1. Len(tx') <= TxCapacity
    BY <1>2, LinkAssumption
  <2>2. sending' \in BOOLEAN /\ (sending' => tx' # <<>>)
    BY <1>1, Zenon
  <2> QED
    BY <2>1, <2>2
<1>5. ASSUME expected
      PROVE  /\ waiting \in Awaited
             /\ waiting' \in {NoCommand} \cup Awaited
             /\ waiting' # NoCommand => SameCommand(waiting, waiting')
  <2>1. waiting \in Awaited
    BY <1>5 DEF TypeOK, Awaited
  <2> QED
    BY <1>1, <1>2, <1>5, <2>1, AfterFacts DEF GoesOn
<1>6. TypeOK'
  <2>1. waiting' \in {NoCommand} \cup Awaited /\ confused' \in BOOLEAN
    BY <1>1, <1>5 DEF TypeOK, Awaited
  <2>2. sending' \in BOOLEAN /\ (sending' => tx' # <<>>) /\ tx' \in Seq(UnitOut) /\ Len(tx') <= TxCapacity
    BY <1>2, <1>4
  <2>3. UNCHANGED <<usb, wire, sent, attached, rx, pins, streamVars, emmc_ready, aligned,
                     short_emmc, orphaned, asleep>>
    BY <1>1
  <2> QED
    BY <2>1, <2>2, <2>3 DEF TypeOK, Awaited, streamVars
\* While a command is pending nothing in the FIFO is what the host waits for.
<1>7. ~NothingPending => waiting' = waiting /\ ~expected
  <2> SUFFICES ASSUME ~NothingPending PROVE ~expected
    BY <1>1
  <2>1. tx[1].id # sent
    BY <1>2 DEF HeardInv, Unanswered
  <2> QED
    BY <1>2, <2>1 DEF HeardInv
<1>8. HeardInv'
  <2>1. /\ stream_of' <= sent' /\ \A i \in 1 .. Len(tx') : tx'[i].id <= sent'
        /\ waiting' # NoCommand => waiting'.id = sent'
    BY <1>1, <1>2, <1>5, NumbersSent DEF HeardInv, SameCommand, streamVars
  <2>2. NothingPending => NothingPending'
    BY <1>1 DEF NothingPending
  <2>3. Unanswered => Unanswered'
    BY <1>1, <1>2 DEF Unanswered, streamVars
  <2>4. ~NothingPending =>
          \A k, l : /\ WholePending(k, l) => WholePending(k, l)'
                   /\ \A f : RestPending(k, l, f) => RestPending(k, l, f)'
    BY <1>1, <1>7 DEF WholePending, RestPending, Pending, Units
  <2>5. NothingPending \/ (Unanswered' /\ sent' > 0 /\
          \E k \in Kinds, l \in Lengths :
             WholePending(k, l)' \/ \E f \in 2 .. Size(k) : RestPending(k, l, f)')
    BY <1>1, <2>3, <2>4 DEF HeardInv
  <2> QED
    BY <2>1, <2>2, <2>5 DEF HeardInv
<1>9. FramingHolds' /\ DetachedInv' /\ NandReachableWhileMounted'
  BY <1>1 DEF FramingHolds, DetachedInv, NandReachableWhileMounted
<1>10. StepInv'
  <2> SUFFICES ASSUME aligned, ~orphaned
               PROVE  /\ ~confused'
                      /\ waiting' = NoCommand \/ ~NothingPending' => tx' = <<>> /\ StreamDone'
                      /\ waiting' # NoCommand /\ NothingPending' => AnswerInFifo'
    BY <1>1 DEF StepInv
  <2>1. ~confused /\ AnswerInFifo /\ waiting # NoCommand /\ NothingPending
    BY <1>2 DEF StepInv
  <2>2. expected /\ waiting \in Awaited /\ NothingPending' /\ ~confused' /\ waiting' = After(u)
        /\ UNCHANGED <<do_stream, stream_offset, stream_end, stream_of>>
    <3>1. u.id = waiting.id /\ u.blk = waiting.blk /\ u.part = waiting.part
      BY <1>2, <2>1 DEF AnswerInFifo
    <3> QED
      BY <1>1, <1>5, <2>1, <3>1 DEF NothingPending, streamVars
  <2>3. u.blk = waiting.blk /\ u.part = waiting.part /\ u.id = waiting.id
    BY <2>2
  <2> HIDE DEF expected
  <2> DEFINE len == AnswerLen(waiting.kind, u.ok)
             more == waiting.kind \in StreamKinds /\ u.ok /\ u.blk + 1 < waiting.lba
  <2>4. /\ u.part < len => GoesOn(waiting, waiting', u.blk, u.part + 1)
        /\ ~(u.part < len) => IF more THEN GoesOn(waiting, waiting', u.blk + 1, 1)
                                      ELSE waiting' = NoCommand
    BY <1>2, <2>2, <2>3, AfterFacts
  <2> HIDE DEF more
  <2>5. CASE Len(tx) = 1
    <3>1. tx' = <<>> /\ u.part = len /\ u = tx[Len(tx)] /\ ~(u.part < len)
      <4>1. tx' = <<>> /\ u = tx[Len(tx)]
        BY <1>2, <2>5, Empty
      <4> QED
        BY <1>2, <1>3, <2>1, <4>1 DEF AnswerInFifo
    <3>2. CASE more
      <4>1. GoesOn(waiting, waiting', u.blk + 1, 1)
        BY <2>4, <3>1, <3>2
      <4>2. /\ stream_of = waiting.id /\ stream_end = waiting.lba /\ stream_offset = u.blk + 1
            /\ do_stream
        BY <1>2, <2>1, <3>1, <3>2 DEF AnswerInFifo, more
      <4>3. AnswerInFifo'
        BY <2>2, <3>1, <3>2, <4>1, <4>2, NoUnits DEF AnswerInFifo, GoesOn, SameCommand, more
      <4> QED
        BY <2>2, <4>1, <4>3 DEF GoesOn
    <3>3. CASE ~more
      <4>1. waiting' = NoCommand
        BY <2>4, <3>1, <3>3
      <4>2. StreamDone
        <5>1. stream_offset \in Nat /\ stream_end \in Nat /\ u.blk \in Nat
          BY <1>3 DEF TypeOK
        <5> QED
          BY <1>2, <2>1, <3>1, <3>3, <5>1 DEF AnswerInFifo, StreamDone, more
      <4> QED
        BY <2>2, <3>1, <4>1, <4>2 DEF StreamDone
    <3> QED
      BY <3>2, <3>3
  <2>6. CASE Len(tx) > 1
    <3>1. 1 \in 1 .. Len(tx) - 1 /\ Follows(u, tx[2]) /\ tx' # <<>>
          /\ Len(tx') \in 1 .. Len(tx) - 1 /\ tx'[Len(tx')] = tx[Len(tx)] /\ tx'[1] = tx[2]
      <4>1. 1 \in 1 .. Len(tx) - 1 /\ Len(tx') \in 1 .. Len(tx) - 1 /\ Len(tx') + 1 = Len(tx)
        BY <1>2, <2>6, LinkAssumption
      <4>2. tx' # <<>>
        BY <1>2, <4>1, Empty
      <4> QED
        BY <1>2, <2>1, <4>1, <4>2 DEF AnswerInFifo
    <3>2. GoesOn(waiting, waiting', tx[2].blk, tx[2].part)
      BY <2>4, <3>1 DEF Follows, more
    <3>3. \A i \in 1 .. Len(tx') - 1 : Follows(tx[i], tx[i + 1])'
      <4> SUFFICES ASSUME NEW i \in 1 .. Len(tx') - 1 PROVE Follows(tx[i], tx[i + 1])'
        OBVIOUS
      <4>1. i + 1 \in 1 .. Len(tx) - 1 /\ tx'[i] = tx[i + 1] /\ tx'[i + 1] = tx[i + 1 + 1]
        BY <1>2, <3>1
      <4>2. Follows(tx[i + 1], tx[i + 1 + 1])
        BY <2>1, <4>1 DEF AnswerInFifo
      <4> QED
        BY <3>2, <4>1, <4>2 DEF Follows, GoesOn, SameCommand
    <3>4. \A i \in 1 .. Len(tx') : tx'[i].id = waiting.id
      BY <1>2, <2>1 DEF AnswerInFifo
    <3>5. AnswerInFifo'
      <4>1. waiting'.kind = waiting.kind /\ waiting'.lba = waiting.lba /\ waiting'.id = waiting.id
            /\ waiting'.blk = tx[2].blk /\ waiting'.part = tx[2].part
        BY <3>2 DEF GoesOn, SameCommand
      <4>2. StreamDone => StreamDone'
        BY <2>2 DEF StreamDone
      <4>3. tx # <<>>
        BY <1>2
      <4> QED
        BY <2>1, <2>2, <3>1, <3>3, <3>4, <4>1, <4>2, <4>3 DEF AnswerInFifo
    <3> QED
      BY <2>2, <3>2, <3>5 DEF GoesOn
  <2> QED
    BY <1>2, <2>5, <2>6
<1> QED
  BY <1>6, <1>8, <1>9, <1>10
-----------------------------------------------------------------------------
(* stream() *)

LEMMA StreamEndsStep == ASSUME LinkInv, StreamEnds PROVE LinkInv'
<1> USE DEF LinkInv
<1>1. /\ do_stream /\ stream_offset >= stream_end /\ do_stream' = FALSE
      /\ UNCHANGED <<busVars, fifoVars, pins, stream_emmc, stream_offset, stream_end, stream_of,
                     hung, history>>
  BY DEF StreamEnds
<1>2. TypeOK'
  <2>1. /\ do_stream' \in BOOLEAN
        /\ UNCHANGED <<busVars, fifoVars, pins, stream_emmc, stream_offset, stream_end, stream_of,
                       hung, history>>
    BY ONLY <1>1
  <2> QED
    BY ONLY TypeOK, <2>1 DEF TypeOK, busVars, fifoVars, history
<1>3. HeardInv' /\ FramingHolds' /\ DetachedInv' /\ NandReachableWhileMounted'
  BY SMTT(30), <1>1
  DEF HeardInv, NothingPending, WholePending, RestPending, Pending, Units, Unanswered, FramingHolds,
      DetachedInv, NandReachableWhileMounted, busVars, fifoVars, history
<1>4. StepInv'
  <2>1. stream_offset \in Nat /\ stream_end \in Nat
    BY DEF TypeOK
  <2>2. AnswerInFifo => AnswerInFifo'
    BY <1>1, <2>1 DEF AnswerInFifo, Follows, StreamDone, busVars, fifoVars
  <2> QED
    BY <1>1, <2>2 DEF StepInv, StreamDone, NothingPending, busVars, fifoVars, history
<1> QED
  BY <1>2, <1>3, <1>4

LEMMA StreamHangsStep == ASSUME LinkInv, StreamHangs PROVE LinkInv'
<1> USE DEF LinkInv
<1>1. /\ hung' = TRUE
      /\ UNCHANGED <<busVars, fifoVars, pins, do_stream, stream_emmc, stream_offset, stream_end,
                     stream_of, history>>
  BY DEF StreamHangs
<1>2. TypeOK'
  BY <1>1 DEF TypeOK, busVars, fifoVars, history
<1>3. HeardInv' /\ FramingHolds' /\ DetachedInv' /\ NandReachableWhileMounted' /\ StepInv'
  BY <1>1
  DEF HeardInv, NothingPending, WholePending, RestPending, Pending, Units, Unanswered, FramingHolds,
      DetachedInv, NandReachableWhileMounted, StepInv, StreamDone, AnswerInFifo, Follows,
      busVars, fifoVars, history
<1> QED
  BY <1>2, <1>3

\* What a frame that fits leaves in the FIFO.
LEMMA FrameAdded ==
  ASSUME TypeOK, NEW id \in 0 .. MaxCommands, NEW blk \in Nat, NEW ok \in BOOLEAN,
         NEW len \in 1 .. 1 + DataUnits, TxCapacity - Len(tx) >= len,
         tx' = Put(tx, Frame(id, blk, ok, len))
  PROVE  /\ tx' \in Seq(UnitOut) /\ Len(tx') <= TxCapacity /\ tx' # <<>>
         /\ Len(tx) \in Nat /\ Len(tx') = Len(tx) + len
         /\ \A i \in 1 .. Len(tx) : tx'[i] = tx[i]
         /\ \A i \in 1 .. len :
              tx'[Len(tx) + i] = [id |-> id, blk |-> blk, ok |-> ok, part |-> i]
<1>1. tx \in Seq(UnitOut) /\ Len(tx) \in Nat /\ Len(tx) <= TxCapacity
  BY Empty DEF TypeOK
<1>2. PICK f : f = Frame(id, blk, ok, len)
  OBVIOUS
<1>3. /\ f \in Seq(UnitOut) /\ Len(f) = len /\ len \in Nat /\ len > 0
      /\ \A i \in 1 .. len : f[i] = [id |-> id, blk |-> blk, ok |-> ok, part |-> i]
  <2>1. len \in 0 .. 1 + DataUnits /\ len \in Nat /\ len > 0
    BY LinkAssumption
  <2>2. /\ f \in Seq(UnitOut) /\ Len(f) = len
        /\ \A i \in 1 .. len : f[i] = [id |-> id, blk |-> blk, ok |-> ok, part |-> i]
    <3>1. \A i \in 1 .. len : [id |-> id, blk |-> blk, ok |-> ok, part |-> i] \in UnitOut
      BY LinkAssumption DEF UnitOut
    <3> QED
      BY ONLY <1>2, <2>1, <3>1 DEF Frame
  <2> QED
    BY <2>1, <2>2
<1>4. tx' = tx \o f /\ tx' \in Seq(UnitOut) /\ Len(tx') <= TxCapacity
  BY <1>1, <1>2, <1>3, PutFacts
<1>5. /\ Len(tx') = Len(tx) + len
      /\ \A i \in 1 .. Len(tx) : tx'[i] = tx[i]
      /\ \A i \in 1 .. len : tx'[Len(tx) + i] = f[i]
  <2>1. /\ Len(tx \o f) = Len(tx) + Len(f)
        /\ \A i \in 1 .. Len(tx) : (tx \o f)[i] = tx[i]
        /\ \A i \in 1 .. Len(f) : (tx \o f)[Len(tx) + i] = f[i]
    <3>1. tx \in Seq(UnitOut) /\ f \in Seq(UnitOut)
      BY <1>1, <1>3
    <3> QED
      BY ONLY <3>1, Joined
  <2> QED
    BY <1>3, <1>4, <2>1
<1>6. tx' # <<>>
  BY <1>1, <1>3, <1>4, <1>5, Empty
<1> QED
  BY <1>1, <1>3, <1>4, <1>5, <1>6

LEMMA PastTheFirst ==
  \A n, len, i \in Nat : n < i /\ i <= n + len - 1 =>
    /\ i - n \in 1 .. len /\ i + 1 - n \in 1 .. len /\ n + (i - n) = i /\ n + (i + 1 - n) = i + 1
    /\ i + 1 - n = (i - n) + 1 /\ i - n < len
  OBVIOUS

LEMMA StreamReadsStep == ASSUME LinkInv, StreamReads PROVE LinkInv'
<1> USE DEF LinkInv
<1>1. PICK ok \in BOOLEAN :
        /\ tx' = Put(tx, Frame(stream_of, stream_offset, ok, IF ok THEN 1 + DataUnits ELSE 1))
        /\ IF ok THEN stream_offset' = stream_offset + 1 /\ do_stream' = do_stream
                  ELSE do_stream' = FALSE /\ stream_offset' = stream_offset
  BY DEF StreamReads
<1>2. /\ do_stream /\ stream_offset < stream_end /\ TxCapacity - Len(tx) >= 1 + DataUnits
      /\ UNCHANGED <<busVars, rx, pins, stream_emmc, stream_end, stream_of, hung, history>>
  BY DEF StreamReads, StreamRoom
<1> DEFINE len == IF ok THEN 1 + DataUnits ELSE 1
<1>3. /\ len \in 1 .. 1 + DataUnits /\ TxCapacity - Len(tx) >= len
      /\ stream_of \in 0 .. MaxCommands /\ stream_offset \in Nat /\ stream_end \in Nat
  <2>1. tx \in Seq(UnitOut) /\ Len(tx) \in Nat
    BY Empty DEF TypeOK
  <2> QED
    BY <1>2, <2>1, LinkAssumption DEF TypeOK
<1>4. /\ tx' \in Seq(UnitOut) /\ Len(tx') <= TxCapacity /\ tx' # <<>>
      /\ Len(tx) \in Nat /\ Len(tx') = Len(tx) + len
      /\ \A i \in 1 .. Len(tx) : tx'[i] = tx[i]
      /\ \A i \in 1 .. len :
           tx'[Len(tx) + i] = [id |-> stream_of, blk |-> stream_offset, ok |-> ok, part |-> i]
  BY <1>1, <1>3, FrameAdded
<1> HIDE DEF len
<1>5. TypeOK'
  <2>1. sending' \in BOOLEAN /\ asleep' \in BOOLEAN /\ do_stream' \in BOOLEAN
    <3>1. \A a, b, c : (a \/ (b /\ c)) \in BOOLEAN
      OBVIOUS
    <3>2. \A a, b, c : (~a /\ (b \/ c)) \in BOOLEAN
      OBVIOUS
    <3>3. sending' \in BOOLEAN
      BY <3>1, Zenon DEF StreamReads
    <3>4. asleep' \in BOOLEAN
      BY <3>2, Zenon DEF StreamReads
    <3> QED
      BY <1>1, <3>3, <3>4, Zenon DEF TypeOK
  <2>2. stream_offset' \in Nat
    BY <1>1, <1>3
  <2> QED
    BY <1>2, <1>4, <2>1, <2>2 DEF TypeOK, busVars, history
<1>6. \A i \in 1 .. Len(tx') : tx'[i].id = stream_of \/ (i \in 1 .. Len(tx) /\ tx'[i].id = tx[i].id)
  <2> SUFFICES ASSUME NEW i \in 1 .. Len(tx') PROVE
         tx'[i].id = stream_of \/ (i \in 1 .. Len(tx) /\ tx'[i].id = tx[i].id)
    OBVIOUS
  <2>1. CASE i \in 1 .. Len(tx)
    BY <1>4, <2>1
  <2>2. CASE i \notin 1 .. Len(tx)
    <3>1. i - Len(tx) \in 1 .. len /\ Len(tx) + (i - Len(tx)) = i
      BY <1>3, <1>4, <2>2
    <3>2. tx'[Len(tx) + (i - Len(tx))] =
            [id |-> stream_of, blk |-> stream_offset, ok |-> ok, part |-> i - Len(tx)]
      BY <1>4, <3>1
    <3> QED
      BY <3>1, <3>2
  <2> QED
    BY <2>1, <2>2
<1>7. HeardInv'
  <2>1. /\ stream_of' <= sent' /\ \A i \in 1 .. Len(tx') : tx'[i].id <= sent'
        /\ waiting' # NoCommand => waiting'.id = sent'
    BY <1>2, <1>6, NumbersSent DEF HeardInv, busVars
  <2>2. Unanswered => Unanswered'
    BY <1>2, <1>6 DEF Unanswered, busVars
  <2>3. /\ NothingPending => NothingPending'
        /\ \A k, l : /\ WholePending(k, l) => WholePending(k, l)'
                     /\ \A f : RestPending(k, l, f) => RestPending(k, l, f)'
    BY <1>2 DEF NothingPending, WholePending, RestPending, Pending, Units, busVars, history
  <2>4. NothingPending \/ (Unanswered' /\ sent' > 0 /\
          \E k \in Kinds, l \in Lengths :
             WholePending(k, l)' \/ \E f \in 2 .. Size(k) : RestPending(k, l, f)')
    BY <1>2, <2>2, <2>3 DEF HeardInv, busVars
  <2> QED
    BY <2>1, <2>3, <2>4 DEF HeardInv
<1>8. FramingHolds' /\ DetachedInv' /\ NandReachableWhileMounted'
  BY <1>2 DEF FramingHolds, DetachedInv, NandReachableWhileMounted, NothingPending, busVars, history
<1>9. StepInv'
  <2> SUFFICES ASSUME aligned, ~orphaned
               PROVE  ~confused /\ waiting # NoCommand /\ NothingPending /\ AnswerInFifo'
    BY <1>2 DEF StepInv, NothingPending, busVars, history
  <2>1. ~StreamDone
    BY <1>2, <1>3 DEF StreamDone
  <2>2. ~confused /\ waiting # NoCommand /\ NothingPending /\ AnswerInFifo
    BY <2>1 DEF StepInv
  <2>3. waiting \in Awaited /\ waiting.kind \in StreamKinds /\ stream_of = waiting.id
        /\ stream_end = waiting.lba
    BY <2>1, <2>2 DEF AnswerInFifo, TypeOK, Awaited
  <2>4. len = AnswerLen(waiting.kind, ok) /\ waiting.kind \in AllKinds
        /\ AnswerLen(waiting.kind, TRUE) = 1 + DataUnits
    BY <2>3, AnswerLenType, LinkAssumption DEF Awaited, len
  <2>5. tx = <<>> => waiting.part = 1 /\ waiting.blk = stream_offset
    BY <2>2, <2>3 DEF AnswerInFifo
  <2>6. tx # <<>> =>
          /\ Len(tx) > 0 /\ tx[Len(tx)].ok /\ stream_offset = tx[Len(tx)].blk + 1
          /\ tx[Len(tx)].part = AnswerLen(waiting.kind, tx[Len(tx)].ok)
          /\ tx[Len(tx)] \in UnitOut
    <3>1. tx # <<>> => Len(tx) > 0 /\ Len(tx) \in 1 .. Len(tx) /\ tx[Len(tx)] \in UnitOut
      BY <1>4, Empty DEF TypeOK
    <3> QED
      BY <1>2, <2>2, <2>3, <3>1 DEF AnswerInFifo
  <2>7. waiting' = waiting
    BY <1>2 DEF busVars
  <2>8. /\ 1 \in 1 .. len /\ len \in 1 .. len /\ len \in Nat \ {0} /\ tx'[Len(tx')].part = len
        /\ tx'[Len(tx')].ok = ok /\ tx'[Len(tx')].blk = stream_offset
    <3>1. 1 \in 1 .. len /\ len \in 1 .. len /\ len \in Nat \ {0}
      BY <1>3, LinkAssumption
    <3>2. tx'[Len(tx')] = [id |-> stream_of, blk |-> stream_offset, ok |-> ok, part |-> len]
      BY <1>4, <3>1
    <3> QED
      BY <3>1, <3>2
  <2>9. tx'[Len(tx) + 1] = [id |-> stream_of, blk |-> stream_offset, ok |-> ok, part |-> 1]
    BY <1>4, <2>8
  <2>10. tx'[1].blk = waiting.blk /\ tx'[1].part = waiting.part
    <3>1. CASE tx = <<>>
      <4>1. Len(tx) + 1 = 1
        BY <3>1, NoUnits
      <4> QED
        BY <2>3, <2>5, <2>9, <3>1, <4>1
    <3>2. CASE tx # <<>>
      <4>1. 1 \in 1 .. Len(tx)
        BY <1>4, <2>6, <3>2
      <4> QED
        BY <1>4, <2>2, <3>2, <4>1 DEF AnswerInFifo
    <3> QED
      BY <3>1, <3>2
  <2>11. \A i \in 1 .. Len(tx') - 1 : Follows(tx'[i], tx'[i + 1])
    <3>1. \A i \in 1 .. Len(tx) - 1 : Follows(tx'[i], tx'[i + 1])
      <4> SUFFICES ASSUME NEW i \in 1 .. Len(tx) - 1 PROVE Follows(tx'[i], tx'[i + 1])
        OBVIOUS
      <4>1. i \in 1 .. Len(tx) /\ i + 1 \in 1 .. Len(tx)
        BY <1>4
      <4> QED
        BY <1>4, <2>2, <4>1 DEF AnswerInFifo
    <3>2. Len(tx) > 0 => Follows(tx'[Len(tx)], tx'[Len(tx) + 1])
      <4> SUFFICES ASSUME Len(tx) > 0 PROVE Follows(tx'[Len(tx)], tx'[Len(tx) + 1])
        OBVIOUS
      <4>1. tx # <<>> /\ Len(tx) \in 1 .. Len(tx)
        BY <1>4, NoUnits
      <4>2. tx'[Len(tx)] = tx[Len(tx)] /\ tx[Len(tx)].blk \in Nat
        BY <1>4, <2>6, <4>1 DEF UnitOut
      <4>3. ~(tx[Len(tx)].part < AnswerLen(waiting.kind, tx[Len(tx)].ok))
        <5>1. tx[Len(tx)].ok = TRUE
          BY <2>6, <4>1 DEF UnitOut
        <5>2. AnswerLen(waiting.kind, tx[Len(tx)].ok) = 1 + DataUnits
          BY <2>4, <5>1, Zenon
        <5> QED
          BY <2>6, <4>1, <5>2, LinkAssumption
      <4> QED
        BY <1>2, <2>3, <2>6, <2>9, <4>1, <4>2, <4>3 DEF Follows
    <3> QED
      <4> SUFFICES ASSUME NEW i \in 1 .. Len(tx') - 1 PROVE Follows(tx'[i], tx'[i + 1])
        OBVIOUS
      <4>1. i <= Len(tx) + len - 1 /\ i \in Nat /\ len \in Nat
        BY <1>3, <1>4, <2>8
      <4>2. CASE i < Len(tx)
        BY <1>4, <3>1, <4>2
      <4>3. CASE i = Len(tx)
        BY <3>2, <4>3
      <4>4. CASE i > Len(tx)
        <5>1. i - Len(tx) \in 1 .. len /\ i + 1 - Len(tx) \in 1 .. len
              /\ Len(tx) + (i - Len(tx)) = i /\ Len(tx) + (i + 1 - Len(tx)) = i + 1
              /\ i + 1 - Len(tx) = (i - Len(tx)) + 1 /\ i - Len(tx) < len
          BY <1>4, <4>1, <4>4, PastTheFirst
        <5>2. /\ tx'[i] = [id |-> stream_of, blk |-> stream_offset, ok |-> ok, part |-> i - Len(tx)]
              /\ tx'[i + 1] = [id |-> stream_of, blk |-> stream_offset, ok |-> ok,
                               part |-> (i - Len(tx)) + 1]
          BY <1>4, <5>1
        <5> QED
          BY <2>4, <5>1, <5>2 DEF Follows
      <4> QED
        BY <1>4, <4>1, <4>2, <4>3, <4>4
  <2>12. AnswerInFifo'
    <3>1. \A i \in 1 .. Len(tx') - 1 : Follows(tx[i], tx[i + 1])'
      BY <2>7, <2>11 DEF Follows
    <3>2. ok => stream_offset' = stream_offset + 1 /\ do_stream'
      BY <1>1, <1>2
    <3>3. ~ok => ~do_stream'
      BY <1>1
    <3>4. \A i \in 1 .. Len(tx') : tx'[i].id = waiting.id
      BY <1>6, <2>2, <2>3 DEF AnswerInFifo
    <3> QED
      BY <1>2, <1>4, <2>3, <2>4, <2>7, <2>8, <2>10, <3>1, <3>2, <3>3, <3>4 DEF AnswerInFifo
  <2> QED
    BY <2>2, <2>12
<1> QED
  BY <1>5, <1>7, <1>8, <1>9
-----------------------------------------------------------------------------
(* tud_cdc_rx_cb *)

\* What an answer leaves in the FIFO.
LEMMA AnswerFacts ==
  ASSUME TypeOK, NEW kind \in AllKinds, NEW id \in 0 .. MaxCommands, NEW ok \in BOOLEAN,
         Answer(kind, id, ok)
  PROVE  /\ tx' \in Seq(UnitOut) /\ Len(tx') <= TxCapacity
         /\ sending' \in BOOLEAN /\ (sending' => tx' # <<>>)
         /\ \A i \in 1 .. Len(tx') :
              tx'[i].id = id \/ (i \in 1 .. Len(tx) /\ tx'[i].id = tx[i].id)
         /\ tx = <<>> => tx' = Frame(id, 0, ok, AnswerLen(kind, ok))
<1> DEFINE f == Frame(id, 0, ok, AnswerLen(kind, ok))
<1>1. tx \in Seq(UnitOut) /\ Len(tx) \in Nat /\ Len(tx) <= TxCapacity
  BY Empty DEF TypeOK
<1>2. AnswerLen(kind, ok) \in 0 .. 1 + DataUnits
  BY AnswerLenType
<1>3. /\ f \in Seq(UnitOut) /\ Len(f) = AnswerLen(kind, ok)
      /\ \A i \in 1 .. AnswerLen(kind, ok) : f[i].id = id
  <2> DEFINE len == AnswerLen(kind, ok)
  <2>1. len \in 0 .. 1 + DataUnits /\ 0 \in Nat
    BY <1>2
  <2> HIDE DEF len
  <2>2. /\ Frame(id, 0, ok, len) \in Seq(UnitOut) /\ Len(Frame(id, 0, ok, len)) = len
        /\ \A i \in 1 .. len : Frame(id, 0, ok, len)[i].id = id
    BY <2>1, FrameType
  <2> QED
    BY <2>2, Zenon DEF len
<1>4. tx' = Put(tx, f) /\ sending' = (tx' # <<>>)
  BY DEF Answer
<1> HIDE DEF f
<1>5. /\ tx' \in Seq(UnitOut) /\ Len(tx') <= TxCapacity
      /\ Len(f) <= TxCapacity - Len(tx) => tx' = tx \o f
      /\ \A i \in 1 .. Len(tx') :
           \/ i <= Len(tx) /\ tx'[i] = tx[i]
           \/ i - Len(tx) \in 1 .. Len(f) /\ tx'[i] = f[i - Len(tx)]
  BY <1>1, <1>3, <1>4, PutFacts
<1>6. sending' \in BOOLEAN /\ (sending' => tx' # <<>>)
  BY <1>4, Zenon
<1>7. \A i \in 1 .. Len(tx') :
        tx'[i].id = id \/ (i \in 1 .. Len(tx) /\ tx'[i].id = tx[i].id)
  BY <1>1, <1>3, <1>5
<1>8. ASSUME tx = <<>> PROVE tx' = f
  <2>1. Len(f) <= TxCapacity - Len(tx)
    BY <1>2, <1>3, <1>8, NoUnits, LinkAssumption
  <2> QED
    BY <1>3, <1>5, <1>8, <2>1
<1> QED
  BY <1>5, <1>6, <1>7, <1>8 DEF f

\* What any handler keeps, whatever it was called for.
LEMMA HandleFacts ==
  ASSUME TypeOK, usb = "mounted", NEW kind \in AllKinds, NEW lba \in Nat,
         NEW id \in 0 .. MaxCommands, NEW short, Handle(kind, lba, id, short)
  PROVE  /\ usb' \in {"mounted", "gone"}
         /\ tx' \in Seq(UnitOut) /\ Len(tx') <= TxCapacity
         /\ sending' \in BOOLEAN /\ (sending' => tx' # <<>>)
         /\ pins' \in PinType
         /\ do_stream' \in BOOLEAN /\ stream_emmc' \in BOOLEAN
         /\ stream_offset' \in Nat /\ stream_end' \in Nat /\ stream_of' \in {stream_of, id}
         /\ hung' = hung
         /\ emmc_ready' \in BOOLEAN /\ (~emmc_ready' => pins' = pins /\ ~emmc_ready)
         /\ \A i \in 1 .. Len(tx') :
              tx'[i].id = id \/ (i \in 1 .. Len(tx) /\ tx'[i].id = tx[i].id)
<1> USE DEF TypeOK
<1>1. CASE short /\ UNCHANGED <<usb, tx, sending, pins, streamVars, emmc_ready>>
  BY <1>1 DEF streamVars
<1>2. CASE /\ kind \in StreamKinds
           /\ stream_emmc' = (kind = "emmc_stream") /\ do_stream' = TRUE
           /\ stream_offset' = 0 /\ stream_end' = lba /\ stream_of' = id
           /\ sending' = (tx # <<>>)
           /\ UNCHANGED <<usb, tx, pins, hung, emmc_ready>>
  <2>1. stream_emmc' \in BOOLEAN /\ sending' \in BOOLEAN /\ (sending' => tx' # <<>>)
    BY <1>2, Zenon
  <2> QED
    BY <1>2, <2>1
<1>3. CASE /\ pins' = PutRst(pins, FALSE) /\ emmc_ready' = TRUE /\ Answer(kind, id, TRUE)
           /\ UNCHANGED <<usb, streamVars>>
  BY <1>3, AnswerFacts, SmcStarted DEF streamVars
<1>4. CASE usb' = "gone" /\ UNCHANGED <<tx, sending, pins, streamVars, emmc_ready>>
  BY <1>4 DEF streamVars
<1>5. ASSUME NEW ok \in BOOLEAN, Answer(kind, id, ok), UNCHANGED <<usb, pins, streamVars, emmc_ready>>
      PROVE  /\ tx' \in Seq(UnitOut) /\ Len(tx') <= TxCapacity
             /\ sending' \in BOOLEAN /\ (sending' => tx' # <<>>)
             /\ \A i \in 1 .. Len(tx') :
                  tx'[i].id = id \/ (i \in 1 .. Len(tx) /\ tx'[i].id = tx[i].id)
  BY <1>5, AnswerFacts
<1>6. CASE /\ \E ok \in BOOLEAN : Answer(kind, id, ok)
           /\ UNCHANGED <<usb, pins, streamVars, emmc_ready>>
  BY <1>5, <1>6 DEF streamVars
<1> QED
  BY <1>1, <1>2, <1>3, <1>4, <1>6 DEF Handle

\* The link after the whole of a well framed command: its answer, and no more, is
\* under way.
LEMMA AnswerStep ==
  ASSUME TypeOK, NEW k \in AllKinds, NEW l \in Nat, sent \in 0 .. MaxCommands,
         NEW short, ~short, Handle(k, l, sent, short), tx = <<>>, StreamDone,
         waiting' = waiting,
         waiting = IF NoAnswerDue(k, l) THEN NoCommand
                   ELSE [id |-> sent, kind |-> k, lba |-> l, blk |-> 0, part |-> 1]
  PROVE  /\ waiting = NoCommand => tx' = <<>> /\ StreamDone'
         /\ waiting # NoCommand => AnswerInFifo'
<1>1. [id |-> sent, kind |-> k, lba |-> l, blk |-> 0, part |-> 1] # NoCommand
  <2>1. sent \in Nat
    BY LinkAssumption
  <2> QED
    BY <2>1, NoCommandAssumption
<1>2. CASE /\ k \in StreamKinds /\ do_stream' = TRUE /\ stream_offset' = 0 /\ stream_end' = l
           /\ stream_of' = sent /\ tx' = tx
  <2>1. NoAnswerDue(k, l) <=> l = 0
    BY <1>2, AnswerLenType DEF NoAnswerDue, StreamKinds
  <2> QED
    BY <1>1, <1>2, <2>1, NoUnits DEF AnswerInFifo, StreamDone
<1>3. CASE k = "reboot" /\ UNCHANGED <<tx, streamVars>>
  BY <1>1, <1>3, AnswerLenType DEF NoAnswerDue, StreamDone, streamVars
<1>4. ASSUME NEW ok \in BOOLEAN, k \notin StreamKinds, Answer(k, sent, ok), UNCHANGED streamVars
      PROVE  /\ waiting = NoCommand => tx' = <<>> /\ StreamDone'
             /\ waiting # NoCommand => AnswerInFifo'
  <2> DEFINE len == AnswerLen(k, ok)
  <2>1. tx' \in Seq(UnitOut) /\ tx' = Frame(sent, 0, ok, len)
    BY <1>4, AnswerFacts
  <2>2. len \in 0 .. 1 + DataUnits /\ len \in Nat /\ (len = 0 <=> NoAnswerDue(k, l))
    <3>1. /\ len \in 0 .. 1 + DataUnits /\ (len = 0 <=> k \in {"reboot", "other"})
          /\ (AnswerLen(k, TRUE) = 0 <=> k \in {"reboot", "other"})
      BY AnswerLenType
    <3> HIDE DEF len
    <3>2. len \in Nat
      BY <3>1
    <3> QED
      BY <1>4, <3>1, <3>2 DEF NoAnswerDue
  <2>3. StreamDone'
    BY <1>4 DEF StreamDone, streamVars
  <2> HIDE DEF len
  <2>4. /\ Len(tx') = len
        /\ \A i \in 1 .. len : tx'[i] = [id |-> sent, blk |-> 0, ok |-> ok, part |-> i]
    BY <2>1, <2>2, FrameType
  <2>5. CASE len = 0
    <3>1. tx' = <<>>
      BY <2>1, <2>4, <2>5, Empty
    <3> QED
      BY <2>2, <2>3, <2>5, <3>1
  <2>6. CASE len # 0
    <3>1. /\ waiting # NoCommand /\ waiting.kind = k /\ waiting.id = sent /\ waiting.blk = 0
          /\ waiting.part = 1
      BY <1>1, <2>2, <2>6
    <3>2. tx' # <<>> /\ 1 \in 1 .. len /\ len \in 1 .. len
      BY <2>2, <2>4, <2>6, NoUnits
    <3>3. \A i \in 1 .. Len(tx') - 1 : Follows(tx[i], tx[i + 1])'
      <4> SUFFICES ASSUME NEW i \in 1 .. len - 1 PROVE Follows(tx[i], tx[i + 1])'
        BY <2>4
      <4>1. i \in 1 .. len /\ i + 1 \in 1 .. len /\ i < len
        BY <2>2
      <4>2. /\ tx'[i] = [id |-> sent, blk |-> 0, ok |-> ok, part |-> i]
            /\ tx'[i + 1] = [id |-> sent, blk |-> 0, ok |-> ok, part |-> i + 1]
        BY <2>4, <4>1
      <4> QED
        BY <3>1, <4>1, <4>2 DEF Follows, len
    <3> QED
      BY <1>4, <2>3, <2>4, <3>1, <3>2, <3>3 DEF AnswerInFifo, len
  <2> QED
    BY <2>5, <2>6
<1> QED
  BY <1>2, <1>3, <1>4 DEF Handle, StreamKinds

\* What arrives continues the command that is pending.
LEMMA Arrived ==
  ASSUME TypeOK, NEW k \in Kinds, NEW l, NEW f \in Nat, f \in 1 .. Size(k), Pending(k, l, f),
         NEW n \in 1 .. Len(wire),
         NEW fifo, fifo = rx \o SubSeq(wire, 1, n), wire' = SubSeq(wire, n + 1, Len(wire))
  PROVE  /\ fifo \in Seq(UnitIn(Kinds)) /\ Len(fifo) = Len(rx) + n
         /\ Len(rx) \in Nat /\ Len(wire) \in Nat
         /\ wire' \in Seq(UnitIn(Kinds)) /\ Len(wire') = Len(wire) - n
         /\ f + Len(fifo) + Len(wire') = 1 + Size(k)
         /\ Units(fifo, k, l, f) /\ Units(wire', k, l, f + Len(fifo))
<1>1. /\ wire \in Seq(UnitIn(Kinds)) /\ rx \in Seq(UnitIn(Kinds))
      /\ Len(wire) \in Nat /\ Len(rx) \in Nat
  BY Empty DEF TypeOK
<1>2. Size(k) \in Nat /\ f \in Nat
  BY LinkAssumption DEF Size
<1>3. /\ SubSeq(wire, 1, n) \in Seq(UnitIn(Kinds)) /\ Len(SubSeq(wire, 1, n)) = n
      /\ \A i \in 1 .. n : SubSeq(wire, 1, n)[i] = wire[i]
  BY <1>1, Cut
<1>4. /\ wire' \in Seq(UnitIn(Kinds)) /\ Len(wire') = Len(wire) - n
      /\ \A i \in 1 .. Len(wire) - n : wire'[i] = wire[n + i]
  <2>1. n + 1 \in 1 .. Len(wire) + 1 /\ Len(wire) \in (n + 1) - 1 .. Len(wire)
    BY <1>1
  <2> QED
    BY SMTT(30), <1>1, <2>1
<1>5. /\ fifo \in Seq(UnitIn(Kinds)) /\ Len(fifo) = Len(rx) + n
      /\ \A i \in 1 .. Len(rx) + n :
           fifo[i] = IF i <= Len(rx) THEN rx[i] ELSE SubSeq(wire, 1, n)[i - Len(rx)]
  BY <1>1, <1>3, Joined
<1>6. ASSUME NEW i \in 1 .. Len(fifo)
      PROVE  fifo[i] = [kind |-> k, lba |-> l, id |-> sent, part |-> f + i - 1]
  <2>1. CASE i <= Len(rx)
    BY <1>1, <1>5, <2>1 DEF Pending, Units
  <2>2. CASE ~(i <= Len(rx))
    <3>1. i - Len(rx) \in 1 .. n /\ i - Len(rx) \in 1 .. Len(wire)
          /\ f + Len(rx) + (i - Len(rx)) - 1 = f + i - 1
      BY <1>1, <1>2, <1>5, <2>2
    <3>2. fifo[i] = wire[i - Len(rx)]
      BY <1>3, <1>5, <2>2, <3>1
    <3> QED
      BY <3>1, <3>2 DEF Pending, Units
  <2> QED
    BY <2>1, <2>2
<1>7. ASSUME NEW i \in 1 .. Len(wire')
      PROVE  wire'[i] = [kind |-> k, lba |-> l, id |-> sent, part |-> f + Len(fifo) + i - 1]
  <2>1. n + i \in 1 .. Len(wire) /\ f + Len(rx) + (n + i) - 1 = f + Len(fifo) + i - 1
    BY <1>1, <1>2, <1>4, <1>5
  <2> QED
    BY <1>4, <2>1 DEF Pending, Units
<1>8. f + Len(fifo) + Len(wire') = 1 + Size(k)
  <2>1. f + Len(rx) + Len(wire) = 1 + Size(k) /\ n \in Nat
    BY <1>1 DEF Pending
  <2>2. Len(fifo) = Len(rx) + n /\ Len(wire') = Len(wire) - n /\ Len(rx) \in Nat
        /\ Len(wire) \in Nat /\ Size(k) \in Nat /\ f \in Nat
    BY <1>1, <1>2, <1>4, <1>5
  <2> QED
    BY ONLY <2>1, <2>2
<1> QED
  BY <1>1, <1>4, <1>5, <1>6, <1>7, <1>8 DEF Units

LEMMA Dropped ==
  ASSUME NEW S, NEW q \in Seq(S), q # <<>>, NEW m \in 0 .. Len(q) - 1, NEW r,
         r = SubSeq(Tail(q), m + 1, Len(Tail(q)))
  PROVE  /\ r \in Seq(S) /\ Len(r) = Len(q) - (1 + m)
         /\ \A i \in 1 .. Len(r) : r[i] = q[1 + m + i]
<1>1. /\ Tail(q) \in Seq(S) /\ Len(Tail(q)) = Len(q) - 1 /\ Len(q) \in Nat
      /\ \A i \in 1 .. Len(q) - 1 : Tail(q)[i] = q[i + 1]
  BY HeadAndTail, Empty
<1>2. m + 1 \in 1 .. Len(Tail(q)) + 1 /\ Len(Tail(q)) \in (m + 1) - 1 .. Len(Tail(q))
  BY <1>1
<1>3. /\ r \in Seq(S) /\ Len(r) = Len(Tail(q)) - (m + 1) + 1
      /\ \A i \in 1 .. Len(Tail(q)) - (m + 1) + 1 : r[i] = Tail(q)[(m + 1) + i - 1]
  BY ZenonT(40), <1>1, <1>2, Cut
<1>4. m \in Nat /\ m <= Len(q) - 1 /\ Len(q) \in Nat /\ Len(r) = Len(q) - (1 + m)
  <2>1. m \in Nat /\ m <= Len(q) - 1
    BY <1>1
  <2>2. Len(r) = Len(q) - (1 + m)
    BY ONLY <1>1, <1>3, <2>1
  <2> QED
    BY <1>1, <2>1, <2>2
<1>5. ASSUME NEW i \in 1 .. Len(r) PROVE r[i] = q[1 + m + i]
  <2>1. (m + 1) + i - 1 = m + i /\ m + i \in 1 .. Len(q) - 1 /\ (m + i) + 1 = 1 + m + i
    <3>1. i \in 1 .. Len(r)
      OBVIOUS
    <3> QED
      BY ONLY <1>4, <3>1
  <2> QED
    BY <1>1, <1>3, <1>4, <2>1
<1> QED
  BY <1>3, <1>4, <1>5

\* The payload a handler takes is all that has arrived of it.
LEMMA PayloadFacts ==
  ASSUME NEW kind \in AllKinds, NEW rest \in Seq(UnitIn(Kinds))
  PROVE  /\ Len(rest) \in Nat /\ Len(Payload(kind, rest)) \in 0 .. Len(rest)
         /\ kind \notin PayloadKinds => Len(Payload(kind, rest)) = 0
         /\ kind \in PayloadKinds =>
              Len(Payload(kind, rest)) =
                IF Len(rest) < PayloadUnits THEN Len(rest) ELSE PayloadUnits
<1>1. Len(rest) \in Nat /\ PayloadUnits \in Nat
  BY Empty, LinkAssumption
<1>2. CASE kind \notin PayloadKinds
  BY <1>1, <1>2, NoUnits DEF Payload
<1>3. CASE kind \in PayloadKinds
  <2> DEFINE b == IF Len(rest) < PayloadUnits THEN Len(rest) ELSE PayloadUnits
  <2>1. b \in 0 .. Len(rest) /\ 1 \in 1 .. Len(rest) + 1
    BY <1>1
  <2>2. Payload(kind, rest) = SubSeq(rest, 1, b)
    BY <1>3 DEF Payload
  <2> HIDE DEF b
  <2>3. Len(Payload(kind, rest)) = b
    BY <1>1, <2>1, <2>2, Cut
  <2> QED
    BY <1>1, <1>3, <2>1, <2>3 DEF b
<1> QED
  BY <1>2, <1>3

\* The rest of a command after d of the units that have arrived have been taken.
LEMMA StillPending ==
  ASSUME NEW k, NEW l, NEW f \in Nat, NEW fifo, Len(fifo) \in Nat, NEW d \in 0 .. Len(fifo),
         Len(wire') \in Nat, Size(k) \in Nat,
         f + Len(fifo) + Len(wire') = 1 + Size(k),
         Units(fifo, k, l, f), Units(wire', k, l, f + Len(fifo)),
         Len(rx') = Len(fifo) - d, \A i \in 1 .. Len(rx') : rx'[i] = fifo[d + i],
         sent' = sent
  PROVE  Pending(k, l, f + d)'
<1>1. ASSUME NEW i \in 1 .. Len(rx')
      PROVE  rx'[i] = [kind |-> k, lba |-> l, id |-> sent', part |-> f + d + i - 1]
  <2>1. d + i \in 1 .. Len(fifo) /\ f + (d + i) - 1 = f + d + i - 1
    OBVIOUS
  <2> QED
    BY <2>1 DEF Units
<1>2. ASSUME NEW i \in 1 .. Len(wire')
      PROVE  wire'[i] = [kind |-> k, lba |-> l, id |-> sent', part |-> f + d + Len(rx') + i - 1]
  <2>1. f + Len(fifo) + i - 1 = f + d + Len(rx') + i - 1
    OBVIOUS
  <2> QED
    BY <2>1 DEF Units
<1>3. f + d + Len(rx') + Len(wire') = 1 + Size(k)
  OBVIOUS
<1> QED
  BY <1>1, <1>2, <1>3 DEF Pending, Units

LEMMA AllTaken ==
  ASSUME NEW k, NEW l, NEW g \in Nat, Size(k) \in Nat, g > Size(k), Pending(k, l, g)',
         rx' \in Seq(UnitIn(Kinds)), wire' \in Seq(UnitIn(Kinds))
  PROVE  NothingPending'
<1>1. g + Len(rx') + Len(wire') = 1 + Size(k)
  BY DEF Pending
<1>2. Len(rx') \in Nat /\ Len(wire') \in Nat
  BY Empty
<1>3. Len(rx') = 0 /\ Len(wire') = 0
  BY <1>1, <1>2
<1> QED
  BY <1>3, Empty DEF NothingPending

LEMMA HearStep == ASSUME LinkInv, tud_cdc_rx_cb PROVE LinkInv'
<1> USE DEF LinkInv
<1>1. PICK n \in 1 .. Len(wire) :
        LET fifo == rx \o SubSeq(wire, 1, n)
            isHeader == Head(fifo).part = 1
        IN
        /\ wire' = SubSeq(wire, n + 1, Len(wire))
        /\ \E kind \in IF isHeader THEN {Head(fifo).kind} ELSE Kinds,
              lba \in IF isHeader THEN {Head(fifo).lba} ELSE Lengths :
             IF Len(fifo) < NeededData(kind)
             THEN /\ rx' = fifo
                  /\ UNCHANGED <<usb, tx, sending, pins, streamVars, emmc_ready, aligned,
                                 short_emmc>>
             ELSE LET payload == Payload(kind, Tail(fifo))
                      short == kind \in PayloadKinds /\ Len(payload) < PayloadUnits
                  IN
                  /\ rx' = SubSeq(Tail(fifo), Len(payload) + 1, Len(Tail(fifo)))
                  /\ aligned' = (aligned /\ isHeader)
                  /\ short_emmc' = (short_emmc \/ (short /\ kind = "emmc_write"))
                  /\ Handle(kind, lba, IF isHeader THEN Head(fifo).id ELSE Stray, short)
  BY DEF tud_cdc_rx_cb
<1>2. usb = "mounted" /\ ~hung /\ UNCHANGED <<waiting, sent, attached, orphaned, asleep, confused>>
  BY DEF tud_cdc_rx_cb
<1>3. /\ wire \in Seq(UnitIn(Kinds)) /\ rx \in Seq(UnitIn(Kinds)) /\ sent \in 0 .. MaxCommands
      /\ Len(wire) \in Nat /\ Len(rx) \in Nat /\ Len(wire) + Len(rx) <= 1 + PayloadUnits
      /\ tx \in Seq(UnitOut) /\ Kinds \subseteq AllKinds /\ Lengths \subseteq Nat
  BY Empty, LinkAssumption DEF TypeOK
<1>4. ~NothingPending
  BY <1>3, NoUnits DEF NothingPending
<1>5. PICK k \in Kinds, l \in Lengths, f \in Nat :
        /\ f \in 1 .. Size(k)
        /\ Unanswered /\ sent > 0 /\ Pending(k, l, f)
        /\ f = 1 => WholePending(k, l)
        /\ f > 1 => RestPending(k, l, f)
  <2>1. /\ Unanswered /\ sent > 0
        /\ \E k \in Kinds, l \in Lengths :
             WholePending(k, l) \/ \E f \in 2 .. Size(k) : RestPending(k, l, f)
    BY <1>4 DEF HeardInv
  <2>2. PICK k \in Kinds, l \in Lengths :
          WholePending(k, l) \/ \E f \in 2 .. Size(k) : RestPending(k, l, f)
    BY <2>1
  <2>3. Size(k) \in Nat /\ 1 \in 1 .. Size(k)
    BY LinkAssumption DEF Size
  <2>4. CASE WholePending(k, l)
    BY <2>1, <2>3, <2>4 DEF WholePending
  <2>5. ASSUME NEW f \in 2 .. Size(k), RestPending(k, l, f)
        PROVE  f \in 1 .. Size(k) /\ f > 1 /\ Pending(k, l, f)
    BY <2>3, <2>5 DEF RestPending
  <2> QED
    BY <2>1, <2>2, <2>4, <2>5
<1>6. PICK fifo : fifo = rx \o SubSeq(wire, 1, n)
  OBVIOUS
<1>7. /\ fifo \in Seq(UnitIn(Kinds)) /\ Len(fifo) = Len(rx) + n
      /\ wire' \in Seq(UnitIn(Kinds)) /\ Len(wire') = Len(wire) - n
      /\ f + Len(fifo) + Len(wire') = 1 + Size(k)
      /\ Units(fifo, k, l, f) /\ Units(wire', k, l, f + Len(fifo))
  <2>1. fifo = rx \o SubSeq(wire, 1, n) /\ wire' = SubSeq(wire, n + 1, Len(wire))
    BY <1>1, <1>6
  <2>2. TypeOK /\ f \in 1 .. Size(k) /\ Pending(k, l, f)
    BY <1>5
  <2>3. n \in 1 .. Len(wire) /\ k \in Kinds /\ l \in Lengths
    OBVIOUS
  <2>4. /\ fifo \in Seq(UnitIn(Kinds)) /\ wire' \in Seq(UnitIn(Kinds))
        /\ Len(fifo) = Len(rx) + n /\ Len(wire') = Len(wire) - n
    BY ONLY <2>1, <2>2, <2>3, Arrived
  <2>5. Units(fifo, k, l, f) /\ Units(wire', k, l, f + Len(fifo))
    BY ONLY <2>1, <2>2, <2>3, Arrived
  <2>7. f + Len(fifo) + Len(wire') = 1 + Size(k)
    <3>1. f + Len(rx) + Len(wire) = 1 + Size(k) /\ n \in Nat /\ f \in Nat
      BY <1>3, <2>2, <2>3 DEF Pending
    <3> QED
      BY ONLY <1>3, <2>4, <3>1
  <2> QED
    BY ONLY <2>4, <2>5, <2>7
<1>8. /\ fifo # <<>> /\ Len(fifo) \in Nat \ {0} /\ Len(wire') \in Nat
      /\ Size(k) \in Nat /\ f \in Nat /\ f >= 1 /\ f <= Size(k)
      /\ Tail(fifo) \in Seq(UnitIn(Kinds)) /\ Len(Tail(fifo)) = Len(fifo) - 1
      /\ Head(fifo).part = f /\ Head(fifo).kind = k /\ Head(fifo).lba = l /\ Head(fifo).id = sent
  <2>1. Len(fifo) \in Nat \ {0} /\ Len(wire') \in Nat /\ Size(k) \in Nat /\ f >= 1 /\ f <= Size(k)
    BY <1>3, <1>5, <1>7, LinkAssumption DEF Size
  <2>2. fifo # <<>>
    BY <2>1, NoUnits
  <2>3. Head(fifo) = fifo[1] /\ Tail(fifo) \in Seq(UnitIn(Kinds)) /\ Len(Tail(fifo)) = Len(fifo) - 1
    BY <1>7, <2>2, HeadAndTail
  <2>4. 1 \in 1 .. Len(fifo) /\ f + 1 - 1 = f
    BY <2>1
  <2>5. fifo[1] = [kind |-> k, lba |-> l, id |-> sent, part |-> f]
    BY <1>7, <2>4, Zenon DEF Units
  <2> QED
    BY <2>1, <2>2, <2>3, <2>5
<1>9. PICK kind \in Kinds, lba \in Lengths :
        /\ f = 1 => kind = k /\ lba = l
        /\ \/ /\ Len(fifo) < NeededData(kind)
              /\ rx' = fifo
              /\ UNCHANGED <<usb, tx, sending, pins, streamVars, emmc_ready, aligned, short_emmc>>
           \/ LET payload == Payload(kind, Tail(fifo))
                  short == kind \in PayloadKinds /\ Len(payload) < PayloadUnits
              IN
              /\ ~(Len(fifo) < NeededData(kind))
              /\ rx' = SubSeq(Tail(fifo), Len(payload) + 1, Len(Tail(fifo)))
              /\ aligned' = (aligned /\ f = 1)
              /\ short_emmc' = (short_emmc \/ (short /\ kind = "emmc_write"))
              /\ Handle(kind, lba, IF f = 1 THEN sent ELSE 0, short)
  <2>1. \E kind \in IF f = 1 THEN {k} ELSE Kinds, lba \in IF f = 1 THEN {l} ELSE Lengths :
             IF Len(fifo) < NeededData(kind)
             THEN /\ rx' = fifo
                  /\ UNCHANGED <<usb, tx, sending, pins, streamVars, emmc_ready, aligned,
                                 short_emmc>>
             ELSE LET payload == Payload(kind, Tail(fifo))
                      short == kind \in PayloadKinds /\ Len(payload) < PayloadUnits
                  IN
                  /\ rx' = SubSeq(Tail(fifo), Len(payload) + 1, Len(Tail(fifo)))
                  /\ aligned' = (aligned /\ f = 1)
                  /\ short_emmc' = (short_emmc \/ (short /\ kind = "emmc_write"))
                  /\ Handle(kind, lba, IF f = 1 THEN sent ELSE 0, short)
    BY ZenonT(40), <1>1, <1>8, <1>6 DEF Stray
  <2> QED
    BY <2>1
\* Not enough has arrived: the handler waits for more.
<1>10. CASE /\ Len(fifo) < NeededData(kind)
           /\ rx' = fifo
           /\ UNCHANGED <<usb, tx, sending, pins, streamVars, emmc_ready, aligned, short_emmc>>
  <2>1. TypeOK'
    <3>1. Len(wire') + Len(rx') <= 1 + PayloadUnits
      <4>1. n \in Nat /\ PayloadUnits \in Nat /\ Len(wire) + Len(rx) <= 1 + PayloadUnits
            /\ Len(rx') = Len(rx) + n /\ Len(wire') = Len(wire) - n
            /\ Len(wire) \in Nat /\ Len(rx) \in Nat
        BY <1>3, <1>7, <1>10, LinkAssumption
      <4> QED
        BY ONLY <4>1
    <3> QED
      BY <1>2, <1>7, <1>10, <3>1 DEF TypeOK, streamVars
  <2>2. Pending(k, l, f)'
    <3>1. /\ Len(rx') = Len(fifo) - 0 /\ \A i \in 1 .. Len(rx') : rx'[i] = fifo[0 + i]
          /\ 0 \in 0 .. Len(fifo) /\ f + 0 = f
      BY <1>8, <1>10
    <3>2. Pending(k, l, f + 0)'
      BY <1>2, <1>7, <1>8, <3>1, StillPending
    <3> QED
      BY <3>1, <3>2
  <2>3. f = 1 => WholePending(k, l)'
    <3> SUFFICES ASSUME f = 1 PROVE WholePending(k, l)'
      OBVIOUS
    <3>1. kind = k
      BY <1>9
    <3>2. k \in CountedPayload
      BY <1>8, <1>10, <3>1 DEF NeededData
    <3> QED
      BY <1>2, <1>5, <2>2, <3>2 DEF WholePending
  <2>4. f > 1 => f \in 2 .. Size(k) /\ RestPending(k, l, f)'
    BY <1>2, <1>5, <1>8, <1>10, <2>2 DEF RestPending
  <2>5. Unanswered' /\ sent' > 0
    BY <1>2, <1>5, <1>10 DEF Unanswered, streamVars
  <2>6. ~NothingPending'
    BY <1>8, <1>10 DEF NothingPending
  <2>7. HeardInv'
    <3>1. /\ waiting' # NoCommand => waiting'.id = sent'
          /\ stream_of' <= sent' /\ \A i \in 1 .. Len(tx') : tx'[i].id <= sent'
      BY <1>2, <1>10 DEF HeardInv, streamVars
    <3>2. f = 1 \/ f > 1
      BY <1>8
    <3> QED
      BY <2>3, <2>4, <2>5, <3>1, <3>2 DEF HeardInv
  <2>8. StepInv'
    BY <1>2, <1>4, <1>10, <2>6 DEF StepInv, StreamDone, streamVars
  <2>9. FramingHolds' /\ DetachedInv' /\ NandReachableWhileMounted'
    BY <1>2, <1>10 DEF FramingHolds, DetachedInv, NandReachableWhileMounted
  <2> QED
    BY <2>1, <2>7, <2>8, <2>9
\* A command is handled, or a unit of a payload that is taken for one.
<1>11. PICK m : m = Len(Payload(kind, Tail(fifo)))
  OBVIOUS
<1> DEFINE short == kind \in PayloadKinds /\ m < PayloadUnits
<1>12. CASE /\ ~(Len(fifo) < NeededData(kind))
            /\ rx' = SubSeq(Tail(fifo), m + 1, Len(Tail(fifo)))
            /\ aligned' = (aligned /\ f = 1)
            /\ short_emmc' = (short_emmc \/ (short /\ kind = "emmc_write"))
            /\ Handle(kind, lba, IF f = 1 THEN sent ELSE 0, short)
  <2>1. /\ m \in 0 .. Len(fifo) - 1 /\ 1 + m \in 0 .. Len(fifo) /\ m \in Nat
        /\ kind \notin PayloadKinds => m = 0
        /\ kind \in PayloadKinds =>
             m = IF Len(fifo) - 1 < PayloadUnits THEN Len(fifo) - 1 ELSE PayloadUnits
    <3>1. kind \in AllKinds
      BY <1>3
    <3>2. /\ m \in 0 .. Len(Tail(fifo))
          /\ kind \notin PayloadKinds => m = 0
          /\ kind \in PayloadKinds =>
               m = IF Len(Tail(fifo)) < PayloadUnits THEN Len(Tail(fifo)) ELSE PayloadUnits
      BY <1>8, <1>11, <3>1, PayloadFacts
    <3>3. /\ m \in 0 .. Len(fifo) - 1
          /\ kind \in PayloadKinds =>
               m = IF Len(fifo) - 1 < PayloadUnits THEN Len(fifo) - 1 ELSE PayloadUnits
      BY <1>8, <3>2
    <3>4. Len(fifo) \in Nat \ {0} /\ m \in 0 .. Len(fifo) - 1
      BY <1>8, <3>3
    <3>5. m \in Nat /\ 1 + m \in 0 .. Len(fifo)
      BY ONLY <3>4
    <3> QED
      BY <3>2, <3>3, <3>5
  <2>2. /\ rx' \in Seq(UnitIn(Kinds)) /\ Len(rx') = Len(fifo) - (1 + m)
        /\ \A i \in 1 .. Len(rx') : rx'[i] = fifo[1 + m + i]
    <3>1. /\ fifo \in Seq(UnitIn(Kinds)) /\ fifo # <<>> /\ m \in 0 .. Len(fifo) - 1
          /\ rx' = SubSeq(Tail(fifo), m + 1, Len(Tail(fifo)))
      BY <1>7, <1>8, <1>12, <2>1
    <3> QED
      BY ONLY <3>1, Dropped
  <2>3. Pending(k, l, f + (1 + m))'
    <3>1. /\ f \in Nat /\ Len(fifo) \in Nat /\ 1 + m \in 0 .. Len(fifo) /\ Len(wire') \in Nat
          /\ Size(k) \in Nat /\ f + Len(fifo) + Len(wire') = 1 + Size(k)
          /\ Len(rx') = Len(fifo) - (1 + m) /\ sent' = sent
      BY <1>2, <1>7, <1>8, <2>1, <2>2
    <3>2. /\ \A i \in 1 .. Len(rx') : rx'[i] = fifo[(1 + m) + i]
          /\ Units(fifo, k, l, f) /\ Units(wire', k, l, f + Len(fifo))
      BY <1>7, <2>2
    <3> QED
      BY ONLY <3>1, <3>2, StillPending
  <2> DEFINE id == IF f = 1 THEN sent ELSE 0
  <2>4. id \in 0 .. MaxCommands /\ lba \in Nat /\ kind \in AllKinds
    BY <1>3, LinkAssumption
  <2> HIDE DEF short
  <2>5. /\ usb' \in {"mounted", "gone"}
        /\ tx' \in Seq(UnitOut) /\ Len(tx') <= TxCapacity
        /\ sending' \in BOOLEAN /\ (sending' => tx' # <<>>)
        /\ pins' \in PinType
        /\ do_stream' \in BOOLEAN /\ stream_emmc' \in BOOLEAN
        /\ stream_offset' \in Nat /\ stream_end' \in Nat /\ stream_of' \in {stream_of, id}
        /\ hung' = hung
        /\ emmc_ready' \in BOOLEAN /\ (~emmc_ready' => pins' = pins /\ ~emmc_ready)
        /\ \A i \in 1 .. Len(tx') :
             tx'[i].id = id \/ (i \in 1 .. Len(tx) /\ tx'[i].id = tx[i].id)
    BY <1>2, <1>12, <2>4, HandleFacts
  <2>6. TypeOK'
    <3>1. Len(wire') + Len(rx') <= 1 + PayloadUnits
      <4>1. n \in Nat /\ PayloadUnits \in Nat /\ Len(wire) + Len(rx) <= 1 + PayloadUnits
            /\ Len(rx') = Len(rx) + n - (1 + m) /\ Len(wire') = Len(wire) - n
            /\ Len(wire) \in Nat /\ Len(rx) \in Nat /\ m \in Nat
        <5>1. n \in Nat /\ PayloadUnits \in Nat
          BY <1>3, LinkAssumption
        <5>2. Len(rx') = Len(rx) + n - (1 + m)
          <6>1. /\ Len(rx') = Len(fifo) - (1 + m) /\ Len(fifo) = Len(rx) + n
                /\ Len(rx) \in Nat /\ n \in Nat /\ m \in Nat
            BY <1>3, <1>7, <2>1, <2>2, <5>1
          <6> QED
            BY ONLY <6>1
        <5> QED
          BY <1>3, <1>7, <2>1, <5>1, <5>2
      <4> QED
        BY ONLY <4>1
    <3>2. stream_of' \in 0 .. MaxCommands /\ hung' \in BOOLEAN
      BY <2>4, <2>5 DEF TypeOK
    <3>3. aligned' \in BOOLEAN /\ short_emmc' \in BOOLEAN
      BY <1>12, Zenon DEF TypeOK
    <3> QED
      BY <1>2, <1>7, <2>2, <2>5, <3>1, <3>2, <3>3 DEF TypeOK
  <2>11. /\ aligned' <=> (aligned /\ f = 1)
         /\ short_emmc' <=> (short_emmc \/ (short /\ kind = "emmc_write"))
    BY <1>12, Zenon
  <2>7. DetachedInv' /\ NandReachableWhileMounted'
    BY <1>2, <2>5 DEF DetachedInv, NandReachableWhileMounted
  <2>8. /\ stream_of' <= sent' /\ \A i \in 1 .. Len(tx') : tx'[i].id <= sent'
        /\ waiting' # NoCommand => waiting'.id = sent'
    <3>1. id \in Nat /\ id <= sent
      BY <1>3, <1>5, LinkAssumption
    <3>2. /\ sent' = sent /\ stream_of <= sent /\ \A i \in 1 .. Len(tx) : tx[i].id <= sent
          /\ waiting' # NoCommand => waiting'.id = sent'
      BY <1>2 DEF HeardInv
    <3> HIDE DEF id
    <3> QED
      BY <2>5, <3>1, <3>2
\* A unit in the middle of a payload is taken for a command of an earlier number.
  <2>9. CASE f > 1
    <3>1. RestPending(k, l, f) /\ id = 0 /\ ~aligned' /\ short_emmc'
      BY <1>5, <2>9, <2>11 DEF RestPending
    <3>2. Unanswered' /\ sent' > 0
      BY SMTT(30), <1>2, <1>5, <2>5, <3>1, LinkAssumption DEF Unanswered
    <3>3. f + (1 + m) > 1 /\ f + (1 + m) \in Nat
      <4>1. f \in Nat /\ m \in Nat /\ f > 1
        BY <1>8, <2>1, <2>9
      <4> QED
        BY ONLY <4>1
    <3>4. \/ NothingPending'
          \/ f + (1 + m) \in 2 .. Size(k) /\ RestPending(k, l, f + (1 + m))'
      <4>1. CASE f + (1 + m) > Size(k)
        BY <1>7, <1>8, <2>2, <2>3, <3>3, <4>1, AllTaken
      <4>2. CASE f + (1 + m) <= Size(k)
        BY <1>2, <1>8, <2>3, <3>1, <3>3, <4>2 DEF RestPending
      <4> QED
        BY <1>8, <3>3, <4>1, <4>2
    <3>5. HeardInv' /\ FramingHolds' /\ StepInv'
      BY <2>8, <3>1, <3>2, <3>4 DEF HeardInv, FramingHolds, StepInv
    <3> QED
      BY <2>6, <2>7, <3>5
\* A header: the whole command is taken, or what has arrived of an EMMC_WRITE.
  <2>10. CASE f = 1
    <3>1. /\ kind = k /\ lba = l /\ id = sent /\ (aligned' <=> aligned) /\ WholePending(k, l)
          /\ Handle(k, l, sent, short)
      <4>1. kind = k /\ lba = l /\ id = sent /\ WholePending(k, l)
        BY <1>5, <1>9, <2>10
      <4>2. Handle(kind, lba, id, short)
        BY <1>12
      <4> QED
        BY <2>10, <2>11, <4>1, <4>2
    <3>2. FramingHolds'
      BY <2>11, <3>1 DEF FramingHolds
    <3>3. CASE short
      <4>1. /\ k \in PayloadKinds /\ m < PayloadUnits /\ ~(Len(fifo) < NeededData(k))
            /\ PayloadUnits \in Nat
        BY <1>12, <3>1, <3>3, LinkAssumption DEF short
      <4>2. Len(fifo) \in Nat /\ m = Len(fifo) - 1
        <5>1. /\ Len(fifo) \in Nat /\ m \in Nat /\ m < PayloadUnits /\ PayloadUnits \in Nat
              /\ m = IF Len(fifo) - 1 < PayloadUnits THEN Len(fifo) - 1 ELSE PayloadUnits
          BY <1>8, <2>1, <3>1, <4>1
        <5> QED
          BY ONLY <5>1
      <4>3. k = "emmc_write"
        BY <4>1, <4>2 DEF NeededData, CountedPayload, PayloadKinds
      <4>4. /\ 1 + (1 + m) \in 2 .. Size(k) /\ short_emmc' /\ Pending(k, l, 1 + (1 + m))'
            /\ 1 + (1 + m) > 1
        BY <2>1, <2>3, <2>10, <2>11, <3>1, <3>3, <4>1, <4>3 DEF Size
      <4>5. /\ waiting' # NoCommand
        <5>1. ~NoAnswerDue(k, l)
          BY <4>3 DEF NoAnswerDue, AnswerLen, StreamKinds
        <5>2. sent \in Nat /\ k \in AllKinds /\ l \in Nat
          BY <1>3, LinkAssumption
        <5> QED
          BY <1>2, <3>1, <5>1, <5>2, NoCommandAssumption DEF WholePending
      <4>6. UNCHANGED <<tx, streamVars>>
        BY <3>1, <3>3 DEF Handle
      <4>7. HeardInv'
        <5>1. Unanswered' /\ sent' > 0
          BY <1>2, <1>5, <4>6 DEF Unanswered, streamVars
        <5> QED
          BY <2>8, <4>4, <4>5, <5>1 DEF HeardInv, RestPending
      <4>8. ~NothingPending'
        <5>1. 1 + (1 + m) + Len(rx') + Len(wire') = 1 + Size(k) /\ Size(k) \in Nat
          BY <1>8, <4>4 DEF Pending
        <5> QED
          BY <2>1, <4>4, <5>1, NoUnits DEF NothingPending
      <4>9. StepInv'
        BY <1>2, <1>4, <3>1, <4>6, <4>8 DEF StepInv, StreamDone, streamVars
      <4> QED
        BY <2>6, <2>7, <3>2, <4>7, <4>9
    <3>4. CASE ~short
      <4>1. 1 + (1 + m) > Size(k) /\ 1 + (1 + m) \in Nat
        <5>1. k \in PayloadKinds => ~(m < PayloadUnits)
          BY <3>1, <3>4 DEF short
        <5>2. /\ PayloadUnits \in Nat /\ m \in Nat /\ Len(fifo) \in Nat
              /\ k \in PayloadKinds =>
                   m = IF Len(fifo) - 1 < PayloadUnits THEN Len(fifo) - 1 ELSE PayloadUnits
          BY <1>8, <2>1, <3>1, LinkAssumption
        <5> QED
          BY ONLY <5>1, <5>2 DEF Size
      <4>2. NothingPending'
        BY <1>7, <1>8, <2>2, <2>3, <2>10, <4>1, AllTaken
      <4>3. HeardInv'
        BY <2>8, <4>2 DEF HeardInv
      <4>4. StepInv'
        <5> SUFFICES ASSUME aligned', ~orphaned' PROVE StepInv'
          BY DEF StepInv
        <5>1. ~confused' /\ tx = <<>> /\ StreamDone
          BY <1>2, <1>4, <3>1 DEF StepInv
        <5>2. k \in AllKinds /\ l \in Nat
          BY <1>3
        <5>3. /\ waiting = NoCommand => tx' = <<>> /\ StreamDone'
              /\ waiting # NoCommand => AnswerInFifo'
          BY <1>2, <1>3, <3>1, <3>4, <5>1, <5>2, AnswerStep DEF WholePending
        <5> QED
          BY <1>2, <4>2, <5>1, <5>3 DEF StepInv
      <4> QED
        BY <2>6, <2>7, <3>2, <4>3, <4>4
    <3> QED
      BY <3>3, <3>4
  <2> QED
    BY <1>8, <2>9, <2>10
<1> QED
  BY <1>9, <1>10, <1>12, <1>11
-----------------------------------------------------------------------------
(* The theorems *)

LEMMA IdleStep == ASSUME LinkInv, UNCHANGED vars PROVE LinkInv'
<1> USE DEF LinkInv, vars, busVars, fifoVars, streamVars, history
<1>1. TypeOK'
  BY DEF TypeOK
<1>2. HeardInv' /\ FramingHolds'
  BY DEF HeardInv, NothingPending, WholePending, RestPending, Pending, Units, Unanswered,
         FramingHolds
<1>3. StepInv'
  BY DEF StepInv, NothingPending, StreamDone, AnswerInFifo, Follows
<1>4. DetachedInv' /\ NandReachableWhileMounted'
  BY DEF DetachedInv, NothingPending, NandReachableWhileMounted
<1> QED
  BY <1>1, <1>2, <1>3, <1>4

LEMMA LinkStep == ASSUME LinkInv, [Next]_vars PROVE LinkInv'
<1>1. CASE Bus
  BY <1>1, BusStep
<1>2. CASE HostSends
  BY <1>2, SendStep
<1>3. CASE HostReceives
  BY <1>3, ReceiveStep
<1>4. CASE tud_cdc_rx_cb
  BY <1>4, HearStep
<1>5. CASE Stream
  BY <1>5, StreamEndsStep, StreamReadsStep, StreamHangsStep DEF Stream
<1>6. CASE UNCHANGED vars
  BY <1>6, IdleStep
<1> QED
  BY <1>1, <1>2, <1>3, <1>4, <1>5, <1>6 DEF Next

\* The inductive invariant of the link.
THEOREM Link == Spec => []LinkInv
<1> QED
  BY LinkInit, LinkStep, PTL DEF Spec

\* Every variable of main.c and of the link keeps its type; no FIFO overflows, and
\* no transfer is under way with nothing to send.
THEOREM LinkTypes == Spec => []TypeOK
<1>1. LinkInv => TypeOK
  BY DEF LinkInv
<1> QED
  BY <1>1, Link, PTL

\* However the bytes are cut into transfers, a host that waits for each answer gets
\* the units of that answer and no others, in their order, until an EMMC_WRITE runs
\* before its sector has come or a stream outlives its attachment.
THEOREM HostKeepsStep == Spec => []HostInStep
<1>1. LinkInv => HostInStep
  BY DEF LinkInv, StepInv, HostInStep
<1> QED
  BY <1>1, Link, PTL

\* tud_cdc_rx_cb takes payload for a command only behind such an EMMC_WRITE.
THEOREM FramesHold == Spec => []FramingHolds
<1>1. LinkInv => FramingHolds
  BY DEF LinkInv
<1> QED
  BY <1>1, Link, PTL

\* Whatever order mounts, suspends and resumes come in, a mounted flasher that has
\* not run EMMC_INIT finds the console where the NAND controller answers.
THEOREM NandStaysReachable == Spec => []NandReachableWhileMounted
<1>1. LinkInv => NandReachableWhileMounted
  BY DEF LinkInv
<1> QED
  BY <1>1, Link, PTL
=============================================================================
