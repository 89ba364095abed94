--------------------------- MODULE Pi4SerialProofs ---------------------------
(***************************************************************************)
(* Theorems about Pi4Serial for every cutting of the host's bytes into       *)
(* reads, every size of header, payload and sector, every number of commands *)
(* and faults, with ICRNL or without.                                        *)
(***************************************************************************)
EXTENDS Pi4Serial, SequenceTheorems, TLAPS

-----------------------------------------------------------------------------
(* Sequences *)

LEMMA HeadAndTail ==
  ASSUME NEW S, NEW q \in Seq(S), q # <<>>
  PROVE  /\ Len(q) > 0 /\ Head(q) \in S /\ Head(q) = q[1]
         /\ Tail(q) \in Seq(S) /\ Len(Tail(q)) = Len(q) - 1
         /\ \A i \in 1 .. Len(q) - 1 : Tail(q)[i] = q[i + 1]
  OBVIOUS

LEMMA Joined ==
  ASSUME NEW S, NEW p \in Seq(S), NEW q \in Seq(S)
  PROVE  /\ p \o q \in Seq(S) /\ Len(p \o q) = Len(p) + Len(q)
         /\ \A i \in 1 .. Len(p) : (p \o q)[i] = p[i]
         /\ \A i \in 1 .. Len(q) : (p \o q)[Len(p) + i] = q[i]
         /\ \A i \in 1 .. Len(p) + Len(q) :
              (p \o q)[i] = IF i <= Len(p) THEN p[i] ELSE q[i - Len(p)]
  OBVIOUS

LEMMA Cut ==
  ASSUME NEW S, NEW q \in Seq(S), NEW a \in 1 .. Len(q) + 1, NEW b \in a - 1 .. Len(q)
  PROVE  /\ SubSeq(q, a, b) \in Seq(S) /\ Len(SubSeq(q, a, b)) = b - a + 1
         /\ \A i \in 1 .. b - a + 1 : SubSeq(q, a, b)[i] = q[a + i - 1]
  OBVIOUS

LEMMA Empty ==
  ASSUME NEW S, NEW q \in Seq(S)
  PROVE  /\ Len(q) \in Nat
         /\ q = <<>> <=> Len(q) = 0
         /\ \A i \in 1 .. Len(q) : q[i] \in S
  OBVIOUS

LEMMA Same ==
  ASSUME NEW S, NEW p \in Seq(S), NEW q \in Seq(S), Len(p) = Len(q),
         \A i \in 1 .. Len(p) : p[i] = q[i]
  PROVE  p = q
  OBVIOUS

\* What is left of a sequence without its first n members.
Rest(q, n) == SubSeq(q, n + 1, Len(q))

LEMMA RestFacts ==
  ASSUME NEW S, NEW q \in Seq(S), NEW n \in 0 .. Len(q)
  PROVE  /\ Rest(q, n) \in Seq(S) /\ Len(Rest(q, n)) = Len(q) - n
         /\ \A i \in 1 .. Len(q) - n : Rest(q, n)[i] = q[n + i]
  BY DEF Rest

LEMMA Moved ==
  ASSUME NEW S, NEW p \in Seq(S), NEW q \in Seq(S), NEW n \in 0 .. Len(q)
  PROVE  (p \o SubSeq(q, 1, n)) \o Rest(q, n) = p \o q
<1>1. SubSeq(q, 1, n) \in Seq(S) /\ Rest(q, n) \in Seq(S)
  BY Cut, RestFacts
<1>2. SubSeq(q, 1, n) \o Rest(q, n) = q
  <2>1. /\ 1 \in 1 .. Len(q) + 1 /\ n \in 1 - 1 .. Len(q) /\ Len(q) \in n .. Len(q)
    OBVIOUS
  <2> QED
    BY <2>1, ConcatAdjacentSubSeq, SubSeqFull DEF Rest
<1>3. PICK a, r : a = SubSeq(q, 1, n) /\ r = Rest(q, n)
  OBVIOUS
<1>4. a \in Seq(S) /\ r \in Seq(S)
  BY <1>1, <1>3
<1>5. (p \o a) \o r = p \o (a \o r)
  BY ONLY SMTT(30), <1>4, p \in Seq(S), ConcatAssociative
<1>6. a \o r = q
  BY <1>2, <1>3
<1> QED
  BY <1>3, <1>5, <1>6

LEMMA RestOfJoined ==
  ASSUME NEW S, NEW q \in Seq(S), NEW r \in Seq(S), NEW n \in 0 .. Len(q)
  PROVE  Rest(q, n) \o r = Rest(q \o r, n)
<1>1. /\ Rest(q, n) \in Seq(S) /\ Len(Rest(q, n)) = Len(q) - n
      /\ \A i \in 1 .. Len(q) - n : Rest(q, n)[i] = q[n + i]
  BY RestFacts
<1>2. /\ q \o r \in Seq(S) /\ Len(q \o r) = Len(q) + Len(r)
      /\ \A i \in 1 .. Len(q) + Len(r) : (q \o r)[i] = IF i <= Len(q) THEN q[i] ELSE r[i - Len(q)]
  BY Joined
<1>3. /\ Rest(q \o r, n) \in Seq(S) /\ Len(Rest(q \o r, n)) = Len(q) + Len(r) - n
      /\ \A i \in 1 .. Len(q) + Len(r) - n : Rest(q \o r, n)[i] = (q \o r)[n + i]
  <2>1. PICK j : j = q \o r
    OBVIOUS
  <2>2. j \in Seq(S) /\ n \in 0 .. Len(j) /\ Len(j) = Len(q) + Len(r)
    BY <1>2, <2>1
  <2>3. /\ Rest(j, n) \in Seq(S) /\ Len(Rest(j, n)) = Len(j) - n
        /\ \A i \in 1 .. Len(j) - n : Rest(j, n)[i] = j[n + i]
    BY ONLY <2>2, RestFacts
  <2>4. Len(j) - n = Len(q) + Len(r) - n
    BY <2>2
  <2> QED
    BY ONLY <2>1, <2>3, <2>4
<1>4. PICK h, l : h = Rest(q, n) /\ l = h \o r
  OBVIOUS
<1>5. /\ l \in Seq(S) /\ Len(l) = Len(q) - n + Len(r)
      /\ \A i \in 1 .. Len(q) - n + Len(r) :
           l[i] = IF i <= Len(q) - n THEN h[i] ELSE r[i - (Len(q) - n)]
  <2>1. h \in Seq(S) /\ r \in Seq(S)
    BY <1>1, <1>4
  <2>2. /\ h \o r \in Seq(S) /\ Len(h \o r) = Len(h) + Len(r)
        /\ \A i \in 1 .. Len(h) + Len(r) :
             (h \o r)[i] = IF i <= Len(h) THEN h[i] ELSE r[i - Len(h)]
    BY ONLY <2>1, Joined
  <2>3. Len(h) = Len(q) - n
    BY <1>1, <1>4
  <2> QED
    BY <1>4, <2>2, <2>3
<1>6. ASSUME NEW i \in 1 .. Len(q) + Len(r) - n
      PROVE  l[i] = Rest(q \o r, n)[i]
  <2>1. n + i \in 1 .. Len(q) + Len(r)
    OBVIOUS
  <2>2. Rest(q \o r, n)[i] = IF n + i <= Len(q) THEN q[n + i] ELSE r[(n + i) - Len(q)]
    BY <1>2, <1>3, <2>1
  <2>3. CASE i <= Len(q) - n
    BY <1>1, <1>4, <1>5, <2>2, <2>3
  <2>4. CASE ~(i <= Len(q) - n)
    <3>1. i - (Len(q) - n) = (n + i) - Len(q)
      OBVIOUS
    <3> QED
      BY <1>5, <2>2, <2>4, <3>1
  <2> QED
    BY <2>3, <2>4
<1>7. Len(l) = Len(Rest(q \o r, n)) /\ Len(l) = Len(q) + Len(r) - n
  BY <1>3, <1>5
<1> QED
  BY <1>3, <1>4, <1>5, <1>6, <1>7, Same

-----------------------------------------------------------------------------
(* What the host has said and the loop has not yet taken *)

\* The units on the line, as they will be received.
OnTheLine(q) == [i \in 1 .. Len(q) |-> [q[i] EXCEPT !.lba = Received(q[i].lba)]]

\* Everything that comes after what has been handled, in order.
Flow == (got \o rx) \o OnTheLine(wire)

\* The units of a whole command.
Size(kind) == HeaderUnits + (IF kind = "write" THEN PayloadUnits ELSE 0)

\* Where the command ends that has its unit i in q.
LastOf(q, i) == i + Size(q[i].kind) - q[i].part

\* Each command in q is complete from its first unit in q on, and another one follows it.
WholeCommands(q) ==
  \A i \in 1 .. Len(q) :
    /\ q[i].part <= Size(q[i].kind)
    /\ LastOf(q, i) <= Len(q)
    /\ \A j \in i .. LastOf(q, i) : q[j] = [q[i] EXCEPT !.part = q[i].part + (j - i)]
    /\ LastOf(q, i) < Len(q) => q[LastOf(q, i) + 1].part = 1

\* The payload of the command in hand comes next.
PayloadNext == pc = "payload" \/ (pc = "command" /\ cmd.kind = "write")

Unbroken == faults \cap {"host", "late", "read"} = {}

FrameInv ==
  Unbroken =>
    /\ aligned
    /\ WholeCommands(Flow)
    /\ pc = "header" => got # <<>> \/ rx # <<>>
    /\ IF PayloadNext THEN /\ Flow # <<>>
                           /\ Flow[1].part = HeaderUnits + 1
                           /\ Flow[1].kind = "write"
                      ELSE Flow # <<>> => Flow[1].part = 1

-----------------------------------------------------------------------------
(* The flow of commands *)

LEMMA ReceivedFacts ==
  ASSUME NEW l \in Lengths
  PROVE  Received(l) \in Lengths /\ Received(l) \in Nat /\ Received(l) <= l
<1>1. Received(l) = l \/ (l = CR /\ Received(l) = NL)
  BY Zenon DEF Received
<1>2. \A n \in Lengths : n \in Nat
  BY SerialAssumption
<1>3. CR \in Lengths => NL \in Lengths /\ NL < CR
  BY SerialAssumption
<1> QED
  BY ONLY <1>1, <1>2, <1>3, l \in Lengths

LEMMA SizeFacts ==
  ASSUME NEW kind
  PROVE  /\ Size(kind) \in Nat /\ Size(kind) \in HeaderUnits .. HeaderUnits + PayloadUnits
         /\ kind = "write" => Size(kind) = HeaderUnits + PayloadUnits
         /\ kind # "write" => Size(kind) = HeaderUnits
         /\ HeaderUnits \in Nat \ {0} /\ PayloadUnits \in Nat \ {0}
  BY SerialAssumption DEF Size

LEMMA UnitFields ==
  ASSUME NEW u \in UnitIn
  PROVE  /\ u.kind \in Kinds /\ u.kind \in AllKinds /\ u.lba \in Lengths /\ u.lba \in Nat
         /\ u.id \in 1 .. MaxCommands /\ u.id \in Nat /\ u.id # Stray
         /\ u.part \in 1 .. HeaderUnits + PayloadUnits /\ u.part \in Nat
<1>1. /\ u.kind \in Kinds /\ u.lba \in Lengths /\ u.id \in 1 .. MaxCommands
      /\ u.part \in 1 .. HeaderUnits + PayloadUnits
  BY DEF UnitIn
<1>2. Kinds \subseteq AllKinds /\ Lengths \subseteq Nat /\ MaxCommands \in Nat
      /\ HeaderUnits \in Nat /\ PayloadUnits \in Nat
  BY SerialAssumption
<1>3. u.kind \in AllKinds /\ u.lba \in Nat
  BY ONLY <1>1, <1>2
<1>4. u.id \in Nat /\ u.id # 0
  BY ONLY <1>1, <1>2
<1>5. u.part \in Nat
  BY ONLY <1>1, <1>2
<1> QED
  BY <1>1, <1>3, <1>4, <1>5 DEF Stray

LEMMA OnTheLineFacts ==
  ASSUME NEW q \in Seq(UnitIn)
  PROVE  /\ OnTheLine(q) \in Seq(UnitIn) /\ Len(OnTheLine(q)) = Len(q)
         /\ \A i \in 1 .. Len(q) :
              OnTheLine(q)[i] = [q[i] EXCEPT !.lba = Received(q[i].lba)]
         /\ q # <<>> => /\ Head(OnTheLine(q)) = [Head(q) EXCEPT !.lba = Received(Head(q).lba)]
                        /\ Tail(OnTheLine(q)) = OnTheLine(Tail(q))
<1>1. \A i \in 1 .. Len(q) : [q[i] EXCEPT !.lba = Received(q[i].lba)] \in UnitIn
  <2> TAKE i \in 1 .. Len(q)
  <2>1. q[i] \in UnitIn
    OBVIOUS
  <2>2. Received(q[i].lba) \in Lengths
    BY <2>1, UnitFields, ReceivedFacts
  <2> QED
    BY <2>1, <2>2 DEF UnitIn
<1>2. /\ OnTheLine(q) \in Seq(UnitIn) /\ Len(OnTheLine(q)) = Len(q)
      /\ \A i \in 1 .. Len(q) : OnTheLine(q)[i] = [q[i] EXCEPT !.lba = Received(q[i].lba)]
  BY <1>1 DEF OnTheLine
<1>3. ASSUME q # <<>>
      PROVE  /\ Head(OnTheLine(q)) = [Head(q) EXCEPT !.lba = Received(Head(q).lba)]
             /\ Tail(OnTheLine(q)) = OnTheLine(Tail(q))
  <2>1. /\ Len(q) \in Nat /\ Len(q) > 0 /\ Head(q) = q[1] /\ Tail(q) \in Seq(UnitIn)
        /\ Len(Tail(q)) = Len(q) - 1 /\ \A i \in 1 .. Len(q) - 1 : Tail(q)[i] = q[i + 1]
    BY <1>3, HeadAndTail
  <2>2. PICK o : o = OnTheLine(q)
    OBVIOUS
  <2>3. o \in Seq(UnitIn) /\ Len(o) = Len(q) /\ o # <<>>
    BY <1>2, <2>1, <2>2
  <2>4. /\ Head(o) = o[1] /\ Tail(o) \in Seq(UnitIn) /\ Len(Tail(o)) = Len(q) - 1
        /\ \A i \in 1 .. Len(q) - 1 : Tail(o)[i] = o[i + 1]
    BY <2>3, HeadAndTail
  <2>5. Tail(o) = [i \in 1 .. Len(q) - 1 |-> Tail(o)[i]]
    <3>1. PICK t : t = Tail(o)
      OBVIOUS
    <3>2. t \in Seq(UnitIn) /\ Len(t) = Len(q) - 1
      BY <2>4, <3>1
    <3>3. t = [i \in 1 .. Len(t) |-> t[i]]
      BY ONLY <3>2
    <3> QED
      BY <3>1, <3>2, <3>3
  <2>6. \A i \in 1 .. Len(q) - 1 :
          /\ i + 1 \in 1 .. Len(q)
          /\ Tail(o)[i] = [Tail(q)[i] EXCEPT !.lba = Received(Tail(q)[i].lba)]
    BY <1>2, <2>1, <2>2, <2>4
  <2>7. Tail(o) = OnTheLine(Tail(q))
    BY <2>1, <2>5, <2>6 DEF OnTheLine
  <2>8. Head(OnTheLine(q)) = [Head(q) EXCEPT !.lba = Received(Head(q).lba)]
    <3>1. 1 \in 1 .. Len(q)
      BY <2>1
    <3>2. OnTheLine(q)[1] = [q[1] EXCEPT !.lba = Received(q[1].lba)]
      BY <1>2, <3>1
    <3> QED
      BY <2>1, <2>2, <2>4, <3>2
  <2> QED
    BY <2>2, <2>7, <2>8
<1> QED
  BY <1>2, <1>3

LEMMA NothingOnTheLine == OnTheLine(<<>>) = <<>>
  BY DEF OnTheLine

LEMMA FlowFacts ==
  ASSUME TypeOK
  PROVE  /\ Flow \in Seq(UnitIn) /\ Len(Flow) = Len(got) + Len(rx) + Len(wire)
         /\ Len(got) \in Nat /\ Len(rx) \in Nat /\ Len(wire) \in Nat
         /\ \A i \in 1 .. Len(Flow) : Flow[i] \in UnitIn
         /\ got \o rx \in Seq(UnitIn) /\ Len(got \o rx) = Len(got) + Len(rx)
         /\ \A i \in 1 .. Len(got) + Len(rx) : Flow[i] = (got \o rx)[i]
         /\ wire = <<>> => Flow = got \o rx
         /\ Flow = <<>> <=> got = <<>> /\ rx = <<>> /\ wire = <<>>
<1>1. got \in Seq(UnitIn) /\ rx \in Seq(UnitIn) /\ wire \in Seq(UnitIn)
  BY DEF TypeOK
<1>2. PICK a, b : a = got \o rx /\ b = OnTheLine(wire)
  OBVIOUS
<1>3. /\ a \in Seq(UnitIn) /\ Len(a) = Len(got) + Len(rx)
      /\ b \in Seq(UnitIn) /\ Len(b) = Len(wire)
      /\ Len(got) \in Nat /\ Len(rx) \in Nat /\ Len(wire) \in Nat
  BY <1>1, <1>2, Joined, OnTheLineFacts
<1>4. /\ a \o b \in Seq(UnitIn) /\ Len(a \o b) = Len(a) + Len(b)
      /\ \A i \in 1 .. Len(a) : (a \o b)[i] = a[i]
  <2>1. a \in Seq(UnitIn) /\ b \in Seq(UnitIn)
    BY <1>3
  <2> QED
    BY ONLY <2>1, Joined
<1>5. Flow = a \o b
  BY <1>2 DEF Flow
<1>6. wire = <<>> => b = <<>> /\ a \o b = a
  BY <1>2, <1>3, NothingOnTheLine, ConcatEmptySeq
<1>7. \A i \in 1 .. Len(Flow) : Flow[i] \in UnitIn
  BY <1>4, <1>5
<1>8. Flow = <<>> <=> got = <<>> /\ rx = <<>> /\ wire = <<>>
  <2>1. /\ Flow = <<>> <=> Len(Flow) = 0
        /\ got = <<>> <=> Len(got) = 0
        /\ rx = <<>> <=> Len(rx) = 0
        /\ wire = <<>> <=> Len(wire) = 0
    BY <1>1, <1>4, <1>5, Empty
  <2>2. Len(Flow) = Len(got) + Len(rx) + Len(wire)
    BY <1>3, <1>4, <1>5
  <2> QED
    BY <1>3, <2>1, <2>2
<1> QED
  BY <1>2, <1>3, <1>4, <1>5, <1>6, <1>7, <1>8

\* Taking units from the front of a flow leaves what is left as it is.
LEMMA WholeRest ==
  ASSUME NEW q \in Seq(UnitIn), WholeCommands(q), NEW n \in 0 .. Len(q)
  PROVE  /\ WholeCommands(Rest(q, n))
         /\ \A i \in 1 .. Len(q) - n : LastOf(Rest(q, n), i) = LastOf(q, n + i) - n
<1>1. PICK r : r = Rest(q, n)
  OBVIOUS
<1>2. /\ r \in Seq(UnitIn) /\ Len(r) = Len(q) - n /\ Len(q) \in Nat /\ n \in Nat
      /\ \A i \in 1 .. Len(q) - n : r[i] = q[n + i]
  <2>1. Len(q) \in Nat /\ n \in Nat
    OBVIOUS
  <2>2. /\ Rest(q, n) \in Seq(UnitIn) /\ Len(Rest(q, n)) = Len(q) - n
        /\ \A i \in 1 .. Len(q) - n : Rest(q, n)[i] = q[n + i]
    BY RestFacts
  <2> QED
    BY <1>1, <2>1, <2>2
<1>3. ASSUME NEW i \in 1 .. Len(r)
      PROVE  /\ n + i \in 1 .. Len(q) /\ q[n + i].part \in Nat /\ Size(q[n + i].kind) \in Nat
             /\ LastOf(r, i) = LastOf(q, n + i) - n
             /\ LastOf(q, n + i) \in Int
  <2>1. n + i \in 1 .. Len(q) /\ r[i] = q[n + i]
    BY <1>2
  <2>2. q[n + i] \in UnitIn
    BY <2>1
  <2>3. q[n + i].part \in Nat /\ Size(q[n + i].kind) \in Nat
    BY <2>2, UnitFields, SizeFacts
  <2> QED
    BY <1>2, <2>1, <2>3 DEF LastOf
<1>4. ASSUME NEW i \in 1 .. Len(r)
      PROVE  /\ r[i].part <= Size(r[i].kind)
             /\ LastOf(r, i) <= Len(r)
             /\ \A j \in i .. LastOf(r, i) : r[j] = [r[i] EXCEPT !.part = r[i].part + (j - i)]
             /\ LastOf(r, i) < Len(r) => r[LastOf(r, i) + 1].part = 1
  <2>1. PICK k : k = n + i
    OBVIOUS
  <2>2. /\ k \in 1 .. Len(q) /\ r[i] = q[k] /\ LastOf(r, i) = LastOf(q, k) - n
        /\ LastOf(q, k) \in Int /\ k = n + i /\ q[k].part \in Nat /\ Size(q[k].kind) \in Nat
    BY <1>2, <1>3, <2>1
  <2>3. /\ q[k].part <= Size(q[k].kind)
        /\ LastOf(q, k) <= Len(q)
        /\ \A j \in k .. LastOf(q, k) : q[j] = [q[k] EXCEPT !.part = q[k].part + (j - k)]
        /\ LastOf(q, k) < Len(q) => q[LastOf(q, k) + 1].part = 1
    BY <2>2 DEF WholeCommands
  <2>4. LastOf(r, i) <= Len(r)
    BY <1>2, <2>2, <2>3
  <2>5. ASSUME NEW j \in i .. LastOf(r, i)
        PROVE  r[j] = [r[i] EXCEPT !.part = r[i].part + (j - i)]
    <3>1. /\ n + j \in k .. LastOf(q, k) /\ (n + j) - k = j - i /\ j \in 1 .. Len(q) - n
      BY <1>2, <2>2, <2>4
    <3>2. q[n + j] = [q[k] EXCEPT !.part = q[k].part + ((n + j) - k)]
      BY <2>3, <3>1
    <3> QED
      BY <1>2, <2>2, <3>1, <3>2
  <2>6. ASSUME LastOf(r, i) < Len(r) PROVE r[LastOf(r, i) + 1].part = 1
    <3>1. /\ LastOf(r, i) + 1 \in 1 .. Len(q) - n /\ LastOf(q, k) < Len(q)
          /\ n + (LastOf(r, i) + 1) = LastOf(q, k) + 1
      <4>1. k <= LastOf(q, k)
        BY SMTT(30), <2>2, <2>3 DEF LastOf
      <4> QED
        BY SMTT(30), <1>2, <2>2, <2>6, <4>1
    <3> QED
      BY <1>2, <2>3, <3>1
  <2> QED
    BY <2>2, <2>3, <2>4, <2>5, <2>6
<1> QED
  BY <1>1, <1>2, <1>3, <1>4 DEF WholeCommands

\* A whole command may follow whole commands.
LEMMA WholeJoined ==
  ASSUME NEW q \in Seq(UnitIn), WholeCommands(q),
         NEW b \in Seq(UnitIn), WholeCommands(b), b # <<>> => b[1].part = 1
  PROVE  /\ WholeCommands(q \o b)
         /\ \A i \in 1 .. Len(b) : LastOf(q \o b, Len(q) + i) = Len(q) + LastOf(b, i)
<1>1. PICK l : l = q \o b
  OBVIOUS
<1>2. /\ l \in Seq(UnitIn) /\ Len(l) = Len(q) + Len(b) /\ Len(q) \in Nat /\ Len(b) \in Nat
      /\ \A i \in 1 .. Len(q) : l[i] = q[i]
      /\ \A i \in 1 .. Len(b) : l[Len(q) + i] = b[i]
  BY <1>1, Joined
<1>3. ASSUME NEW i \in 1 .. Len(b)
      PROVE  /\ LastOf(l, Len(q) + i) = Len(q) + LastOf(b, i) /\ LastOf(b, i) \in Int
             /\ b[i].part \in Nat /\ Size(b[i].kind) \in Nat
  <2>1. b[i] \in UnitIn /\ l[Len(q) + i] = b[i]
    BY <1>2
  <2>2. b[i].part \in Nat /\ Size(b[i].kind) \in Nat
    BY <2>1, UnitFields, SizeFacts
  <2> QED
    BY SMTT(30), <1>2, <2>1, <2>2 DEF LastOf
<1>4. ASSUME NEW i \in 1 .. Len(q)
      PROVE  LastOf(l, i) = LastOf(q, i) /\ LastOf(q, i) \in Int /\ i <= LastOf(q, i)
  <2>1. q[i] \in UnitIn /\ l[i] = q[i]
    BY <1>2
  <2>2. q[i].part \in Nat /\ Size(q[i].kind) \in Nat /\ q[i].part <= Size(q[i].kind)
    BY <2>1, UnitFields, SizeFacts DEF WholeCommands
  <2> QED
    BY <1>2, <2>1, <2>2 DEF LastOf
<1> DEFINE Good(i) ==
             /\ l[i].part <= Size(l[i].kind)
             /\ LastOf(l, i) <= Len(l)
             /\ \A j \in i .. LastOf(l, i) : l[j] = [l[i] EXCEPT !.part = l[i].part + (j - i)]
             /\ LastOf(l, i) < Len(l) => l[LastOf(l, i) + 1].part = 1
<1>5. ASSUME NEW i \in 1 .. Len(q) PROVE Good(i)
  <2>1. /\ q[i].part <= Size(q[i].kind)
        /\ LastOf(q, i) <= Len(q)
        /\ \A j \in i .. LastOf(q, i) : q[j] = [q[i] EXCEPT !.part = q[i].part + (j - i)]
        /\ LastOf(q, i) < Len(q) => q[LastOf(q, i) + 1].part = 1
    BY DEF WholeCommands
  <2>2. \A j \in i .. LastOf(l, i) : j \in 1 .. Len(q) /\ l[j] = q[j]
    BY <1>2, <1>4, <2>1
  <2>3. l[i] = q[i] /\ LastOf(l, i) = LastOf(q, i)
    BY <1>2, <1>4
  <2>4. ASSUME LastOf(l, i) < Len(l) PROVE l[LastOf(l, i) + 1].part = 1
    <3>1. CASE LastOf(q, i) < Len(q)
      <4>1. LastOf(q, i) + 1 \in 1 .. Len(q)
        BY <1>4, <2>1, <3>1
      <4> QED
        BY <1>2, <2>1, <2>3, <3>1, <4>1
    <3>2. CASE LastOf(q, i) = Len(q)
      <4>1. 1 \in 1 .. Len(b)
        BY <1>2, <2>3, <2>4, <3>2
      <4>2. b # <<>> /\ l[Len(q) + 1] = b[1]
        BY <1>2, <4>1
      <4> QED
        BY <2>3, <3>2, <4>2
    <3> QED
      BY <1>2, <1>4, <2>1, <3>1, <3>2
  <2> QED
    BY SMTT(30), <1>2, <1>4, <2>1, <2>2, <2>3, <2>4
<1>6. ASSUME NEW i \in 1 .. Len(b) PROVE Good(Len(q) + i)
  <2>1. PICK k : k = Len(q) + i
    OBVIOUS
  <2>2. /\ k \in Nat /\ l[k] = b[i] /\ LastOf(l, k) = Len(q) + LastOf(b, i) /\ LastOf(b, i) \in Int
        /\ b[i].part \in Nat
    BY <1>2, <1>3, <2>1
  <2>3. /\ b[i].part <= Size(b[i].kind)
        /\ LastOf(b, i) <= Len(b)
        /\ \A j \in i .. LastOf(b, i) : b[j] = [b[i] EXCEPT !.part = b[i].part + (j - i)]
        /\ LastOf(b, i) < Len(b) => b[LastOf(b, i) + 1].part = 1
    BY DEF WholeCommands
  <2>4. ASSUME NEW j \in k .. LastOf(l, k)
        PROVE  l[j] = [l[k] EXCEPT !.part = l[k].part + (j - k)]
    <3>1. /\ j - Len(q) \in i .. LastOf(b, i) /\ (j - Len(q)) - i = j - k
          /\ j - Len(q) \in 1 .. Len(b) /\ Len(q) + (j - Len(q)) = j
      <4>1. /\ Len(q) \in Nat /\ Len(b) \in Nat /\ i \in Nat /\ i > 0 /\ k = Len(q) + i
            /\ LastOf(b, i) \in Int /\ LastOf(b, i) <= Len(b)
            /\ j \in k .. Len(q) + LastOf(b, i) /\ j \in Int
        BY <1>2, <2>1, <2>2, <2>3, <2>4
      <4> QED
        BY ONLY <4>1
    <3>2. l[j] = b[j - Len(q)]
      BY <1>2, <3>1
    <3>3. b[j - Len(q)] = [b[i] EXCEPT !.part = b[i].part + ((j - Len(q)) - i)]
      BY <2>3, <3>1
    <3> QED
      BY <2>2, <3>1, <3>2, <3>3
  <2>5. ASSUME LastOf(l, k) < Len(l) PROVE l[LastOf(l, k) + 1].part = 1
    <3>1. i <= LastOf(b, i)
      BY <1>3, <2>3 DEF LastOf
    <3>2. LastOf(b, i) < Len(b) /\ LastOf(b, i) + 1 \in 1 .. Len(b)
          /\ LastOf(l, k) + 1 = Len(q) + (LastOf(b, i) + 1)
      BY SMTT(30), <1>2, <2>2, <2>5, <3>1
    <3> QED
      BY <1>2, <2>3, <3>2
  <2>6. LastOf(l, k) <= Len(l)
    BY <1>2, <2>2, <2>3
  <2> QED
    BY <2>1, <2>2, <2>3, <2>4, <2>5, <2>6
<1>7. ASSUME NEW i \in 1 .. Len(l) PROVE Good(i)
  <2>1. CASE i <= Len(q)
    BY <1>2, <1>5, <2>1
  <2>2. CASE i > Len(q)
    <3>1. i - Len(q) \in 1 .. Len(b) /\ Len(q) + (i - Len(q)) = i
      BY <1>2, <2>2
    <3> HIDE DEF Good
    <3>2. Good(Len(q) + (i - Len(q)))
      BY <1>6, <3>1
    <3> QED
      BY <3>1, <3>2
  <2> QED
    BY <1>2, <2>1, <2>2
<1> QED
  BY <1>1, <1>3, <1>7 DEF WholeCommands

\* A command as the tty will have received it.
LEMMA CommandFacts ==
  ASSUME NEW k \in Kinds, NEW l \in Lengths, NEW id \in 1 .. MaxCommands
  PROVE  /\ Bytes(k, l, id) \in Seq(UnitIn) /\ Len(Bytes(k, l, id)) = Size(k)
         /\ OnTheLine(Bytes(k, l, id)) \in Seq(UnitIn)
         /\ Len(OnTheLine(Bytes(k, l, id))) = Size(k)
         /\ \A i \in 1 .. Size(k) :
              /\ OnTheLine(Bytes(k, l, id))[i]
                   = [kind |-> k, lba |-> Received(l), id |-> id, part |-> i]
              /\ LastOf(OnTheLine(Bytes(k, l, id)), i) = Size(k)
         /\ WholeCommands(OnTheLine(Bytes(k, l, id)))
<1>1. Size(k) \in HeaderUnits .. HeaderUnits + PayloadUnits /\ Size(k) \in Nat
      /\ HeaderUnits \in Nat /\ PayloadUnits \in Nat
  BY SizeFacts
<1>2. \A i \in 1 .. Size(k) : [kind |-> k, lba |-> l, id |-> id, part |-> i] \in UnitIn
  BY <1>1 DEF UnitIn
<1>3. Bytes(k, l, id) =
        [i \in 1 .. Size(k) |-> [kind |-> k, lba |-> l, id |-> id, part |-> i]]
  BY DEF Bytes, Size
<1>4. PICK b, o : b = Bytes(k, l, id) /\ o = OnTheLine(b)
  OBVIOUS
<1>5. /\ b \in Seq(UnitIn) /\ Len(b) = Size(k)
      /\ \A i \in 1 .. Size(k) : b[i] = [kind |-> k, lba |-> l, id |-> id, part |-> i]
  BY <1>1, <1>2, <1>3, <1>4
<1>6. /\ o \in Seq(UnitIn) /\ Len(o) = Size(k)
      /\ \A i \in 1 .. Size(k) : o[i] = [b[i] EXCEPT !.lba = Received(b[i].lba)]
  BY <1>4, <1>5, OnTheLineFacts
<1>7. \A i \in 1 .. Size(k) : o[i] = [kind |-> k, lba |-> Received(l), id |-> id, part |-> i]
  BY <1>5, <1>6
<1>8. \A i \in 1 .. Size(k) : LastOf(o, i) = Size(k) /\ o[i].part = i /\ o[i].kind = k
  <2> TAKE i \in 1 .. Size(k)
  <2>0. o[i] = [kind |-> k, lba |-> Received(l), id |-> id, part |-> i]
    BY <1>7
  <2>1. o[i].part = i /\ o[i].kind = k
    BY <2>0
  <2>2. i + Size(k) - i = Size(k)
    BY <1>1
  <2> QED
    BY <2>1, <2>2 DEF LastOf
<1>9. WholeCommands(o)
  BY <1>1, <1>6, <1>7, <1>8 DEF WholeCommands
<1> QED
  BY <1>4, <1>5, <1>6, <1>7, <1>8, <1>9

-----------------------------------------------------------------------------
(* What the loop has still to say *)

\* Commands that get no answer.
Quiet(kind, lba) == AnswerLen(kind, TRUE) = 0 \/ (kind = "stream" /\ lba = 0)

StreamDone == do_stream => stream_offset >= stream_end

\* The unit q[i] is one of the command the host waits for, and it is the last command in q.
OfTheAwaited(q, i) ==
  /\ q[i].id = waiting.id /\ q[i].kind = waiting.kind /\ q[i].lba = Received(waiting.lba)
  /\ LastOf(q, i) = Len(q)

\* The awaited command has not been read yet; what is before it gets no answer.
Unread(q) ==
  /\ waiting.blk = 0 /\ waiting.part = 1
  /\ \A i \in 1 .. Len(q) :
       OfTheAwaited(q, i) \/ (q[i].id # waiting.id /\ Quiet(q[i].kind, q[i].lba))
  /\ \E i \in 1 .. Len(q) : q[i].id = waiting.id /\ q[i].part = 1

\* It is in hand, its payload perhaps yet to come.
InHand(q) ==
  /\ waiting.blk = 0 /\ waiting.part = 1
  /\ cmd.id = waiting.id /\ cmd.kind = waiting.kind /\ cmd.lba = Received(waiting.lba)
  /\ \/ PayloadNext /\ Len(q) = PayloadUnits
     \/ (pc = "write" \/ (pc = "command" /\ cmd.kind # "write")) /\ q = <<>>

\* v is the unit the host expects after u.
Follows(u, v) ==
  IF u.part < AnswerLen(waiting.kind, u.ok)
  THEN v.part = u.part + 1 /\ v.blk = u.blk /\ v.ok = u.ok
  ELSE /\ v.part = 1 /\ v.blk = u.blk + 1
       /\ waiting.kind = "stream" /\ u.ok /\ u.blk + 1 < waiting.lba

\* The queue holds the rest of the answer from the unit the host expects next.
Answered ==
  /\ \A i \in 1 .. Len(tx) : tx[i].id = waiting.id
  /\ tx # <<>> => tx[1].blk = waiting.blk /\ tx[1].part = waiting.part
  /\ \A i \in 1 .. Len(tx) - 1 : Follows(tx[i], tx[i + 1])
  /\ tx # <<>> => tx[Len(tx)].part = AnswerLen(waiting.kind, tx[Len(tx)].ok)
  /\ IF waiting.kind = "stream"
     THEN /\ stream_of = waiting.id /\ stream_end <= waiting.lba
          /\ tx = <<>> => waiting.part = 1 /\ waiting.blk = stream_offset
          /\ tx # <<>> => IF tx[Len(tx)].ok THEN stream_offset = tx[Len(tx)].blk + 1
                                            ELSE ~do_stream
     ELSE tx # <<>> /\ StreamDone

\* Nothing is in hand that would be answered.
Quieted == pc \notin {"payload", "write"} /\ (pc = "command" => Quiet(cmd.kind, cmd.lba))

Silent == tx = <<>> /\ StreamDone

Faultless == faults \cap {"host", "late", "read", "write"} = {}

StepInv ==
  Faultless =>
    /\ ~confused
    /\ \A i \in 1 .. Len(Flow) : Flow[i].id <= sent
    /\ IF waiting = NoCommand
       THEN Silent /\ Quieted /\ \A i \in 1 .. Len(Flow) : Quiet(Flow[i].kind, Flow[i].lba)
       ELSE /\ waiting.id = sent /\ waiting.kind # "other"
            /\ \/ Silent /\ Unread(Flow) /\ Quieted
               \/ Silent /\ InHand(Flow)
               \/ Answered /\ Flow = <<>> /\ pc \in {"loop", "select", "exit", "done"}

\* Only a WRITE_FLASH reads a payload.
PayloadInv == pc \in {"payload", "write"} => cmd.kind = "write"

\* The inductive invariant of the command loop.
SerialInv == TypeOK /\ PayloadInv /\ FrameInv /\ StepInv

-----------------------------------------------------------------------------
(* The queue of answers *)

LEMMA AnswerLenType ==
  ASSUME NEW kind \in AllKinds, NEW ok \in BOOLEAN
  PROVE  /\ AnswerLen(kind, ok) \in 0 .. 1 + DataUnits
         /\ AnswerLen(kind, ok) = 0 <=> kind = "other"
         /\ AnswerLen(kind, TRUE) = 0 <=> kind = "other"
         /\ kind = "stream" => AnswerLen(kind, ok) = IF ok THEN 1 + DataUnits ELSE 1
<1>1. DataUnits \in Nat \ {0}
  BY SerialAssumption
<1> QED
  BY <1>1 DEF AnswerLen

LEMMA FrameType ==
  ASSUME NEW id \in 0 .. MaxCommands, NEW blk \in Nat, NEW ok \in BOOLEAN,
         NEW len \in 0 .. 1 + DataUnits
  PROVE  /\ Frame(id, blk, ok, len) \in Seq(UnitOut) /\ Len(Frame(id, blk, ok, len)) = len
         /\ \A i \in 1 .. len :
              Frame(id, blk, ok, len)[i] = [id |-> id, blk |-> blk, ok |-> ok, part |-> i]
<1>1. len \in Nat
  BY SerialAssumption
<1>2. \A i \in 1 .. len : [id |-> id, blk |-> blk, ok |-> ok, part |-> i] \in UnitOut
  BY SerialAssumption DEF UnitOut
<1> QED
  BY <1>1, <1>2 DEF Frame

LEMMA FaultFacts ==
  ASSUME NEW kind \in FaultKinds, faults \subseteq FaultKinds, Fault(kind)
  PROVE  kind \in faults' /\ faults \subseteq faults' /\ faults' \subseteq FaultKinds
  BY DEF Fault

LEMMA SendFacts ==
  ASSUME tx \in Seq(UnitOut), faults \subseteq FaultKinds, NEW units \in Seq(UnitOut),
         Send(units) \/ (units # <<>> /\ StatusLost(units))
  PROVE  /\ tx' \in Seq(UnitOut) /\ Len(tx') <= TxCapacity
         /\ faults \subseteq faults' /\ faults' \subseteq FaultKinds
         /\ "write" \notin faults' => tx' = tx \o units
<1>1. /\ Len(tx) \in Nat /\ Len(units) \in Nat /\ Len(tx) + Len(units) <= TxCapacity
      /\ TxCapacity \in Nat /\ "write" \in FaultKinds
  BY SerialAssumption DEF Send, StatusLost, Room, FaultKinds
<1>2. CASE tx' = tx \o units /\ UNCHANGED faults
  BY <1>1, <1>2, Joined
<1>3. ASSUME Fault("write"), NEW part \in Seq(UnitOut), Len(part) <= Len(units), tx' = tx \o part
      PROVE  tx' \in Seq(UnitOut) /\ Len(tx') <= TxCapacity
  <2>1. tx' \in Seq(UnitOut) /\ Len(tx') = Len(tx) + Len(part) /\ Len(part) \in Nat
    BY <1>3, Joined
  <2> QED
    BY <1>1, <1>3, <2>1
<1>4. CASE Fault("write") /\ \E n \in 0 .. Len(units) - 1 : tx' = tx \o SubSeq(units, 1, n)
  <2>1. PICK n \in 0 .. Len(units) - 1 : tx' = tx \o SubSeq(units, 1, n)
    BY <1>4
  <2>2. /\ SubSeq(units, 1, n) \in Seq(UnitOut) /\ Len(SubSeq(units, 1, n)) = n
    BY <1>1, Cut
  <2>3. tx' \in Seq(UnitOut) /\ Len(tx') <= TxCapacity
    BY <1>1, <1>3, <1>4, <2>1, <2>2
  <2> QED
    BY <1>1, <1>4, <2>3, FaultFacts
<1>5. CASE units # <<>> /\ StatusLost(units)
  <2>1. Tail(units) \in Seq(UnitOut) /\ Len(Tail(units)) <= Len(units)
    BY <1>1, <1>5, HeadAndTail
  <2>2. tx' \in Seq(UnitOut) /\ Len(tx') <= TxCapacity
    BY <1>3, <1>5, <2>1 DEF StatusLost
  <2> QED
    BY <1>1, <1>5, <2>2, FaultFacts DEF StatusLost
<1> QED
  BY <1>2, <1>4, <1>5 DEF Send

\* What may go wrong only gets more.
LEMMA FaultsRemain ==
  ASSUME faults \subseteq faults'
  PROVE  (Unbroken' => Unbroken) /\ (Faultless' => Faultless) /\ (Faultless => Unbroken)
         /\ (Faultless' => "write" \notin faults')
  BY DEF Unbroken, Faultless

LEMMA SmcStarted == \A p \in PinType : StartSmc(p) \in PinType
  BY DEF PinType, StartSmc, PutDbg, PutRst, SpiDown

LEMMA SerialInit == Init => SerialInv
<1> SUFFICES ASSUME Init PROVE SerialInv
  OBVIOUS
<1>1. InitPins(Undriven) \in PinType
  BY DEF InitPins, PutSs, PutRst, PutDbg, Undriven, PinType
<1>2. /\ wire \in Seq(UnitIn) /\ rx \in Seq(UnitIn) /\ got \in Seq(UnitIn) /\ tx \in Seq(UnitOut)
      /\ Len(tx) <= TxCapacity
  BY SerialAssumption DEF Init
<1>3. /\ sent \in 0 .. MaxCommands /\ stream_end \in Nat /\ stream_of \in 0 .. MaxCommands
      /\ stream_offset \in 0 .. stream_end
      /\ cmd \in [kind : AllKinds, lba : Nat, id : 0 .. MaxCommands]
  BY SerialAssumption DEF Init, Stray, AllKinds
<1>4. TypeOK
  BY <1>1, <1>2, <1>3, Zenon DEF Init, TypeOK
<1>5. Flow = <<>>
  BY <1>4, FlowFacts DEF Init
<1>6. PayloadInv /\ FrameInv
  BY <1>5 DEF Init, PayloadInv, FrameInv, PayloadNext, WholeCommands
<1>7. StepInv
  BY <1>5 DEF Init, StepInv, Silent, StreamDone, Quieted
<1> QED
  BY <1>4, <1>6, <1>7 DEF SerialInv

-----------------------------------------------------------------------------
(* The host and the line *)

\* A step that leaves the flow, the place of the loop and the faults alone.
LEMMA FrameKept ==
  ASSUME FrameInv, faults \subseteq faults',
         Flow' = Flow, UNCHANGED <<pc, cmd, aligned, got>>, rx' = rx \/ rx' # <<>>
  PROVE  FrameInv'
<1>1. Unbroken' => Unbroken
  BY FaultsRemain
<1> QED
  BY <1>1 DEF FrameInv, PayloadNext, WholeCommands, LastOf

LEMMA SendStep == ASSUME SerialInv, HostSends PROVE SerialInv'
<1> USE DEF SerialInv
<1>1. PICK k \in Kinds, l \in Lengths :
        /\ wire' = Bytes(k, l, sent + 1)
        /\ waiting' = IF Quiet(k, l) THEN NoCommand
                      ELSE [id |-> sent + 1, kind |-> k, lba |-> l, blk |-> 0, part |-> 1]
  BY DEF HostSends, Quiet
<1>2. /\ waiting = NoCommand /\ wire = <<>> /\ sent < MaxCommands /\ sent' = sent + 1
      /\ UNCHANGED <<faults, rx, tx, running, pc, got, cmd, streamVars, pins, aligned, confused>>
  BY DEF HostSends
<1>3. /\ sent \in Nat /\ sent + 1 \in 1 .. MaxCommands /\ sent' \in 0 .. MaxCommands
      /\ k \in AllKinds /\ l \in Nat
  BY <1>2, SerialAssumption DEF TypeOK
<1>4. wire' \in Seq(UnitIn)
  BY <1>1, <1>3, CommandFacts
<1>5. TypeOK'
  <2>1. waiting' \in {NoCommand} \cup
          [id : 1 .. MaxCommands, kind : Kinds, lba : Lengths, blk : Nat, part : 1 .. 1 + DataUnits]
    BY <1>1, <1>3, SerialAssumption
  <2> QED
    BY <1>2, <1>3, <1>4, <2>1 DEF TypeOK, streamVars
<1>6. PICK q, b : q = Flow /\ b = OnTheLine(wire')
  OBVIOUS
<1>7. PICK f : f = q \o b
  OBVIOUS
<1>13. /\ q \in Seq(UnitIn) /\ Len(q) \in Nat /\ q = got \o rx /\ Flow' = f
  <2>1. q \in Seq(UnitIn) /\ Len(q) \in Nat /\ q = got \o rx
    BY <1>2, <1>6, FlowFacts
  <2>2. Flow' = (got' \o rx') \o b
    BY <1>6 DEF Flow
  <2> QED
    BY <1>2, <1>7, <2>1, <2>2
<1>8. /\ b \in Seq(UnitIn) /\ Len(b) = Size(k) /\ Size(k) \in Nat \ {0} /\ WholeCommands(b)
      /\ \A i \in 1 .. Size(k) :
           /\ b[i] = [kind |-> k, lba |-> Received(l), id |-> sent + 1, part |-> i]
           /\ LastOf(b, i) = Size(k)
  <2>1. Size(k) \in Nat \ {0}
    BY SizeFacts
  <2> QED
    BY <1>1, <1>3, <1>6, <2>1, CommandFacts
<1>9. /\ f \in Seq(UnitIn) /\ Len(f) = Len(q) + Size(k)
      /\ \A i \in 1 .. Len(q) : f[i] = q[i]
      /\ \A i \in 1 .. Size(k) : f[Len(q) + i] = b[i]
  <2>1. q \in Seq(UnitIn) /\ b \in Seq(UnitIn)
    BY <1>13, <1>8
  <2>2. /\ q \o b \in Seq(UnitIn) /\ Len(q \o b) = Len(q) + Len(b)
        /\ \A i \in 1 .. Len(q) : (q \o b)[i] = q[i]
        /\ \A i \in 1 .. Len(b) : (q \o b)[Len(q) + i] = b[i]
    BY ONLY <2>1, Joined
  <2> QED
    BY <1>7, <1>8, <2>2
<1>10. FrameInv'
  <2> SUFFICES ASSUME Unbroken' PROVE FrameInv'
    BY DEF FrameInv
  <2>1. /\ aligned' /\ WholeCommands(q)
        /\ pc' = "header" => got' # <<>> \/ rx' # <<>>
        /\ PayloadNext' <=> PayloadNext
        /\ IF PayloadNext THEN q # <<>> /\ q[1].part = HeaderUnits + 1 /\ q[1].kind = "write"
                          ELSE q # <<>> => q[1].part = 1
    BY <1>2, <1>6 DEF FrameInv, Unbroken, PayloadNext
  <2>2. b[1].part = 1
    BY <1>8
  <2>3. WholeCommands(f)
    BY <1>13, <1>7, <1>8, <2>1, <2>2, WholeJoined
  <2>4. f # <<>> /\ f[1] = IF q = <<>> THEN b[1] ELSE q[1]
    BY <1>13, <1>8, <1>9
  <2> QED
    BY <1>13, <2>1, <2>2, <2>3, <2>4 DEF FrameInv
<1>11. StepInv'
  <2> SUFFICES ASSUME Faultless' PROVE StepInv'
    BY DEF StepInv
  <2>1. /\ ~confused' /\ Silent' /\ Quieted'
        /\ \A i \in 1 .. Len(q) : q[i].id <= sent /\ Quiet(q[i].kind, q[i].lba)
        /\ WholeCommands(q)
    BY <1>2, <1>6
    DEF StepInv, FrameInv, Unbroken, Faultless, Silent, StreamDone, Quieted, streamVars
  <2>2. \A i \in 1 .. Len(q) : q[i].id \in Nat
    BY <1>13, UnitFields
  <2>3. ASSUME NEW i \in 1 .. Len(q) + Size(k) PROVE f[i].id <= sent'
    <3>1. CASE i \in 1 .. Len(q)
      BY <1>2, <1>3, <1>9, <2>1, <2>2, <3>1
    <3>2. CASE i \notin 1 .. Len(q)
      <4>1. i - Len(q) \in 1 .. Size(k) /\ Len(q) + (i - Len(q)) = i
        BY <1>13, <1>8, <3>2
      <4>2. f[i] = b[i - Len(q)] /\ b[i - Len(q)].id = sent + 1
        BY <1>8, <1>9, <4>1
      <4> QED
        BY <1>2, <1>3, <4>2
    <3> QED
      BY <3>1, <3>2
  <2>4. CASE Quiet(k, l)
    <3>1. Quiet(k, Received(l))
      <4>1. l = 0 => Received(l) = 0
        BY ReceivedFacts
      <4> QED
        BY <2>4, <4>1 DEF Quiet
    <3>2. ASSUME NEW i \in 1 .. Len(q) + Size(k)
          PROVE  Quiet(f[i].kind, f[i].lba)
      <4>1. CASE i \in 1 .. Len(q)
        BY <1>13, <1>9, <2>1, <4>1
      <4>2. CASE i \notin 1 .. Len(q)
        <5>1. i - Len(q) \in 1 .. Size(k) /\ Len(q) + (i - Len(q)) = i
          BY <1>13, <1>8, <4>2
        <5> QED
          BY <1>13, <1>8, <1>9, <3>1, <4>2, <5>1
      <4> QED
        BY <4>1, <4>2
    <3> QED
      BY <1>1, <1>13, <1>9, <2>1, <2>3, <2>4, <3>2 DEF StepInv
  <2>5. CASE ~Quiet(k, l)
    <3>1. /\ waiting' = [id |-> sent', kind |-> k, lba |-> l, blk |-> 0, part |-> 1]
          /\ waiting' # NoCommand /\ k # "other"
      <4>1. k # "other"
        BY <1>3, <2>5, AnswerLenType DEF Quiet
      <4> QED
        BY <1>1, <1>2, <1>3, <2>5, <4>1, NoCommandAssumption
    <3>2. ASSUME NEW i \in 1 .. Len(q) + Size(k)
          PROVE  \/ OfTheAwaited(f, i)'
                 \/ f[i].id # waiting'.id /\ Quiet(f[i].kind, f[i].lba)
      <4>1. CASE i \in 1 .. Len(q)
        <5>1. f[i] = q[i] /\ q[i].id <= sent /\ q[i].id \in Nat /\ Quiet(q[i].kind, q[i].lba)
          BY <1>9, <2>1, <2>2, <4>1
        <5>2. waiting'.id = sent + 1
          BY <1>2, <3>1
        <5> QED
          BY <1>3, <5>1, <5>2
      <4>2. CASE i \notin 1 .. Len(q)
        <5>1. i - Len(q) \in 1 .. Size(k) /\ Len(q) + (i - Len(q)) = i
          BY <1>13, <1>8, <4>2
        <5>2. f[i] = [kind |-> k, lba |-> Received(l), id |-> sent + 1, part |-> i - Len(q)]
          BY <1>13, <1>8, <1>9, <4>2, <5>1
        <5>3. LastOf(f, i) = Len(q) + Size(k)
          <6>1. Size(k) \in Nat /\ Len(q) \in Nat /\ i \in Nat
            BY <1>13, <1>8
          <6>2. i + Size(k) - (i - Len(q)) = Len(q) + Size(k)
            BY ONLY <6>1
          <6> QED
            BY <5>2, <6>2 DEF LastOf
        <5> QED
          BY <1>2, <1>9, <3>1, <5>2, <5>3 DEF OfTheAwaited
      <4> QED
        BY <4>1, <4>2
    <3>3. /\ Len(q) + 1 \in 1 .. Len(q) + Size(k)
          /\ f[Len(q) + 1].id = waiting'.id /\ f[Len(q) + 1].part = 1
      BY SMTT(30), <1>2, <1>13, <1>8, <1>9, <3>1
    <3>4. Unread(Flow)'
      BY <1>13, <1>9, <3>1, <3>2, <3>3 DEF Unread
    <3> QED
      BY <1>13, <1>9, <2>1, <2>3, <3>1, <3>4 DEF StepInv
  <2> QED
    BY <2>4, <2>5
<1>12. PayloadInv'
  BY <1>2 DEF PayloadInv
<1> QED
  BY <1>5, <1>10, <1>11, <1>12

LEMMA StopStep == ASSUME SerialInv, HostStops PROVE SerialInv'
<1>1. /\ wire' = <<>> /\ waiting' = NoCommand
      /\ UNCHANGED <<sent, rx, tx, running, pc, got, cmd, streamVars, pins, aligned, confused>>
      /\ Fault("host")
  BY DEF HostStops
<1>2. "host" \in faults' /\ faults' \subseteq FaultKinds
  BY <1>1, FaultFacts DEF SerialInv, TypeOK, FaultKinds
<1>3. TypeOK'
  BY <1>1, <1>2 DEF SerialInv, TypeOK, streamVars
<1>4. PayloadInv' /\ FrameInv' /\ StepInv'
  BY <1>1, <1>2 DEF SerialInv, PayloadInv, FrameInv, StepInv, Unbroken, Faultless
<1> QED
  BY <1>3, <1>4 DEF SerialInv

\* The places of the loop where no command is in hand, and none is being read.
Between == {"loop", "select", "exit", "done"}

\* A step to another place of the loop where the same is to come.
LEMMA FrameBetween ==
  ASSUME FrameInv, faults \subseteq faults', Flow' = Flow, aligned' = aligned,
         PayloadNext' <=> PayloadNext, pc' = "header" => rx' # <<>>
  PROVE  FrameInv'
<1>1. Unbroken' => Unbroken
  BY FaultsRemain
<1> QED
  BY <1>1 DEF FrameInv, WholeCommands, LastOf

\* A step that says and hears nothing, and goes no further with a command.
LEMMA StepKept ==
  ASSUME StepInv, faults \subseteq faults', Flow' = Flow,
         UNCHANGED <<waiting, sent, tx, stream_offset, stream_end, stream_of, cmd, confused>>,
         do_stream' => do_stream,
         \/ pc' = pc
         \/ pc \in Between \cup {"header"} /\ pc' \in Between
         \/ pc \in Between /\ pc' = "header" /\ Flow # <<>>
  PROVE  StepInv'
<1> SUFFICES ASSUME Faultless' PROVE StepInv'
  BY DEF StepInv
<1>1. Faultless
  BY FaultsRemain
<1>2. PICK q : q = Flow
  OBVIOUS
<1>3. ~confused' /\ \A i \in 1 .. Len(q) : q[i].id <= sent'
  BY <1>1, <1>2 DEF StepInv
<1>4. (Silent => Silent') /\ (Quieted => Quieted')
  BY DEF Silent, StreamDone, Quieted, Between
<1>5. CASE waiting = NoCommand
  BY <1>1, <1>2, <1>3, <1>4, <1>5 DEF StepInv
<1>6. CASE waiting # NoCommand
  <2>1. waiting'.id = sent' /\ waiting'.kind # "other"
    BY <1>1, <1>6 DEF StepInv
  <2>2. Unread(q) => Unread(q)'
    BY DEF Unread, OfTheAwaited
  <2>3. InHand(q) => InHand(q)'
    BY DEF InHand, PayloadNext, Between
  <2>4. Answered => Answered'
    BY DEF Answered, Follows, StreamDone
  <2>5. q = <<>> /\ pc \in Between => pc' \in Between
    BY <1>2 DEF Between
  <2> QED
    BY <1>1, <1>2, <1>3, <1>4, <1>6, <2>1, <2>2, <2>3, <2>4, <2>5 DEF StepInv, Between
<1> QED
  BY <1>5, <1>6

LEMMA ArriveStep == ASSUME SerialInv, Arrive PROVE SerialInv'
<1> USE DEF SerialInv
<1>1. /\ wire # <<>> /\ wire' = Tail(wire)
      /\ rx' = Append(rx, [Head(wire) EXCEPT !.lba = Received(Head(wire).lba)])
      /\ UNCHANGED <<waiting, sent, faults, tx, running, pc, got, cmd, streamVars, pins, aligned,
                     confused>>
  BY DEF Arrive
<1>2. got \in Seq(UnitIn) /\ rx \in Seq(UnitIn) /\ wire \in Seq(UnitIn) /\ faults \subseteq faults'
  BY <1>1 DEF TypeOK
<1>3. PICK o : o = OnTheLine(wire)
  OBVIOUS
<1>4. /\ o \in Seq(UnitIn) /\ o # <<>> /\ rx' = Append(rx, Head(o))
      /\ Tail(o) = OnTheLine(wire')
  <2>1. /\ o \in Seq(UnitIn) /\ Len(o) = Len(wire) /\ rx' = Append(rx, Head(o))
        /\ Tail(o) = OnTheLine(wire')
    BY <1>1, <1>2, <1>3, OnTheLineFacts
  <2>2. Len(o) # 0
    BY <1>1, <1>2, <2>1, Empty
  <2> QED
    BY <2>1, <2>2
<1>5. Flow' = Flow
  <2>1. PICK first, others : first = Head(o) /\ others = Tail(o)
    OBVIOUS
  <2>2. first \in UnitIn /\ others \in Seq(UnitIn) /\ o = <<first>> \o others
    BY <1>4, <2>1, HeadAndTail
  <2>3. <<first>> \in Seq(UnitIn) /\ rx \o <<first>> \in Seq(UnitIn) /\ got \o rx \in Seq(UnitIn)
    BY <1>2, <2>2
  <2>4. got \o (rx \o <<first>>) = (got \o rx) \o <<first>>
    BY ONLY <1>2, <2>3, ConcatAssociative
  <2>5. ((got \o rx) \o <<first>>) \o others = (got \o rx) \o (<<first>> \o others)
    BY ONLY <2>2, <2>3, ConcatAssociative
  <2>6. rx' = rx \o <<first>>
    BY <1>2, <1>4, <2>1, <2>2, AppendIsConcat
  <2> QED
    BY <1>1, <1>3, <1>4, <2>1, <2>2, <2>4, <2>5, <2>6 DEF Flow
<1>6. rx' \in Seq(UnitIn) /\ rx' # <<>> /\ wire' \in Seq(UnitIn)
  <2>1. Head(o) \in UnitIn /\ Tail(wire) \in Seq(UnitIn)
    BY <1>1, <1>2, <1>4, HeadAndTail
  <2> QED
    BY <1>1, <1>2, <1>4, <2>1, AppendProperties
<1>7. TypeOK'
  BY <1>1, <1>6 DEF TypeOK, streamVars
<1>8. FrameInv'
  BY <1>1, <1>2, <1>5, <1>6, FrameKept
<1>9. StepInv'
  BY <1>1, <1>2, <1>5, StepKept DEF streamVars
<1> QED
  BY <1>1, <1>7, <1>8, <1>9 DEF PayloadInv

\* What the host may be waiting for, and going on with the same answer.
Awaited == [id : 1 .. MaxCommands, kind : Kinds, lba : Lengths, blk : Nat, part : 1 .. 1 + DataUnits]

GoesOn(w, v, blk, part) ==
  /\ v \in Awaited /\ v # NoCommand
  /\ v.id = w.id /\ v.kind = w.kind /\ v.lba = w.lba /\ v.blk = blk /\ v.part = part

LEMMA AwaitedFields ==
  ASSUME NEW w \in Awaited
  PROVE  /\ w # NoCommand /\ w.kind \in AllKinds /\ w.kind \in Kinds /\ w.id \in Nat
         /\ w.lba \in Lengths /\ w.lba \in Nat /\ w.blk \in Nat /\ w.part \in Nat
         /\ w.id \in 1 .. MaxCommands /\ w.part \in 1 .. 1 + DataUnits
<1>1. /\ w.kind \in Kinds /\ w.lba \in Lengths /\ w.id \in 1 .. MaxCommands /\ w.blk \in Nat
      /\ w.part \in 1 .. 1 + DataUnits
  BY DEF Awaited
<1>2. /\ Kinds \subseteq AllKinds /\ Lengths \subseteq Nat /\ MaxCommands \in Nat
      /\ DataUnits \in Nat
  BY SerialAssumption
<1>3. w.kind \in AllKinds /\ w.lba \in Nat /\ w.id \in Nat /\ w.part \in Nat
  <2>1. w.kind \in AllKinds /\ w.lba \in Nat
    BY ONLY <1>1, <1>2
  <2>2. w.id \in Nat
    BY ONLY <1>1, <1>2
  <2>3. w.part \in Nat
    BY ONLY <1>1, <1>2
  <2> QED
    BY <2>1, <2>2, <2>3
<1>4. w \in [id : Nat, kind : AllKinds, lba : Nat, blk : Nat, part : Nat]
  BY <1>1, <1>3 DEF Awaited
<1> QED
  BY <1>1, <1>3, <1>4, NoCommandAssumption

LEMMA AfterFacts ==
  ASSUME waiting \in Awaited, NEW u \in UnitOut, u.blk = waiting.blk, u.part = waiting.part
  PROVE  /\ u.part < AnswerLen(waiting.kind, u.ok) =>
              GoesOn(waiting, After(u), u.blk, u.part + 1)
         /\ ~(u.part < AnswerLen(waiting.kind, u.ok)) =>
              IF waiting.kind = "stream" /\ u.ok /\ u.blk + 1 < waiting.lba
              THEN GoesOn(waiting, After(u), u.blk + 1, 1)
              ELSE After(u) = NoCommand
<1>1. /\ waiting.kind \in AllKinds /\ u.ok \in BOOLEAN /\ u.part \in 1 .. 1 + DataUnits
      /\ waiting.blk \in Nat /\ DataUnits \in Nat
  BY AwaitedFields, SerialAssumption DEF UnitOut
<1>2. AnswerLen(waiting.kind, u.ok) \in 0 .. 1 + DataUnits
  BY <1>1, AnswerLenType
<1>3. ASSUME u.part < AnswerLen(waiting.kind, u.ok)
      PROVE  GoesOn(waiting, After(u), u.blk, u.part + 1)
  <2>1. After(u) = [waiting EXCEPT !.part = waiting.part + 1]
    BY <1>3 DEF After
  <2>2. u.part + 1 \in 1 .. 1 + DataUnits
    BY <1>1, <1>2, <1>3
  <2>3. After(u) \in Awaited
    <3>1. PICK n \in 1 .. 1 + DataUnits : n = u.part + 1
      BY <2>2
    <3>2. After(u) = [waiting EXCEPT !.part = n]
      BY <2>1, <3>1
    <3> QED
      BY ONLY <3>2, waiting \in Awaited, n \in 1 .. 1 + DataUnits DEF Awaited
  <2>4. After(u) # NoCommand
    BY <2>3, AwaitedFields
  <2> QED
    BY <2>1, <2>3, <2>4 DEF GoesOn, Awaited
<1>4. ASSUME ~(u.part < AnswerLen(waiting.kind, u.ok)),
             waiting.kind = "stream" /\ u.ok /\ u.blk + 1 < waiting.lba
      PROVE  GoesOn(waiting, After(u), u.blk + 1, 1)
  <2>1. After(u) = [waiting EXCEPT !.blk = waiting.blk + 1, !.part = 1]
    BY <1>4 DEF After
  <2>2. After(u) \in Awaited
    <3>1. PICK n \in Nat : n = waiting.blk + 1
      BY <1>1
    <3>2. PICK one \in 1 .. 1 + DataUnits : one = 1
      BY <1>1
    <3>3. After(u) = [waiting EXCEPT !.blk = n, !.part = one]
      BY <2>1, <3>1, <3>2
    <3> QED
      BY <3>3 DEF Awaited
  <2>3. After(u) # NoCommand
    BY <2>2, AwaitedFields
  <2> QED
    BY <2>1, <2>2, <2>3 DEF GoesOn, Awaited
<1> QED
  BY <1>3, <1>4 DEF After

LEMMA ReceiveStep == ASSUME SerialInv, HostReceives PROVE SerialInv'
<1> USE DEF SerialInv
<1> DEFINE u == Head(tx)
           expected == /\ waiting # NoCommand
                       /\ u.id = waiting.id /\ u.blk = waiting.blk /\ u.part = waiting.part
<1>1. /\ tx # <<>> /\ tx' = Tail(tx)
      /\ IF expected THEN waiting' = After(u) /\ confused' = confused
                     ELSE confused' = TRUE /\ waiting' = waiting
      /\ UNCHANGED <<wire, sent, faults, rx, running, pc, got, cmd, streamVars, pins, aligned>>
  BY DEF HostReceives
<1>2. /\ tx \in Seq(UnitOut) /\ Len(tx) \in Nat /\ Len(tx) > 0 /\ Len(tx) <= TxCapacity
      /\ u \in UnitOut /\ u = tx[1] /\ tx' \in Seq(UnitOut) /\ Len(tx') = Len(tx) - 1
      /\ \A i \in 1 .. Len(tx) - 1 : tx'[i] = tx[i + 1]
  BY <1>1, HeadAndTail, Empty DEF TypeOK
<1> HIDE DEF u
<1>3. u.id \in 0 .. MaxCommands /\ u.blk \in Nat /\ u.ok \in BOOLEAN /\ u.part \in 1 .. 1 + DataUnits
      /\ u.part \in Int
  BY SMTT(30), <1>2, SerialAssumption DEF UnitOut
<1>4. ASSUME expected
      PROVE  waiting \in Awaited /\ waiting' \in {NoCommand} \cup Awaited
  <2>1. waiting \in Awaited
    BY <1>4 DEF TypeOK, Awaited
  <2> QED
    BY <1>1, <1>2, <1>4, <2>1, AfterFacts DEF GoesOn
<1>5. TypeOK'
  <2>1. waiting' \in {NoCommand} \cup Awaited /\ confused' \in BOOLEAN
    BY <1>1, <1>4 DEF TypeOK, Awaited
  <2>2. tx' \in Seq(UnitOut) /\ Len(tx') <= TxCapacity
    BY <1>2, SerialAssumption
  <2> QED
    BY <1>1, <2>1, <2>2 DEF TypeOK, Awaited, streamVars
<1>6. Flow' = Flow /\ faults \subseteq faults'
  BY <1>1 DEF Flow
<1>7. PayloadInv' /\ FrameInv'
  BY <1>1, <1>6, FrameKept DEF PayloadInv
<1>8. StepInv'
  <2> SUFFICES ASSUME Faultless' PROVE StepInv'
    BY DEF StepInv
  <2>1. ~confused /\ Answered /\ waiting # NoCommand /\ Flow = <<>> /\ pc \in Between
        /\ waiting.id = sent /\ waiting.kind # "other"
    BY <1>1, <1>6, FaultsRemain DEF StepInv, Silent, Between
  <2>2. expected /\ waiting \in Awaited /\ ~confused' /\ waiting' = After(u)
        /\ UNCHANGED <<do_stream, stream_offset, stream_end, stream_of, pc, sent>>
        /\ Flow' = <<>> /\ pc' \in Between
    <3>1. u.id = waiting.id /\ u.blk = waiting.blk /\ u.part = waiting.part
      BY <1>1, <1>2, <2>1 DEF Answered
    <3> QED
      BY <1>1, <1>4, <1>6, <2>1, <3>1 DEF streamVars
  <2>3. u.blk = waiting.blk /\ u.part = waiting.part /\ u.id = waiting.id
    BY <2>2
  <2> HIDE DEF expected
  <2>4. \A i \in 1 .. Len(Flow') : Flow'[i].id <= sent'
    BY <2>2
  <2>5. ASSUME waiting' = NoCommand, Silent' PROVE StepInv'
    <3>1. Quieted'
      BY <2>2 DEF Quieted, Between
    <3>2. \A i \in 1 .. Len(Flow') : Quiet(Flow'[i].kind, Flow'[i].lba)
      BY <2>2
    <3> QED
      BY <2>2, <2>4, <2>5, <3>1, <3>2 DEF StepInv
  <2>6. ASSUME Answered', NEW blk, NEW part, GoesOn(waiting, waiting', blk, part) PROVE StepInv'
    <3>1. waiting' # NoCommand /\ waiting'.id = sent' /\ waiting'.kind # "other"
      BY <2>1, <2>2, <2>6 DEF GoesOn
    <3> QED
      BY <2>2, <2>4, <2>6, <3>1 DEF StepInv, Between
  <2> DEFINE len == AnswerLen(waiting.kind, u.ok)
             more == waiting.kind = "stream" /\ u.ok /\ u.blk + 1 < waiting.lba
  <2>7. /\ u.part < len => GoesOn(waiting, waiting', u.blk, u.part + 1)
        /\ ~(u.part < len) => IF more THEN GoesOn(waiting, waiting', u.blk + 1, 1)
                                      ELSE waiting' = NoCommand
    BY <1>2, <2>2, <2>3, AfterFacts
  <2> HIDE DEF more
  <2>8. CASE Len(tx) = 1
    <3>1. tx' = <<>> /\ u.part = len /\ u = tx[Len(tx)] /\ ~(u.part < len)
      <4>1. tx' = <<>> /\ u = tx[Len(tx)]
        BY <1>2, <2>8, Empty
      <4>2. u.part = len
        BY <1>1, <2>1, <4>1 DEF Answered
      <4> QED
        BY <1>3, <4>1, <4>2
    <3>2. CASE more
      <4>1. GoesOn(waiting, waiting', u.blk + 1, 1)
        BY <2>7, <3>1, <3>2
      <4>2. stream_of = waiting.id /\ stream_end <= waiting.lba /\ stream_offset = u.blk + 1
        BY <1>1, <2>1, <3>1, <3>2 DEF Answered, more
      <4>3. Answered'
        BY <2>2, <3>1, <3>2, <4>1, <4>2 DEF Answered, GoesOn, more
      <4> QED
        BY <2>6, <4>1, <4>3
    <3>3. CASE ~more
      <4>1. waiting' = NoCommand
        BY <2>7, <3>1, <3>3
      <4>2. StreamDone
        <5>1. stream_offset \in Nat /\ stream_end \in Nat /\ u.blk \in Nat /\ waiting.lba \in Nat
          BY <1>3, <2>2, AwaitedFields DEF TypeOK
        <5> QED
          BY <1>1, <2>1, <3>1, <3>3, <5>1 DEF Answered, StreamDone, more
      <4> QED
        BY <2>2, <2>5, <3>1, <4>1, <4>2 DEF StreamDone, Silent
    <3> QED
      BY <3>2, <3>3
  <2>9. CASE Len(tx) > 1
    <3>1. 1 \in 1 .. Len(tx) - 1 /\ Follows(u, tx[2]) /\ tx' # <<>>
          /\ Len(tx') \in 1 .. Len(tx) - 1 /\ tx'[Len(tx')] = tx[Len(tx)] /\ tx'[1] = tx[2]
      <4>1. 1 \in 1 .. Len(tx) - 1 /\ Len(tx') \in 1 .. Len(tx) - 1 /\ Len(tx') + 1 = Len(tx)
        BY <1>2, <2>9
      <4>2. tx' # <<>>
        BY <1>2, <4>1, Empty
      <4> QED
        BY <1>2, <2>1, <4>1, <4>2 DEF Answered
    <3>2. GoesOn(waiting, waiting', tx[2].blk, tx[2].part)
      BY <2>7, <3>1 DEF Follows, more
    <3>3. \A i \in 1 .. Len(tx') - 1 : Follows(tx[i], tx[i + 1])'
      <4> SUFFICES ASSUME NEW i \in 1 .. Len(tx') - 1 PROVE Follows(tx[i], tx[i + 1])'
        OBVIOUS
      <4>1. i + 1 \in 1 .. Len(tx) - 1 /\ tx'[i] = tx[i + 1] /\ tx'[i + 1] = tx[i + 1 + 1]
        BY <1>2, <3>1
      <4>2. Follows(tx[i + 1], tx[i + 1 + 1])
        BY <2>1, <4>1 DEF Answered
      <4> QED
        BY <3>2, <4>1, <4>2 DEF Follows, GoesOn
    <3>4. \A i \in 1 .. Len(tx') : tx'[i].id = waiting.id
      BY <1>2, <2>1 DEF Answered
    <3>5. Answered'
      <4>1. waiting'.kind = waiting.kind /\ waiting'.lba = waiting.lba /\ waiting'.id = waiting.id
            /\ waiting'.blk = tx[2].blk /\ waiting'.part = tx[2].part
        BY <3>2 DEF GoesOn
      <4>2. StreamDone => StreamDone'
        BY <2>2 DEF StreamDone
      <4> QED
        BY <1>1, <2>1, <2>2, <3>1, <3>3, <3>4, <4>1, <4>2 DEF Answered
    <3> QED
      BY <2>6, <3>2, <3>5
  <2> QED
    BY <1>2, <2>8, <2>9
<1> QED
  BY <1>5, <1>7, <1>8

-----------------------------------------------------------------------------
(* handle_stream *)

\* A frame behind what is in the queue.
LEMMA FrameAdded ==
  ASSUME tx \in Seq(UnitOut), NEW id \in 0 .. MaxCommands, NEW blk \in Nat, NEW ok \in BOOLEAN,
         NEW len \in 1 .. 1 + DataUnits, tx' = tx \o Frame(id, blk, ok, len)
  PROVE  /\ tx' \in Seq(UnitOut) /\ Len(tx') = Len(tx) + len
         /\ \A i \in 1 .. Len(tx) : tx'[i] = tx[i]
         /\ \A i \in 1 .. len :
              tx'[Len(tx) + i] = [id |-> id, blk |-> blk, ok |-> ok, part |-> i]
<1>1. PICK f : f = Frame(id, blk, ok, len)
  OBVIOUS
<1>2. len \in 0 .. 1 + DataUnits /\ len \in Nat
  BY SerialAssumption
<1>3. /\ f \in Seq(UnitOut) /\ Len(f) = len
      /\ \A i \in 1 .. len : f[i] = [id |-> id, blk |-> blk, ok |-> ok, part |-> i]
  BY <1>1, <1>2, FrameType
<1>4. /\ tx \o f \in Seq(UnitOut) /\ Len(tx \o f) = Len(tx) + Len(f)
      /\ \A i \in 1 .. Len(tx) : (tx \o f)[i] = tx[i]
      /\ \A i \in 1 .. Len(f) : (tx \o f)[Len(tx) + i] = f[i]
  <2>1. tx \in Seq(UnitOut) /\ f \in Seq(UnitOut)
    BY <1>3
  <2> QED
    BY ONLY <2>1, Joined
<1> QED
  BY <1>1, <1>3, <1>4

\* The next block, whole, is what the host waits for after those in the queue.
LEMMA BlockAnswers ==
  ASSUME TypeOK, Answered, waiting \in Awaited, do_stream, stream_offset < stream_end,
         waiting.kind = "stream", NEW ok \in BOOLEAN,
         NEW len \in 1 .. 1 + DataUnits, len = AnswerLen("stream", ok),
         tx' = tx \o Frame(stream_of, stream_offset, ok, len),
         IF ok THEN stream_offset' = stream_offset + 1 ELSE ~do_stream',
         UNCHANGED <<waiting, stream_of, stream_end>>
  PROVE  Answered'
<1>1. /\ tx \in Seq(UnitOut) /\ Len(tx) \in Nat /\ stream_of \in 0 .. MaxCommands
      /\ stream_offset \in Nat /\ stream_end \in Nat /\ waiting.lba \in Nat
      /\ stream_of = waiting.id /\ stream_end <= waiting.lba
      /\ len \in Nat \ {0} /\ 1 \in 1 .. len /\ len \in 1 .. len
  <2>1. /\ tx \in Seq(UnitOut) /\ Len(tx) \in Nat /\ stream_of \in 0 .. MaxCommands
        /\ stream_offset \in Nat /\ stream_end \in Nat
    BY DEF TypeOK
  <2>2. waiting.lba \in Nat
    BY AwaitedFields
  <2>3. stream_of = waiting.id /\ stream_end <= waiting.lba
    BY DEF Answered
  <2>4. len \in Nat \ {0} /\ 1 \in 1 .. len /\ len \in 1 .. len
    BY SerialAssumption
  <2> QED
    BY <2>1, <2>2, <2>3, <2>4
<1>2. PICK t : t = tx'
  OBVIOUS
<1>3. /\ t \in Seq(UnitOut) /\ Len(t) = Len(tx) + len
      /\ \A i \in 1 .. Len(tx) : t[i] = tx[i]
      /\ \A i \in 1 .. len :
           t[Len(tx) + i] = [id |-> stream_of, blk |-> stream_offset, ok |-> ok, part |-> i]
  <2>1. /\ tx' \in Seq(UnitOut) /\ Len(tx') = Len(tx) + len
        /\ \A i \in 1 .. Len(tx) : tx'[i] = tx[i]
        /\ \A i \in 1 .. len :
             tx'[Len(tx) + i] = [id |-> stream_of, blk |-> stream_offset, ok |-> ok, part |-> i]
    <3>1. tx \in Seq(UnitOut) /\ stream_of \in 0 .. MaxCommands /\ stream_offset \in Nat
      BY <1>1
    <3> QED
      BY ONLY ZenonT(40), <3>1, ok \in BOOLEAN, len \in 1 .. 1 + DataUnits,
              tx' = tx \o Frame(stream_of, stream_offset, ok, len), FrameAdded
  <2> QED
    BY <1>2, <2>1
<1>4. t # <<>> /\ t[Len(t)] = [id |-> stream_of, blk |-> stream_offset, ok |-> ok, part |-> len]
  BY <1>1, <1>3
<1>5. t[Len(tx) + 1] = [id |-> stream_of, blk |-> stream_offset, ok |-> ok, part |-> 1]
  BY <1>1, <1>3
<1>6. ASSUME tx # <<>>
      PROVE  /\ Len(tx) \in 1 .. Len(tx) /\ tx[Len(tx)].ok
             /\ stream_offset = tx[Len(tx)].blk + 1 /\ tx[Len(tx)].blk \in Nat
             /\ ~(tx[Len(tx)].part < AnswerLen("stream", tx[Len(tx)].ok))
  <2>1. Len(tx) \in 1 .. Len(tx) /\ tx[Len(tx)] \in UnitOut
    BY <1>1, <1>6, Empty
  <2>2. tx[Len(tx)].blk \in Nat /\ tx[Len(tx)].part \in Nat
    BY <2>1, SerialAssumption DEF UnitOut
  <2> QED
    BY <1>6, <2>1, <2>2 DEF Answered
<1>7. t[1].blk = waiting.blk /\ t[1].part = waiting.part
  <2>1. CASE tx = <<>>
    BY <1>5, <2>1 DEF Answered
  <2>2. CASE tx # <<>>
    <3>1. 1 \in 1 .. Len(tx)
      BY <1>1, <2>2, Empty
    <3> QED
      BY <1>3, <2>2, <3>1 DEF Answered
  <2> QED
    BY <2>1, <2>2
<1>8. ASSUME NEW i \in 1 .. Len(t) PROVE t[i].id = waiting.id
  <2>1. CASE i \in 1 .. Len(tx)
    BY <1>3, <2>1 DEF Answered
  <2>2. CASE i \notin 1 .. Len(tx)
    <3>1. i - Len(tx) \in 1 .. len /\ Len(tx) + (i - Len(tx)) = i
      BY <1>1, <1>3, <2>2
    <3>2. t[Len(tx) + (i - Len(tx))]
            = [id |-> stream_of, blk |-> stream_offset, ok |-> ok, part |-> i - Len(tx)]
      BY <1>3, <3>1
    <3> QED
      BY <1>1, <3>1, <3>2
  <2> QED
    BY <2>1, <2>2
<1>9. ASSUME NEW i \in 1 .. Len(t) - 1 PROVE Follows(t[i], t[i + 1])
  <2>1. CASE i \in 1 .. Len(tx) - 1
    <3>1. i \in 1 .. Len(tx) /\ i + 1 \in 1 .. Len(tx)
      BY <1>1, <2>1
    <3>2. t[i] = tx[i] /\ t[i + 1] = tx[i + 1] /\ Follows(tx[i], tx[i + 1])
      BY <1>3, <2>1, <3>1 DEF Answered
    <3> QED
      BY <3>2
  <2>2. CASE i = Len(tx)
    <3>1. tx # <<>> /\ i \in 1 .. Len(tx)
      BY <1>1, <2>2, Empty
    <3>2. t[i] = tx[Len(tx)]
      BY <1>3, <2>2, <3>1
    <3>3. t[i + 1].part = 1 /\ t[i + 1].blk = stream_offset
      BY <1>5, <2>2
    <3> QED
      BY <1>1, <1>6, <3>1, <3>2, <3>3 DEF Follows
  <2>3. CASE i > Len(tx)
    <3>1. /\ i - Len(tx) \in 1 .. len /\ Len(tx) + (i - Len(tx)) = i
          /\ (i - Len(tx)) + 1 \in 1 .. len /\ Len(tx) + ((i - Len(tx)) + 1) = i + 1
          /\ i - Len(tx) < len
      BY SMTT(30), <1>1, <1>3, <2>3
    <3>2. PICK j \in 1 .. len : j = i - Len(tx)
      BY <3>1
    <3>3. t[Len(tx) + j] = [id |-> stream_of, blk |-> stream_offset, ok |-> ok, part |-> j]
      BY <1>3
    <3>4. t[Len(tx) + (j + 1)] = [id |-> stream_of, blk |-> stream_offset, ok |-> ok, part |-> j + 1]
      BY <1>3, <3>1, <3>2
    <3>5. /\ t[i].part = j /\ t[i].ok = ok /\ t[i].blk = stream_offset /\ j < len
          /\ t[i + 1].part = j + 1 /\ t[i + 1].ok = ok /\ t[i + 1].blk = stream_offset
      BY <3>1, <3>2, <3>3, <3>4
    <3> QED
      BY <3>5 DEF Follows
  <2> QED
    BY <1>1, <1>3, <2>1, <2>2, <2>3
<1>10. \A i \in 1 .. Len(t) - 1 : Follows(t[i], t[i + 1])'
  BY <1>9 DEF Follows
<1>11. /\ t[Len(t)].part = AnswerLen(waiting.kind, t[Len(t)].ok)
       /\ IF t[Len(t)].ok THEN stream_offset' = t[Len(t)].blk + 1 ELSE ~do_stream'
  BY <1>4
<1>12. /\ tx' = t /\ t # <<>> /\ waiting' = waiting /\ waiting'.kind = "stream"
       /\ stream_of' = waiting'.id /\ stream_end' <= waiting'.lba
  BY <1>1, <1>2, <1>4
<1> QED
  BY ONLY ZenonT(40), <1>7, <1>8, <1>10, <1>11, <1>12 DEF Answered

LEMMA StreamStep == ASSUME SerialInv, handle_stream PROVE SerialInv'
<1> USE DEF SerialInv
<1>1. /\ pc = "loop" /\ pc' = "select" /\ Flow' = Flow
      /\ UNCHANGED <<hostVars, rx, running, got, cmd, stream_end, stream_of, pins, aligned, confused>>
  <2>1. UNCHANGED <<hostVars, rx, running, got, cmd, stream_end, stream_of, pins, aligned, confused>>
    BY DEF handle_stream
  <2> QED
    BY <2>1 DEF handle_stream, hostVars, Flow
<1>2. PayloadInv'
  BY <1>1 DEF PayloadInv
<1>3. CASE do_stream' = FALSE /\ UNCHANGED <<faults, tx, stream_offset>>
  <2>1. TypeOK'
    BY <1>1, <1>3 DEF TypeOK, hostVars
  <2>2. FrameInv' /\ StepInv'
    BY <1>1, <1>3, FrameBetween, StepKept DEF hostVars, Between, PayloadNext
  <2> QED
    BY <1>2, <2>1, <2>2
<1>4. CASE do_stream /\ ~StreamOver /\ (StreamBlock \/ StreamFails)
  <2>1. PICK ok \in BOOLEAN, len \in 1 .. 1 + DataUnits :
          /\ len = AnswerLen("stream", ok)
          /\ Send(Frame(stream_of, stream_offset, ok, len))
          /\ IF ok THEN stream_offset' = stream_offset + 1 /\ do_stream' = do_stream
                   ELSE do_stream' = FALSE /\ stream_offset' = stream_offset
    <3>1. /\ 1 \in 1 .. 1 + DataUnits /\ 1 + DataUnits \in 1 .. 1 + DataUnits
          /\ AnswerLen("stream", TRUE) = 1 + DataUnits /\ AnswerLen("stream", FALSE) = 1
      BY SerialAssumption DEF AnswerLen
    <3>2. CASE StreamBlock
      BY <3>1, <3>2 DEF StreamBlock
    <3>3. CASE StreamFails
      BY <3>1, <3>3 DEF StreamFails
    <3> QED
      BY <1>4, <3>2, <3>3
  <2>2. /\ stream_of \in 0 .. MaxCommands /\ stream_offset \in Nat /\ stream_end \in Nat
        /\ stream_offset < stream_end /\ len \in 0 .. 1 + DataUnits
    BY <1>4, SerialAssumption DEF TypeOK, StreamOver
  <2>3. Frame(stream_of, stream_offset, ok, len) \in Seq(UnitOut)
    BY <2>2, FrameType
  <2>4. /\ tx' \in Seq(UnitOut) /\ Len(tx') <= TxCapacity
        /\ faults \subseteq faults' /\ faults' \subseteq FaultKinds
        /\ "write" \notin faults' => tx' = tx \o Frame(stream_of, stream_offset, ok, len)
    BY <2>1, <2>3, SendFacts DEF TypeOK
  <2>5. TypeOK'
    <3>1. stream_offset' \in 0 .. stream_end
      BY <2>1, <2>2
    <3>2. do_stream' \in BOOLEAN
      BY <1>4, <2>1
    <3> QED
      BY <1>1, <2>4, <3>1, <3>2 DEF TypeOK, hostVars
  <2>6. FrameInv'
    BY <1>1, <2>4, FrameBetween DEF hostVars, PayloadNext
  <2>7. StepInv'
    <3> SUFFICES ASSUME Faultless' PROVE StepInv'
      BY DEF StepInv
    <3>1. Faultless /\ tx' = tx \o Frame(stream_of, stream_offset, ok, len)
      BY <2>4, FaultsRemain
    <3>2. ~Silent
      BY <1>4, <2>2 DEF Silent, StreamDone
    <3>3. /\ ~confused /\ waiting # NoCommand /\ waiting.id = sent /\ waiting.kind # "other"
          /\ Answered /\ Flow = <<>>
      BY <3>1, <3>2 DEF StepInv
    <3>4. waiting \in Awaited /\ waiting.kind = "stream"
      BY <1>4, <2>2, <3>3 DEF TypeOK, Awaited, Answered, StreamDone
    <3>5. Answered'
      BY <1>1, <1>4, <2>1, <2>2, <3>1, <3>3, <3>4, BlockAnswers DEF hostVars
    <3> QED
      BY <1>1, <3>3, <3>5 DEF StepInv, hostVars
  <2> QED
    BY <1>2, <2>5, <2>6, <2>7
<1> QED
  BY <1>3, <1>4 DEF handle_stream

-----------------------------------------------------------------------------
(* Between two commands *)

LEMMA SelectStep == ASSUME SerialInv, Select PROVE SerialInv'
<1> USE DEF SerialInv
<1>1. /\ pc = "select" /\ got = <<>> /\ got' = <<>> /\ Flow' = Flow
      /\ UNCHANGED <<hostVars, rx, tx, running, cmd, streamVars, pins, aligned, confused>>
  <2>1. UNCHANGED <<hostVars, rx, tx, running, cmd, streamVars, pins, aligned, confused>>
    BY DEF Select
  <2> QED
    BY <2>1 DEF Select, TypeOK, hostVars, Flow
<1>2. /\ faults \subseteq faults' /\ faults' \subseteq FaultKinds
      /\ pc' \in Between \/ (pc' = "header" /\ rx' # <<>> /\ Flow # <<>>)
  <2>1. rx # <<>> => Flow # <<>>
    BY FlowFacts
  <2>2. CASE UNCHANGED faults
    BY <1>1, <2>1, <2>2 DEF Select, TypeOK, Between
  <2>3. CASE Fault("select") /\ pc' = "exit"
    BY <2>3, FaultFacts DEF TypeOK, FaultKinds, Between
  <2> QED
    BY <2>2, <2>3 DEF Select
<1>3. TypeOK'
  <2>1. pc' \in {"loop", "select", "header", "exit"}
    BY DEF Select
  <2>2. Len(got') = 0 /\ HeaderUnits > 0
    BY <1>1, SerialAssumption
  <2> QED
    BY <1>1, <1>2, <2>1, <2>2 DEF TypeOK, hostVars, streamVars
<1>4. FrameInv'
  <2>1. ~PayloadNext /\ ~PayloadNext'
    BY <1>1, <1>2 DEF PayloadNext, Between
  <2> QED
    BY <1>1, <1>2, <2>1, FrameBetween DEF Between
<1>5. StepInv'
  BY <1>1, <1>2, StepKept DEF Between, hostVars, streamVars
<1>6. PayloadInv'
  BY <1>2 DEF PayloadInv, Between
<1> QED
  BY <1>3, <1>4, <1>5, <1>6

LEMMA SignalStep == ASSUME SerialInv, signal_handler PROVE SerialInv'
<1> USE DEF SerialInv
<1>1. /\ running' = FALSE
      /\ pc' = pc \/ (pc = "select" /\ pc' = "loop")
      /\ UNCHANGED <<hostVars, faults, rx, tx, got, cmd, streamVars, pins, aligned, confused>>
  BY DEF signal_handler
<1>2. Flow' = Flow
  BY <1>1 DEF Flow, hostVars
<1>3. TypeOK'
  BY <1>1 DEF TypeOK, hostVars, streamVars
<1>4. FrameInv'
  BY <1>1, <1>2, FrameKept, FrameBetween DEF PayloadNext
<1>5. StepInv'
  BY <1>1, <1>2, StepKept DEF Between, hostVars, streamVars
<1>6. PayloadInv'
  BY <1>1 DEF PayloadInv
<1> QED
  BY <1>3, <1>4, <1>5, <1>6

LEMMA LeaveStep == ASSUME SerialInv, Leave \/ Exit PROVE SerialInv'
<1> USE DEF SerialInv
<1>1. /\ pc \in Between /\ pc' \in {"exit", "done"}
      /\ pins' = pins \/ pins' = StartSmc(pins)
      /\ UNCHANGED <<hostVars, faults, rx, tx, running, got, cmd, streamVars, aligned, confused>>
  BY DEF Leave, Exit, Between
<1>2. Flow' = Flow
  BY <1>1 DEF Flow, hostVars
<1>3. TypeOK'
  <2>1. pins' \in PinType
    BY <1>1, SmcStarted DEF TypeOK
  <2>2. got' = <<>>
    BY <1>1 DEF TypeOK, Between
  <2> QED
    BY <1>1, <2>1, <2>2 DEF TypeOK, hostVars, streamVars
<1>4. FrameInv'
  <2>1. ~PayloadNext /\ ~PayloadNext'
    BY <1>1 DEF PayloadNext, Between
  <2> QED
    BY <1>1, <1>2, <2>1, FrameBetween
<1>5. StepInv'
  BY <1>1, <1>2, StepKept DEF Between, hostVars, streamVars
<1>6. PayloadInv'
  BY <1>1 DEF PayloadInv
<1> QED
  BY <1>3, <1>4, <1>5, <1>6

LEMMA IdleStep == ASSUME SerialInv, UNCHANGED vars PROVE SerialInv'
<1> USE DEF SerialInv
<1>1. UNCHANGED <<hostVars, faults, rx, tx, running, pc, got, cmd, streamVars, pins, aligned, confused>>
  BY DEF vars
<1>2. Flow' = Flow
  BY <1>1 DEF Flow, hostVars
<1>3. TypeOK'
  BY <1>1 DEF TypeOK, hostVars, streamVars
<1>4. FrameInv'
  BY <1>1, <1>2, FrameKept
<1>5. StepInv'
  BY <1>1, <1>2, StepKept DEF hostVars, streamVars
<1>6. PayloadInv'
  BY <1>1 DEF PayloadInv
<1> QED
  BY <1>3, <1>4, <1>5, <1>6

-----------------------------------------------------------------------------
(* A read that times out or fails *)

LEMMA ReadFailsStep == ASSUME SerialInv, ReadFails PROVE SerialInv'
<1>1. /\ pc' = "loop" /\ got' = <<>>
      /\ UNCHANGED <<hostVars, rx, tx, running, cmd, streamVars, pins, aligned, confused>>
      /\ Fault("read")
  BY DEF ReadFails
<1>2. "read" \in faults' /\ faults' \subseteq FaultKinds
  BY <1>1, FaultFacts DEF SerialInv, TypeOK, FaultKinds
<1>3. TypeOK'
  BY <1>1, <1>2 DEF SerialInv, TypeOK, hostVars, streamVars
<1>4. PayloadInv' /\ FrameInv' /\ StepInv'
  BY <1>1, <1>2 DEF SerialInv, PayloadInv, FrameInv, StepInv, Unbroken, Faultless
<1> QED
  BY <1>3, <1>4 DEF SerialInv

LEMMA TimeoutStep == ASSUME SerialInv, ReadTimesOut PROVE SerialInv'
<1> USE DEF SerialInv
<1>1. /\ pc \in {"header", "payload"} /\ rx = <<>>
      /\ IF wire = <<>> THEN UNCHANGED faults ELSE Fault("late")
      /\ pc' = IF got = <<>> THEN "loop" ELSE pc
      /\ UNCHANGED <<hostVars, rx, tx, running, got, cmd, streamVars, pins, aligned, confused>>
  BY DEF ReadTimesOut, Silence
<1>2. faults \subseteq faults' /\ faults' \subseteq FaultKinds /\ ("late" \notin faults' => wire = <<>>)
  BY <1>1, FaultFacts DEF TypeOK, FaultKinds
<1>3. TypeOK'
  BY <1>1, <1>2 DEF TypeOK, hostVars, streamVars
<1>4. Flow' = Flow
  BY <1>1 DEF Flow, hostVars
<1>5. Unbroken' => pc' = pc
  <2> SUFFICES ASSUME Unbroken' PROVE got # <<>>
    BY <1>1
  <2>1. Unbroken /\ wire = <<>>
    BY <1>2, FaultsRemain DEF Unbroken
  <2>2. pc = "header" => got # <<>>
    BY <1>1, <2>1 DEF FrameInv
  <2>3. pc = "payload" => Flow # <<>>
    BY <2>1 DEF FrameInv, PayloadNext
  <2> QED
    BY <1>1, <2>1, <2>2, <2>3, FlowFacts
<1>6. FrameInv'
  <2>1. CASE pc' = pc
    BY <1>1, <1>2, <1>4, <2>1, FrameKept
  <2>2. CASE ~Unbroken'
    BY <2>2 DEF FrameInv
  <2> QED
    BY <1>5, <2>1, <2>2
<1>7. StepInv'
  <2>1. CASE pc' = pc
    BY <1>1, <1>2, <1>4, <2>1, StepKept DEF hostVars, streamVars
  <2>2. CASE ~Unbroken'
    BY <2>2 DEF StepInv, Unbroken, Faultless
  <2> QED
    BY <1>5, <2>1, <2>2
<1>8. PayloadInv'
  BY <1>1 DEF PayloadInv
<1> QED
  BY <1>3, <1>6, <1>7, <1>8

-----------------------------------------------------------------------------
(* serial_read_exact *)

LEMMA RestOfFirst ==
  ASSUME NEW S, NEW p \in Seq(S), NEW q \in Seq(S)
  PROVE  Rest(p \o q, Len(p)) = q
<1>1. PICK j, n : j = p \o q /\ n = Len(p)
  OBVIOUS
<1>2. /\ j \in Seq(S) /\ Len(j) = n + Len(q) /\ n \in Nat /\ Len(q) \in Nat
      /\ \A i \in 1 .. Len(q) : j[n + i] = q[i]
  BY <1>1, Joined
<1>3. PICK r : r = Rest(j, n)
  OBVIOUS
<1>4. /\ r \in Seq(S) /\ Len(r) = Len(j) - n
      /\ \A i \in 1 .. Len(j) - n : r[i] = j[n + i]
  <2>1. n \in 0 .. Len(j)
    BY <1>2
  <2> QED
    BY <1>2, <1>3, <2>1, RestFacts
<1>5. Len(r) = Len(q) /\ \A i \in 1 .. Len(r) : r[i] = q[i]
  BY <1>2, <1>4
<1>6. r = q
  BY <1>4, <1>5, Same
<1> QED
  BY <1>1, <1>3, <1>6

\* What one read() adds, and what it leaves of the flow.
LEMMA ReadFacts ==
  ASSUME TypeOK, NEW len \in Nat, Len(got) < len, rx # <<>>, Take(len), wire' = wire,
         NEW units, units = Read(len)
  PROVE  /\ units \in Seq(UnitIn) /\ units # <<>> /\ Len(units) <= len /\ Len(units) \in Nat
         /\ rx' \in Seq(UnitIn)
         /\ Len(units) <= Len(Flow) /\ \A i \in 1 .. Len(units) : units[i] = Flow[i]
         /\ got' = units => Flow' = Flow
         /\ got' = <<>> => Flow' = Rest(Flow, Len(units))
<1>1. got \in Seq(UnitIn) /\ rx \in Seq(UnitIn) /\ wire \in Seq(UnitIn)
      /\ Len(got) \in Nat /\ Len(rx) \in Nat /\ Len(rx) > 0
  BY Empty DEF TypeOK
<1>2. PICK w : w = Want(len)
  OBVIOUS
<1>3. w \in 1 .. Len(rx) /\ Len(got) + w <= len /\ w \in 0 .. Len(rx) /\ w \in Nat
  BY <1>1, <1>2 DEF Want
<1>4. PICK a : a = SubSeq(rx, 1, w)
  OBVIOUS
<1>5. a \in Seq(UnitIn) /\ Len(a) = w
  BY <1>1, <1>3, <1>4, Cut
<1>6. units = got \o a
  BY <1>2, <1>4 DEF Read
<1>7. units \in Seq(UnitIn) /\ Len(units) = Len(got) + w
  BY <1>1, <1>5, <1>6, Joined
<1>8. rx' = Rest(rx, w) /\ rx' \in Seq(UnitIn) /\ Len(rx') = Len(rx) - w
  BY <1>1, <1>2, <1>3, RestFacts DEF Take, Rest
<1>9. PICK b, o : b = rx' /\ o = OnTheLine(wire)
  OBVIOUS
<1>10. b \in Seq(UnitIn) /\ o \in Seq(UnitIn) /\ Len(b) = Len(rx) - w
  BY <1>1, <1>8, <1>9, OnTheLineFacts
<1>11. units \o b = got \o rx
  <2>1. (got \o SubSeq(rx, 1, w)) \o Rest(rx, w) = got \o rx
    BY <1>1, <1>3, Moved
  <2> QED
    BY <1>4, <1>6, <1>8, <1>9, <2>1
<1>12. PICK j : j = units \o b
  OBVIOUS
<1>13. /\ j \in Seq(UnitIn) /\ Len(j) = Len(units) + Len(b)
       /\ \A i \in 1 .. Len(units) : j[i] = units[i]
  <2>1. units \in Seq(UnitIn) /\ b \in Seq(UnitIn)
    BY <1>7, <1>10
  <2> QED
    BY ONLY <1>12, <2>1, Joined
<1>14. Flow = j \o o
  BY <1>9, <1>11, <1>12 DEF Flow
<1>15. /\ Len(Flow) = Len(j) + Len(o) /\ Len(o) \in Nat
       /\ \A i \in 1 .. Len(j) : Flow[i] = j[i]
  <2>1. j \in Seq(UnitIn) /\ o \in Seq(UnitIn)
    BY <1>10, <1>13
  <2>2. /\ Len(j \o o) = Len(j) + Len(o) /\ Len(o) \in Nat
        /\ \A i \in 1 .. Len(j) : (j \o o)[i] = j[i]
    BY ONLY <2>1, Joined
  <2> QED
    BY <1>14, <2>2
<1>16. Len(units) <= Len(Flow) /\ \A i \in 1 .. Len(units) : units[i] = Flow[i]
  <2>1. Len(units) \in Nat /\ Len(b) \in Nat /\ Len(j) = Len(units) + Len(b)
    BY <1>7, <1>10, <1>13, Empty
  <2>2. Len(units) <= Len(Flow)
    BY <1>15, <2>1
  <2>3. \A i \in 1 .. Len(units) : i \in 1 .. Len(j)
    BY <2>1
  <2> QED
    BY <1>13, <1>15, <2>2, <2>3
<1>17. OnTheLine(wire') = o
  BY <1>9
<1>18. ASSUME got' = units PROVE Flow' = Flow
  BY <1>9, <1>12, <1>14, <1>17, <1>18 DEF Flow
<1>19. ASSUME got' = <<>> PROVE Flow' = Rest(Flow, Len(units))
  <2>1. Flow' = b \o o
    <3>1. <<>> \o b = b
      BY <1>10, ConcatEmptySeq
    <3> QED
      BY <1>9, <1>17, <1>19, <3>1 DEF Flow
  <2>2. Rest(j, Len(units)) = b
    BY <1>7, <1>10, <1>12, RestOfFirst
  <2>3. Len(units) \in 0 .. Len(j)
    BY <1>1, <1>3, <1>7, <1>10, <1>13
  <2>4. Rest(j, Len(units)) \o o = Rest(j \o o, Len(units))
    BY <1>10, <1>13, <2>3, RestOfJoined
  <2> QED
    BY <1>14, <2>1, <2>2, <2>4
<1>20. units # <<>> /\ Len(units) <= len
  BY <1>1, <1>3, <1>7
<1> QED
  BY <1>7, <1>1, <1>3, <1>8, <1>16, <1>18, <1>19, <1>20

\* What a flow begins with, and what is left after that.
LEMMA FlowStarts ==
  ASSUME TypeOK, FrameInv, Unbroken, Flow # <<>>
  PROVE  /\ Len(Flow) \in Nat /\ 1 \in 1 .. Len(Flow) /\ Flow[1] \in UnitIn
         /\ WholeCommands(Flow)
         /\ PayloadNext =>
              /\ PayloadUnits \in 0 .. Len(Flow) /\ LastOf(Flow, 1) = PayloadUnits
              /\ PayloadUnits < Len(Flow) => Flow[PayloadUnits + 1].part = 1
         /\ ~PayloadNext =>
              /\ HeaderUnits \in 0 .. Len(Flow) /\ LastOf(Flow, 1) = Size(Flow[1].kind)
              /\ Size(Flow[1].kind) \in HeaderUnits .. Len(Flow)
              /\ \A i \in 1 .. Size(Flow[1].kind) : Flow[i] = [Flow[1] EXCEPT !.part = i]
              /\ Size(Flow[1].kind) < Len(Flow) => Flow[Size(Flow[1].kind) + 1].part = 1
<1>1. PICK q : q = Flow
  OBVIOUS
<1>2. q \in Seq(UnitIn) /\ Len(q) \in Nat /\ 1 \in 1 .. Len(q) /\ q[1] \in UnitIn
  BY <1>1, FlowFacts, Empty
<1>3. /\ WholeCommands(q)
      /\ IF PayloadNext THEN q[1].part = HeaderUnits + 1 /\ q[1].kind = "write"
                        ELSE q[1].part = 1
  BY <1>1 DEF FrameInv
<1>4. /\ LastOf(q, 1) <= Len(q)
      /\ \A j \in 1 .. LastOf(q, 1) : q[j] = [q[1] EXCEPT !.part = q[1].part + (j - 1)]
      /\ LastOf(q, 1) < Len(q) => q[LastOf(q, 1) + 1].part = 1
  BY <1>2, <1>3 DEF WholeCommands
<1>5. /\ Size(q[1].kind) \in Nat /\ Size(q[1].kind) >= HeaderUnits
      /\ q[1].kind = "write" => Size(q[1].kind) = HeaderUnits + PayloadUnits
      /\ HeaderUnits \in Nat \ {0} /\ PayloadUnits \in Nat \ {0}
  BY SizeFacts
<1>6. ASSUME PayloadNext
      PROVE  /\ PayloadUnits \in 0 .. Len(q) /\ LastOf(q, 1) = PayloadUnits
             /\ PayloadUnits < Len(q) => q[PayloadUnits + 1].part = 1
  <2>1. LastOf(q, 1) = PayloadUnits
    <3>1. q[1].part = HeaderUnits + 1 /\ Size(q[1].kind) = HeaderUnits + PayloadUnits
      BY <1>3, <1>5, <1>6
    <3>2. 1 + (HeaderUnits + PayloadUnits) - (HeaderUnits + 1) = PayloadUnits
      BY <1>5
    <3> QED
      BY <3>1, <3>2 DEF LastOf
  <2> QED
    BY <1>2, <1>4, <1>5, <2>1
<1>7. ASSUME ~PayloadNext
      PROVE  /\ HeaderUnits \in 0 .. Len(q) /\ LastOf(q, 1) = Size(q[1].kind)
             /\ Size(q[1].kind) \in HeaderUnits .. Len(q)
             /\ \A i \in 1 .. Size(q[1].kind) : q[i] = [q[1] EXCEPT !.part = i]
             /\ Size(q[1].kind) < Len(q) => q[Size(q[1].kind) + 1].part = 1
  <2>1. q[1].part = 1
    BY <1>3, <1>7
  <2>2. LastOf(q, 1) = Size(q[1].kind)
    BY <1>5, <2>1 DEF LastOf
  <2>3. ASSUME NEW i \in 1 .. Size(q[1].kind) PROVE q[i] = [q[1] EXCEPT !.part = i]
    <3>1. q[i] = [q[1] EXCEPT !.part = q[1].part + (i - 1)]
      BY <1>4, <2>2
    <3>2. q[1].part + (i - 1) = i
      BY <2>1
    <3> QED
      BY <3>1, <3>2
  <2> QED
    BY <1>2, <1>4, <1>5, <2>2, <2>3
<1> QED
  BY <1>1, <1>2, <1>3, <1>6, <1>7

LEMMA PayloadStep == ASSUME SerialInv, ReadPayload PROVE SerialInv'
<1> USE DEF SerialInv
<1>1. PICK units : units = Read(PayloadUnits)
  OBVIOUS
<1>2. /\ pc = "payload" /\ rx # <<>> /\ Take(PayloadUnits) /\ wire' = wire
      /\ IF Complete(units, PayloadUnits) THEN pc' = "write" /\ got' = <<>>
                                          ELSE got' = units /\ pc' = pc
      /\ UNCHANGED <<hostVars, faults, tx, running, cmd, streamVars, pins, aligned, confused>>
  BY <1>1 DEF ReadPayload, hostVars
<1>3. PayloadUnits \in Nat /\ Len(got) < PayloadUnits
  BY <1>2, SerialAssumption DEF TypeOK
<1>4. /\ units \in Seq(UnitIn) /\ units # <<>> /\ Len(units) <= PayloadUnits /\ Len(units) \in Nat
      /\ rx' \in Seq(UnitIn)
      /\ got' = units => Flow' = Flow
      /\ got' = <<>> => Flow' = Rest(Flow, Len(units))
  BY <1>1, <1>2, <1>3, ReadFacts
<1>5. TypeOK'
  <2>1. /\ got' \in Seq(UnitIn) /\ pc' \in {"payload", "write"}
        /\ pc' = "payload" => Len(got') < PayloadUnits
        /\ pc' # "payload" => got' = <<>>
    <3>1. CASE Complete(units, PayloadUnits)
      BY <1>2, <3>1
    <3>2. CASE ~Complete(units, PayloadUnits)
      BY <1>2, <1>3, <1>4, <3>2 DEF Complete
    <3> QED
      BY <3>1, <3>2
  <2> QED
    BY <1>2, <1>4, <2>1 DEF TypeOK, hostVars, streamVars
<1>6. PayloadInv'
  BY <1>2 DEF PayloadInv
<1>7. CASE ~Complete(units, PayloadUnits)
  <2>1. FrameInv'
    BY <1>2, <1>4, <1>7, FrameBetween DEF PayloadNext
  <2>2. StepInv'
    BY <1>2, <1>4, <1>7, StepKept DEF hostVars, streamVars
  <2> QED
    BY <1>5, <1>6, <2>1, <2>2
<1>8. CASE Complete(units, PayloadUnits)
  <2>1. pc' = "write" /\ got' = <<>> /\ Flow' = Rest(Flow, PayloadUnits) /\ PayloadNext /\ ~PayloadNext'
    BY <1>2, <1>4, <1>8 DEF Complete, PayloadNext
  <2>2. PICK q : q = Flow
    OBVIOUS
  <2>3. ASSUME Unbroken
        PROVE  /\ q \in Seq(UnitIn) /\ WholeCommands(q) /\ Len(q) \in Nat
               /\ PayloadUnits \in 0 .. Len(q)
               /\ PayloadUnits < Len(q) => q[PayloadUnits + 1].part = 1
    <3>1. Flow # <<>>
      BY <2>1, <2>3 DEF FrameInv
    <3> QED
      BY <2>1, <2>2, <2>3, <3>1, FlowStarts, FlowFacts
  <2>4. ASSUME Unbroken
        PROVE  /\ Rest(q, PayloadUnits) \in Seq(UnitIn)
               /\ Len(Rest(q, PayloadUnits)) = Len(q) - PayloadUnits
               /\ \A i \in 1 .. Len(q) - PayloadUnits : Rest(q, PayloadUnits)[i] = q[PayloadUnits + i]
               /\ WholeCommands(Rest(q, PayloadUnits))
    BY <2>3, <2>4, RestFacts, WholeRest
  <2>5. FrameInv'
    <3> SUFFICES ASSUME Unbroken' PROVE FrameInv'
      BY DEF FrameInv
    <3>1. Unbroken /\ aligned'
      BY <1>2 DEF Unbroken, FrameInv
    <3>2. PICK r : r = Rest(q, PayloadUnits)
      OBVIOUS
    <3>3. r # <<>> => r[1].part = 1
      <4>1. r # <<>> => PayloadUnits < Len(q) /\ 1 \in 1 .. Len(q) - PayloadUnits
        BY <2>3, <2>4, <3>1, <3>2, Empty
      <4> QED
        BY <2>3, <2>4, <3>1, <3>2, <4>1
    <3>4. Flow' = r /\ WholeCommands(r)
      BY <2>1, <2>2, <2>4, <3>1, <3>2
    <3> QED
      BY <2>1, <3>1, <3>3, <3>4 DEF FrameInv
  <2>6. StepInv'
    <3> SUFFICES ASSUME Faultless' PROVE StepInv'
      BY DEF StepInv
    <3>1. Faultless /\ Unbroken
      BY <1>2 DEF Faultless, Unbroken
    <3>2. /\ waiting # NoCommand /\ ~confused /\ waiting.id = sent /\ waiting.kind # "other"
          /\ Silent /\ InHand(Flow)
      BY <1>2, <3>1 DEF StepInv, Quieted
    <3>3. Len(q) = PayloadUnits
      BY <1>2, <2>1, <2>2, <3>2 DEF InHand
    <3>4. Flow' = <<>>
      <4>1. Rest(q, PayloadUnits) = <<>>
        BY <1>3, <2>4, <3>1, <3>3, Empty
      <4> QED
        BY <2>1, <2>2, <4>1
    <3>5. Silent' /\ InHand(<<>>)'
      BY <1>2, <2>1, <3>2 DEF Silent, StreamDone, InHand, hostVars, streamVars
    <3> QED
      BY <1>2, <3>2, <3>4, <3>5 DEF StepInv, hostVars
  <2> QED
    BY <1>5, <1>6, <2>5, <2>6
<1> QED
  BY <1>7, <1>8

\* The command a header decodes to, which is the one that was sent if nothing broke it.
LEMMA DecodeFacts ==
  ASSUME NEW units \in Seq(UnitIn), Len(units) = HeaderUnits, NEW c \in Decode(units)
  PROVE  /\ c \in [kind : AllKinds, lba : Nat, id : 0 .. MaxCommands]
         /\ (\A i \in 1 .. HeaderUnits : units[i] = [units[1] EXCEPT !.part = i]) =>
              /\ c.kind = units[1].kind /\ c.lba = units[1].lba /\ c.id = units[1].id
              /\ c.id # Stray
<1>1. units[1] \in UnitIn
  BY SerialAssumption
<1>2. /\ units[1].kind \in AllKinds /\ units[1].lba \in Nat /\ units[1].id \in 1 .. MaxCommands
      /\ units[1].id \in 0 .. MaxCommands /\ units[1].id # Stray
  <2>1. 1 .. MaxCommands \subseteq 0 .. MaxCommands
    BY SerialAssumption
  <2> QED
    BY <1>1, <2>1, UnitFields
<1>3. Kinds \subseteq AllKinds /\ Lengths \subseteq Nat /\ Stray \in 0 .. MaxCommands
  BY SerialAssumption DEF Stray
<1>4. CASE \A i \in 1 .. HeaderUnits : units[i] = [units[1] EXCEPT !.part = i]
  <2>1. c = [kind |-> units[1].kind, lba |-> units[1].lba, id |-> units[1].id]
    BY <1>4 DEF Decode
  <2> QED
    BY <1>2, <2>1
<1>5. CASE ~(\A i \in 1 .. HeaderUnits : units[i] = [units[1] EXCEPT !.part = i])
  <2>1. c \in [kind : Kinds, lba : Lengths, id : {Stray}]
    BY <1>5 DEF Decode
  <2> QED
    BY <1>3, <1>5, <2>1
<1> QED
  BY <1>4, <1>5

\* What is left of a flow whose first command is not the awaited one.
LEMMA StillUnread ==
  ASSUME NEW q \in Seq(UnitIn), WholeCommands(q), Unread(q), NEW n \in 0 .. Len(q),
         \A i \in 1 .. n : q[i].id # waiting.id
  PROVE  Unread(Rest(q, n))
<1>1. PICK r : r = Rest(q, n)
  OBVIOUS
<1>2. /\ r \in Seq(UnitIn) /\ Len(r) = Len(q) - n /\ Len(q) \in Nat /\ n \in Nat
      /\ \A i \in 1 .. Len(q) - n : r[i] = q[n + i] /\ LastOf(r, i) = LastOf(q, n + i) - n
  <2>1. /\ Rest(q, n) \in Seq(UnitIn) /\ Len(Rest(q, n)) = Len(q) - n
        /\ \A i \in 1 .. Len(q) - n : Rest(q, n)[i] = q[n + i]
    BY ONLY q \in Seq(UnitIn), n \in 0 .. Len(q), RestFacts
  <2>2. \A i \in 1 .. Len(q) - n : LastOf(Rest(q, n), i) = LastOf(q, n + i) - n
    BY WholeRest
  <2>3. Len(q) \in Nat /\ n \in Nat
    OBVIOUS
  <2> QED
    BY <1>1, <2>1, <2>2, <2>3
<1>3. ASSUME NEW i \in 1 .. Len(r)
      PROVE  OfTheAwaited(r, i) \/ (r[i].id # waiting.id /\ Quiet(r[i].kind, r[i].lba))
  <2>1. n + i \in 1 .. Len(q) /\ r[i] = q[n + i] /\ LastOf(r, i) = LastOf(q, n + i) - n
    BY <1>2
  <2>2. OfTheAwaited(q, n + i) \/ (r[i].id # waiting.id /\ Quiet(r[i].kind, r[i].lba))
    BY <2>1 DEF Unread
  <2>3. OfTheAwaited(q, n + i) => OfTheAwaited(r, i)
    BY <1>2, <2>1 DEF OfTheAwaited
  <2> QED
    BY <2>2, <2>3
<1>4. PICK k \in 1 .. Len(q) : q[k].id = waiting.id /\ q[k].part = 1
  BY DEF Unread
<1>5. k - n \in 1 .. Len(r) /\ n + (k - n) = k
  BY <1>2, <1>4
<1>6. r[k - n] = q[k]
  BY <1>2, <1>5
<1> QED
  BY <1>1, <1>3, <1>4, <1>5, <1>6 DEF Unread

LEMMA HeaderStep == ASSUME SerialInv, ReadHeader PROVE SerialInv'
<1> USE DEF SerialInv
<1>1. PICK units, q : units = Read(HeaderUnits) /\ q = Flow
  OBVIOUS
<1>2. /\ pc = "header" /\ rx # <<>> /\ Take(HeaderUnits) /\ wire' = wire
      /\ IF Complete(units, HeaderUnits)
         THEN /\ cmd' \in Decode(units) /\ aligned' = (aligned /\ cmd'.id # Stray)
              /\ pc' = "command" /\ got' = <<>>
         ELSE got' = units /\ UNCHANGED <<pc, cmd, aligned>>
      /\ UNCHANGED <<hostVars, faults, tx, running, streamVars, pins, confused>>
  BY <1>1 DEF ReadHeader, hostVars
<1>3. HeaderUnits \in Nat /\ Len(got) < HeaderUnits
  BY <1>2, SerialAssumption DEF TypeOK
<1>4. /\ units \in Seq(UnitIn) /\ units # <<>> /\ Len(units) <= HeaderUnits /\ Len(units) \in Nat
      /\ rx' \in Seq(UnitIn)
      /\ Len(units) <= Len(q) /\ \A i \in 1 .. Len(units) : units[i] = q[i]
      /\ got' = units => Flow' = q
      /\ got' = <<>> => Flow' = Rest(q, Len(units))
  BY <1>1, <1>2, <1>3, ReadFacts
<1>5. CASE ~Complete(units, HeaderUnits)
  <2>1. /\ got' = units /\ UNCHANGED <<pc, cmd, aligned>> /\ Len(units) < HeaderUnits /\ Flow' = Flow
    BY <1>1, <1>2, <1>3, <1>4, <1>5 DEF Complete
  <2>2. TypeOK'
    BY <1>2, <1>4, <2>1 DEF TypeOK, hostVars, streamVars
  <2>3. PayloadInv' /\ StepInv'
    BY <1>2, <2>1, StepKept DEF PayloadInv, hostVars, streamVars
  <2>4. FrameInv'
    BY <1>2, <1>4, <2>1 DEF FrameInv, Unbroken, PayloadNext, WholeCommands, LastOf
  <2> QED
    BY <2>2, <2>3, <2>4
<1>6. CASE Complete(units, HeaderUnits)
  <2>1. /\ Len(units) = HeaderUnits /\ cmd' \in Decode(units)
        /\ aligned' = (aligned /\ cmd'.id # Stray) /\ pc' = "command" /\ got' = <<>>
        /\ Flow' = Rest(q, HeaderUnits)
    BY <1>2, <1>4, <1>6 DEF Complete
  <2>2. cmd' \in [kind : AllKinds, lba : Nat, id : 0 .. MaxCommands]
    BY <1>4, <2>1, DecodeFacts
  <2>3. TypeOK'
    <3>1. aligned' \in BOOLEAN
      BY <2>1, Zenon
    <3> QED
      BY <1>2, <1>4, <2>1, <2>2, <3>1 DEF TypeOK, hostVars, streamVars
  <2>4. PayloadInv'
    BY <2>1 DEF PayloadInv
  <2>5. ~PayloadNext
    BY <1>2 DEF PayloadNext
  \* The rest holds as long as nothing has broken the flow.
  <2>6. CASE ~Unbroken
    <3>1. ~Unbroken' /\ ~Faultless'
      BY <1>2, <2>6 DEF Unbroken, Faultless
    <3> QED
      BY <2>3, <2>4, <3>1 DEF FrameInv, StepInv
  <2>7. CASE Unbroken
    <3> DEFINE size == Size(q[1].kind)
    <3>1. /\ q \in Seq(UnitIn) /\ Len(q) \in Nat /\ 1 \in 1 .. Len(q) /\ q[1] \in UnitIn
          /\ WholeCommands(q) /\ HeaderUnits \in 0 .. Len(q)
          /\ LastOf(q, 1) = size /\ size \in HeaderUnits .. Len(q)
          /\ \A i \in 1 .. size : q[i] = [q[1] EXCEPT !.part = i]
          /\ size < Len(q) => q[size + 1].part = 1
      <4>1. Flow # <<>>
        BY <1>2, FlowFacts
      <4> QED
        BY <1>1, <2>5, <2>7, <4>1, FlowStarts, FlowFacts
    <3>2. /\ q[1].kind = "write" => size = HeaderUnits + PayloadUnits
          /\ q[1].kind # "write" => size = HeaderUnits
          /\ HeaderUnits \in Nat \ {0} /\ PayloadUnits \in Nat \ {0} /\ size \in Nat
      BY SizeFacts
    <3> HIDE DEF size
    <3>3. cmd'.kind = q[1].kind /\ cmd'.lba = q[1].lba /\ cmd'.id = q[1].id /\ cmd'.id # Stray
      <4>1. units[1] = q[1]
        BY <1>4, <2>1, <3>2
      <4>2. \A i \in 1 .. HeaderUnits : units[i] = [units[1] EXCEPT !.part = i]
        <5> TAKE i \in 1 .. HeaderUnits
        <5>1. i \in 1 .. size /\ i \in 1 .. Len(units)
          BY <2>1, <3>1, <3>2
        <5> QED
          BY <1>4, <3>1, <4>1, <5>1
      <4> QED
        <5>1. units \in Seq(UnitIn) /\ Len(units) = HeaderUnits /\ cmd' \in Decode(units)
          BY <1>4, <2>1
        <5>2. /\ cmd'.kind = units[1].kind /\ cmd'.lba = units[1].lba /\ cmd'.id = units[1].id
              /\ cmd'.id # Stray
          BY ONLY ZenonT(40), <4>2, <5>1, DecodeFacts
        <5> QED
          BY <4>1, <5>2
    <3>4. PICK r : r = Rest(q, HeaderUnits)
      OBVIOUS
    <3>5. /\ r \in Seq(UnitIn) /\ Len(r) = Len(q) - HeaderUnits /\ Flow' = r /\ WholeCommands(r)
          /\ \A i \in 1 .. Len(q) - HeaderUnits : r[i] = q[HeaderUnits + i]
      <4>1. /\ Rest(q, HeaderUnits) \in Seq(UnitIn)
            /\ Len(Rest(q, HeaderUnits)) = Len(q) - HeaderUnits
            /\ \A i \in 1 .. Len(q) - HeaderUnits : Rest(q, HeaderUnits)[i] = q[HeaderUnits + i]
        <5>1. q \in Seq(UnitIn) /\ HeaderUnits \in 0 .. Len(q)
          BY <3>1
        <5> QED
          BY ONLY <5>1, RestFacts
      <4>2. WholeCommands(Rest(q, HeaderUnits))
        BY <3>1, WholeRest
      <4> QED
        BY <2>1, <3>4, <4>1, <4>2
    <3>6. PayloadNext' <=> q[1].kind = "write"
      BY <2>1, <3>3 DEF PayloadNext
    <3>7. FrameInv'
      <4>1. aligned'
        BY <2>1, <2>7, <3>3 DEF FrameInv
      <4>2. r # <<>> => /\ 1 \in 1 .. Len(q) - HeaderUnits
                        /\ HeaderUnits < Len(q) /\ r[1] = q[HeaderUnits + 1]
        <5>1. r # <<>> => Len(r) > 0
          BY <3>5, Empty
        <5> QED
          BY <3>1, <3>2, <3>5, <5>1
      <4>3. CASE q[1].kind = "write"
        <5>1. HeaderUnits + 1 \in 1 .. size /\ Len(r) > 0
          BY <3>1, <3>2, <3>5, <4>3
        <5>2. q[HeaderUnits + 1] = [q[1] EXCEPT !.part = HeaderUnits + 1]
          BY <3>1, <5>1
        <5>3. r # <<>> /\ r[1].part = HeaderUnits + 1 /\ r[1].kind = "write"
          <6>1. r # <<>>
            BY <3>5, <5>1, Empty
          <6> QED
            BY <3>1, <4>2, <4>3, <5>2, <6>1, UnitFields DEF UnitIn
        <5> QED
          BY <2>1, <3>5, <3>6, <4>1, <4>3, <5>3 DEF FrameInv
      <4>4. CASE q[1].kind # "write"
        <5>1. r # <<>> => r[1].part = 1
          BY <3>1, <3>2, <4>2, <4>4
        <5> QED
          BY <2>1, <3>5, <3>6, <4>1, <4>4, <5>1 DEF FrameInv
      <4> QED
        BY <4>3, <4>4
    <3>8. StepInv'
      <4> SUFFICES ASSUME Faultless' PROVE StepInv'
        BY DEF StepInv
      <4>1. /\ ~confused' /\ \A i \in 1 .. Len(q) : q[i].id <= sent
            /\ IF waiting = NoCommand
               THEN Silent /\ \A i \in 1 .. Len(q) : Quiet(q[i].kind, q[i].lba)
               ELSE waiting.id = sent /\ waiting.kind # "other" /\ Silent /\ Unread(q)
        <5>1. ~InHand(q)
          BY <1>2, <2>5 DEF InHand
        <5> QED
          BY <1>1, <1>2, <5>1 DEF StepInv, Faultless
      <4>2. /\ Silent' /\ UNCHANGED <<waiting, sent>>
        BY <1>2, <4>1 DEF Silent, StreamDone, hostVars, streamVars
      <4>3. \A i \in 1 .. Len(r) : HeaderUnits + i \in 1 .. Len(q) /\ r[i] = q[HeaderUnits + i]
        BY <3>1, <3>2, <3>5
      <4>4. \A i \in 1 .. Len(r) : r[i].id <= sent'
        BY <4>1, <4>2, <4>3
      <4>5. Quiet(q[1].kind, q[1].lba) => Quieted'
        BY <2>1, <3>3 DEF Quieted
      <4>6. CASE waiting = NoCommand
        <5>1. \A i \in 1 .. Len(r) : Quiet(r[i].kind, r[i].lba)
          BY <4>1, <4>3, <4>6
        <5>2. Quieted'
          BY <3>1, <4>1, <4>5, <4>6
        <5> QED
          BY <3>5, <4>1, <4>2, <4>4, <4>6, <5>1, <5>2 DEF StepInv
      <4>7. CASE waiting # NoCommand /\ OfTheAwaited(q, 1)
        <5>1. /\ size = Len(q) /\ cmd'.id = waiting.id /\ cmd'.kind = waiting.kind
              /\ cmd'.lba = Received(waiting.lba)
          BY <3>1, <3>3, <4>7 DEF OfTheAwaited
        <5>2. waiting.blk = 0 /\ waiting.part = 1
          BY <4>1, <4>7 DEF Unread
        <5>3. CASE q[1].kind = "write"
          <6>1. Len(r) = PayloadUnits
            BY <3>2, <3>5, <5>1, <5>3
          <6> QED
            BY <3>5, <3>6, <4>1, <4>2, <4>4, <4>7, <5>1, <5>2, <5>3, <6>1 DEF StepInv, InHand
        <5>4. CASE q[1].kind # "write"
          <6>1. r = <<>>
            BY <3>2, <3>5, <5>1, <5>4, Empty
          <6> QED
            BY <2>1, <3>3, <3>5, <4>1, <4>2, <4>4, <4>7, <5>1, <5>2, <5>4, <6>1 DEF StepInv, InHand
        <5> QED
          BY <5>3, <5>4
      <4>8. CASE waiting # NoCommand /\ ~OfTheAwaited(q, 1)
        <5>1. q[1].id # waiting.id /\ Quiet(q[1].kind, q[1].lba)
          BY <3>1, <4>1, <4>8 DEF Unread
        <5>2. \A i \in 1 .. HeaderUnits : q[i].id # waiting.id
          <6> TAKE i \in 1 .. HeaderUnits
          <6>1. q[i] = [q[1] EXCEPT !.part = i]
            BY <3>1, <3>2
          <6>2. q[i].id = q[1].id
            BY <3>1, <6>1 DEF UnitIn
          <6> QED
            BY <5>1, <6>2
        <5>3. Unread(r)
          BY <3>1, <3>4, <4>1, <4>8, <5>2, StillUnread
        <5>4. Unread(r)'
          BY <4>2, <5>3 DEF Unread, OfTheAwaited
        <5> QED
          BY <3>5, <4>1, <4>2, <4>4, <4>5, <4>8, <5>1, <5>4 DEF StepInv
      <4> QED
        BY <4>6, <4>7, <4>8
    <3> QED
      BY <2>3, <2>4, <3>7, <3>8
  <2> QED
    BY <2>6, <2>7
<1> QED
  BY <1>5, <1>6

-----------------------------------------------------------------------------
(* handle_command *)

\* The answer to the command in hand, whole, is what the host waits for.
LEMMA ReplyAnswers ==
  ASSUME TypeOK, Silent, waiting \in Awaited, waiting.blk = 0, waiting.part = 1,
         cmd.id = waiting.id, waiting.kind \notin {"stream", "other"},
         NEW ok \in BOOLEAN, NEW len \in 1 .. 1 + DataUnits, len = AnswerLen(waiting.kind, ok),
         tx' = tx \o Frame(cmd.id, 0, ok, len), UNCHANGED <<waiting, streamVars>>
  PROVE  Answered'
<1>1. cmd.id \in 0 .. MaxCommands /\ 0 \in Nat /\ tx \in Seq(UnitOut) /\ len \in Nat /\ len > 0
      /\ 1 \in 1 .. len /\ len \in 1 .. len
  BY SMTT(30), SerialAssumption DEF TypeOK
<1>2. PICK t : t = tx'
  OBVIOUS
<1>3. /\ tx' \in Seq(UnitOut) /\ Len(tx') = Len(tx) + len
      /\ \A i \in 1 .. len : tx'[Len(tx) + i] = [id |-> cmd.id, blk |-> 0, ok |-> ok, part |-> i]
  <2>1. /\ cmd.id \in 0 .. MaxCommands /\ 0 \in Nat /\ tx \in Seq(UnitOut)
        /\ ok \in BOOLEAN /\ len \in 1 .. 1 + DataUnits /\ tx' = tx \o Frame(cmd.id, 0, ok, len)
    BY <1>1
  <2> QED
    BY ONLY ZenonT(40), <2>1, FrameAdded
<1>4. Len(tx) = 0
  BY DEF Silent
<1>5. t # <<>> /\ Len(t) = len
  BY <1>1, <1>2, <1>3, <1>4
<1>6. ASSUME NEW i \in 1 .. len
      PROVE  t[i].id = waiting.id /\ t[i].blk = 0 /\ t[i].ok = ok /\ t[i].part = i
  <2>1. Len(tx) + i = i
    BY <1>1, <1>4
  <2>2. t[i] = [id |-> cmd.id, blk |-> 0, ok |-> ok, part |-> i]
    BY <1>2, <1>3, <2>1
  <2> QED
    BY <2>2
<1>7. ASSUME NEW i \in 1 .. len - 1 PROVE Follows(t[i], t[i + 1])'
  <2>1. i \in 1 .. len /\ i + 1 \in 1 .. len /\ i < len
    BY <1>1
  <2> QED
    BY <1>6, <2>1 DEF Follows
<1>8. StreamDone'
  BY DEF Silent, StreamDone, streamVars
<1>9. /\ \A i \in 1 .. Len(t) : t[i].id = waiting'.id
      /\ \A i \in 1 .. Len(t) - 1 : Follows(t[i], t[i + 1])'
  BY <1>5, <1>6, <1>7
<1>10. /\ t[1].blk = waiting'.blk /\ t[1].part = waiting'.part
       /\ t[Len(t)].part = AnswerLen(waiting'.kind, t[Len(t)].ok) /\ waiting'.kind # "stream"
  <2>1. t[1].blk = 0 /\ t[1].part = 1
    BY <1>1, <1>6
  <2>2. t[Len(t)].part = len /\ t[Len(t)].ok = ok
    BY <1>1, <1>5, <1>6
  <2> QED
    BY <2>1, <2>2
<1>11. tx' # <<>> /\ tx' = t
  BY <1>2, <1>5
<1> QED
  BY ONLY <1>8, <1>9, <1>10, <1>11 DEF Answered

LEMMA ReplyStep ==
  ASSUME SerialInv, Reply, pc' = "loop",
         \/ pc = "command" /\ cmd.kind \in {"version", "read"}
         \/ pc = "write" /\ cmd.kind = "write",
         UNCHANGED <<hostVars, rx, running, got, cmd, streamVars, pins, aligned, confused>>
  PROVE  SerialInv'
<1> USE DEF SerialInv
<1>1. PICK ok \in BOOLEAN :
        \/ Send(Frame(cmd.id, 0, ok, AnswerLen(cmd.kind, ok)))
        \/ cmd.kind = "read" /\ ok /\ StatusLost(Frame(cmd.id, 0, ok, AnswerLen(cmd.kind, ok)))
  BY DEF Reply
<1>2. PICK len : len = AnswerLen(cmd.kind, ok)
  OBVIOUS
<1>3. /\ cmd.kind \in AllKinds /\ cmd.kind \notin {"stream", "other"} /\ cmd.id \in 0 .. MaxCommands
      /\ len \in 1 .. 1 + DataUnits /\ len \in 0 .. 1 + DataUnits /\ 0 \in Nat
  <2>1. cmd.kind \in AllKinds /\ cmd.kind \notin {"stream", "other"} /\ cmd.id \in 0 .. MaxCommands
    BY DEF TypeOK
  <2>2. len \in 0 .. 1 + DataUnits /\ len # 0
    BY <1>2, <2>1, AnswerLenType
  <2> QED
    BY <2>1, <2>2, SerialAssumption
<1>4. PICK f : f = Frame(cmd.id, 0, ok, len)
  OBVIOUS
<1>5. f \in Seq(UnitOut) /\ f # <<>> /\ (Send(f) \/ StatusLost(f))
  <2>1. f \in Seq(UnitOut) /\ Len(f) = len
    <3>1. PICK id \in 0 .. MaxCommands : id = cmd.id
      BY <1>3
    <3>2. f = Frame(id, 0, ok, len)
      BY <1>4, <3>1
    <3>3. id \in 0 .. MaxCommands /\ 0 \in Nat /\ ok \in BOOLEAN /\ len \in 0 .. 1 + DataUnits
      BY <1>3
    <3> QED
      BY ONLY <3>2, <3>3, FrameType
  <2> QED
    BY <1>1, <1>2, <1>3, <1>4, <2>1
<1>6. /\ tx' \in Seq(UnitOut) /\ Len(tx') <= TxCapacity
      /\ faults \subseteq faults' /\ faults' \subseteq FaultKinds
      /\ "write" \notin faults' => tx' = tx \o Frame(cmd.id, 0, ok, len)
  BY <1>4, <1>5, SendFacts DEF TypeOK
<1>7. TypeOK'
  BY <1>6 DEF TypeOK, hostVars, streamVars
<1>8. Flow' = Flow
  BY DEF Flow, hostVars
<1>9. FrameInv' /\ PayloadInv'
  <2>1. ~PayloadNext /\ ~PayloadNext'
    BY DEF PayloadNext
  <2> QED
    BY <1>6, <1>8, <2>1, FrameBetween DEF PayloadInv
<1>10. StepInv'
  <2> SUFFICES ASSUME Faultless' PROVE StepInv'
    BY DEF StepInv
  <2>1. Faultless /\ tx' = tx \o Frame(cmd.id, 0, ok, len)
    BY <1>6, FaultsRemain
  <2>2. ~Quieted
    <3>1. pc = "command" => ~Quiet(cmd.kind, cmd.lba)
      BY <1>3, AnswerLenType DEF Quiet
    <3> QED
      BY <3>1 DEF Quieted
  <2>3. /\ waiting # NoCommand /\ ~confused /\ waiting.id = sent /\ waiting.kind # "other"
        /\ Silent /\ InHand(Flow)
    BY <2>1, <2>2 DEF StepInv
  <2>4. Flow = <<>> /\ cmd.id = waiting.id /\ cmd.kind = waiting.kind
        /\ waiting.blk = 0 /\ waiting.part = 1 /\ waiting \in Awaited
    BY <2>3 DEF InHand, PayloadNext, TypeOK, Awaited
  <2>5. len = AnswerLen(waiting.kind, ok) /\ waiting.kind \notin {"stream", "other"}
    BY <1>2, <1>3, <2>4
  <2>6. Answered'
    BY <1>3, <2>1, <2>3, <2>4, <2>5, ReplyAnswers DEF hostVars
  <2> QED
    BY <1>8, <2>3, <2>4, <2>6 DEF StepInv, hostVars
<1> QED
  BY <1>7, <1>9, <1>10

LEMMA CommandStep == ASSUME SerialInv, handle_command PROVE SerialInv'
<1> USE DEF SerialInv
<1>1. /\ pc = "command" /\ got = <<>>
      /\ UNCHANGED <<hostVars, rx, running, got, cmd, pins, aligned, confused>>
  BY DEF handle_command, TypeOK
<1>2. Flow' = Flow
  BY <1>1 DEF Flow, hostVars
<1>3. /\ cmd.kind \in AllKinds /\ cmd.lba \in Nat /\ cmd.id \in 0 .. MaxCommands
      /\ PayloadUnits \in Nat \ {0}
  BY SerialAssumption DEF TypeOK
<1>4. CASE cmd.kind \in {"version", "read"} /\ Reply /\ pc' = "loop" /\ UNCHANGED streamVars
  BY <1>1, <1>4, ReplyStep
<1>5. CASE cmd.kind = "write" /\ pc' = "payload" /\ UNCHANGED <<faults, tx, streamVars>>
  <2>1. TypeOK' /\ PayloadInv'
    BY <1>1, <1>3, <1>5 DEF TypeOK, PayloadInv, hostVars, streamVars
  <2>2. FrameInv'
    BY <1>1, <1>2, <1>5, FrameBetween DEF PayloadNext
  <2>3. StepInv'
    <3> SUFFICES ASSUME Faultless' PROVE StepInv'
      BY DEF StepInv
    <3>1. ~Quieted
      BY <1>1, <1>3, <1>5, AnswerLenType DEF Quieted, Quiet
    <3>2. /\ waiting # NoCommand /\ ~confused /\ waiting.id = sent /\ waiting.kind # "other"
          /\ Silent /\ InHand(Flow) /\ \A i \in 1 .. Len(Flow) : Flow[i].id <= sent
      BY <1>1, <1>5, <3>1 DEF StepInv, Faultless
    <3>3. PICK q : q = Flow
      OBVIOUS
    <3>4. InHand(q)'
      BY <1>1, <1>5, <3>2, <3>3 DEF InHand, PayloadNext, hostVars
    <3>5. Silent'
      BY <1>5, <3>2 DEF Silent, StreamDone, streamVars
    <3> QED
      BY <1>1, <1>2, <3>2, <3>3, <3>4, <3>5 DEF StepInv, hostVars
  <2> QED
    BY <2>1, <2>2, <2>3
<1>6. CASE \/ cmd.kind = "stream" /\ StartStream /\ pc' = "loop" /\ UNCHANGED <<faults, tx>>
           \/ cmd.kind = "other" /\ pc' = "loop" /\ UNCHANGED <<faults, tx, streamVars>>
  <2>1. pc' = "loop" /\ UNCHANGED <<faults, tx>>
    BY <1>6
  <2>2. TypeOK'
    <3>1. /\ do_stream' \in BOOLEAN /\ stream_end' \in Nat /\ stream_of' \in 0 .. MaxCommands
          /\ stream_offset' \in 0 .. stream_end'
      <4>1. CASE StartStream
        BY <1>3, <4>1 DEF StartStream
      <4>2. CASE UNCHANGED streamVars
        BY <4>2 DEF TypeOK, streamVars
      <4> QED
        BY <1>6, <4>1, <4>2
    <3> QED
      BY <1>1, <2>1, <3>1 DEF TypeOK, hostVars
  <2>3. FrameInv' /\ PayloadInv'
    <3>1. ~PayloadNext /\ ~PayloadNext'
      BY <1>1, <1>6 DEF PayloadNext
    <3> QED
      BY <1>1, <1>2, <2>1, <3>1, FrameBetween DEF PayloadInv
  <2>4. StepInv'
    <3> SUFFICES ASSUME Faultless' PROVE StepInv'
      BY DEF StepInv
    <3>1. Faultless
      BY <2>1 DEF Faultless
    <3>2. PICK q : q = Flow
      OBVIOUS
    <3>3. Quieted' /\ tx' = tx /\ UNCHANGED <<waiting, sent, confused>>
      BY <1>1, <2>1 DEF Quieted, hostVars
    <3>4. Silent => tx = <<>> /\ StreamDone
      BY DEF Silent
    <3>5. Quieted => (StreamDone => StreamDone')
      <4>1. CASE cmd.kind = "stream" /\ StartStream
        <5>1. Quieted => cmd.lba = 0
          BY <1>1, <1>3, <4>1, AnswerLenType DEF Quieted, Quiet
        <5> QED
          BY <4>1, <5>1 DEF StartStream, StreamDone
      <4>2. CASE UNCHANGED streamVars
        BY <4>2 DEF StreamDone, streamVars
      <4> QED
        BY <1>6, <4>1, <4>2
    <3>6. CASE waiting = NoCommand
      BY <1>2, <3>1, <3>3, <3>4, <3>5, <3>6 DEF StepInv, Silent
    <3>7. CASE waiting # NoCommand /\ Unread(q) /\ Silent /\ Quieted
      <4>1. Unread(q)'
        BY <3>3, <3>7 DEF Unread, OfTheAwaited
      <4> QED
        BY <1>2, <3>1, <3>2, <3>3, <3>4, <3>5, <3>7, <4>1 DEF StepInv, Silent
    <3>8. CASE waiting # NoCommand /\ InHand(q) /\ Silent
      <4>1. /\ cmd.kind = waiting.kind /\ cmd.id = waiting.id /\ waiting.blk = 0 /\ waiting.part = 1
            /\ cmd.lba = Received(waiting.lba) /\ q = <<>>
            /\ waiting.id = sent /\ waiting.kind # "other"
        BY <1>1, <1>6, <3>1, <3>8 DEF InHand, PayloadNext, StepInv
      <4>2. cmd.kind = "stream" /\ StartStream
        BY <1>6, <4>1
      <4>3. cmd.lba <= waiting.lba
        <5>1. waiting \in Awaited
          BY <3>8 DEF TypeOK, Awaited
        <5>2. waiting.lba \in Lengths
          BY <5>1, AwaitedFields
        <5> QED
          BY <4>1, <5>2, ReceivedFacts
      <4>4. Answered'
        BY <3>3, <3>4, <3>8, <4>1, <4>2, <4>3 DEF Answered, StartStream
      <4> QED
        BY <1>2, <2>1, <3>1, <3>2, <3>3, <3>8, <4>1, <4>4 DEF StepInv
    <3>9. waiting # NoCommand => (Unread(q) /\ Silent /\ Quieted) \/ (InHand(q) /\ Silent)
      BY <1>1, <3>1, <3>2 DEF StepInv
    <3> QED
      BY <3>6, <3>7, <3>8, <3>9
  <2> QED
    BY <2>2, <2>3, <2>4
<1> QED
  BY <1>4, <1>5, <1>6 DEF handle_command

LEMMA WriteStep == ASSUME SerialInv, WriteSector PROVE SerialInv'
  BY ReplyStep DEF WriteSector, SerialInv, PayloadInv

-----------------------------------------------------------------------------
(* The theorems *)

LEMMA SerialStep == SerialInv /\ [Next]_vars => SerialInv'
<1> SUFFICES ASSUME SerialInv, [Next]_vars PROVE SerialInv'
  OBVIOUS
<1>1. CASE Device
  BY <1>1, StreamStep, SelectStep, HeaderStep, PayloadStep, TimeoutStep, ReadFailsStep, CommandStep,
     WriteStep, LeaveStep DEF Device
<1>2. CASE Host
  BY <1>2, SendStep, StopStep, ReceiveStep DEF Host
<1>3. CASE Arrive
  BY <1>3, ArriveStep
<1>4. CASE signal_handler
  BY <1>4, SignalStep
<1>5. CASE UNCHANGED vars
  BY <1>5, IdleStep
<1> QED
  BY <1>1, <1>2, <1>3, <1>4, <1>5 DEF Next

\* The command loop, the line and the host always stand as SerialInv says: what comes is
\* whole commands from the unit the loop is about to read, and the awaited answer is
\* either still to be read for, in hand, or in the queue from the next unit on.
THEOREM Serial == Spec => []SerialInv
<1>1. Init => SerialInv
  BY SerialInit
<1>2. SerialInv /\ [Next]_vars => SerialInv'
  BY SerialStep
<1> QED
  BY <1>1, <1>2, PTL DEF Spec

\* Every variable of the loop keeps its type: the buffer of serial_read_exact is never
\* read past, the queue of write never filled past, a stream never run past its end.
THEOREM SerialTypes == Spec => []TypeOK
<1>1. SerialInv => TypeOK
  BY DEF SerialInv
<1> QED
  BY <1>1, Serial, PTL

\* However the bytes are cut into reads and wherever the loop stands when they come, it
\* reads headers as headers, as long as the host is neither killed nor late and no read fails.
THEOREM HeadersAreHeaders == Spec => []FramingHolds
<1>1. SerialInv => FramingHolds
  BY DEF SerialInv, FrameInv, Unbroken, FramingHolds
<1> QED
  BY <1>1, Serial, PTL

\* The host receives each unit of each answer in order, and nothing else, as long as
\* there is none of those faults and no write fails.
THEOREM SerialHostInStep == Spec => []HostInStep
<1>1. SerialInv => HostInStep
  BY DEF SerialInv, StepInv, Faultless, HostInStep
<1> QED
  BY <1>1, Serial, PTL
=============================================================================
