----------------------------- MODULE SdioProofs -----------------------------
(***************************************************************************)
(* Theorems about Sdio, for cards, blocks, FIFOs and transfers of any size.  *)
(***************************************************************************)
EXTENDS Sdio, TLAPS

Called(ops) == call # NoCall /\ call.op \in ops

\* The steps of a poll, of the calls, and a read or a write whose transfer has been begun.
Polls == {"poll", "commands", "address", "fifo", "status"}
InitSteps == {"reset", "ocr", "cid", "rca", "csd", "select", "wait", "waited", "panic"}
TransferSteps == {"settle", "count", "ask", "panic"} \cup Polls

USE DEF Polls, InitSteps, TransferSteps

InRead == Called(ReadOps) /\ pc \in {"count", "ask", "panic"} \cup Polls
InWrite == Called({"write"}) /\ pc \in {"count", "ask"} \cup Polls
-----------------------------------------------------------------------------
(* Types, and what each call goes through *)

DriverInv ==
  /\ call \in Calls \cup {NoCall}
  /\ call = NoCall <=> pc = "idle"
  /\ Called({"init"}) => pc \in InitSteps
  /\ Called(ReadOps \cup {"write"}) => pc \in TransferSteps
  /\ pc = "status" => Called({"write"})
  /\ rc \in {"none", "ok", "range", "stuck"}
  /\ buffer \in Seq([of : Values \cup {ExtCsd}, n : 1 .. BlockWords, good : BOOLEAN])
  /\ emmc_detected \in BOOLEAN /\ present \in BOOLEAN /\ clocked \in BOOLEAN
  /\ cmdSm \in {"unset", "waiting", "receiving"}
  /\ faults \in 0 .. MaxFaults /\ healthy \in BOOLEAN /\ leftover \in BOOLEAN
  /\ store \in [CardBlock -> Values]

CardState == {"idle", "ready", "ident", "stby", "tran", "data", "rcv", "prg"}

CardType ==
  [state : CardState, out : Seq(Values \cup {ExtCsd}), word : 0 .. BlockWords + 1,
   at : Nat, left : Nat, busy : BOOLEAN]

\* A card in the middle of a read is in the read the driver is in, and one that is in the
\* middle of a block is sent one.
CardInv ==
  /\ card \in CardType
  /\ card.state = "data" => InRead /\ pc \in Polls \cup {"panic"} /\ card.out # <<>>
  /\ card.state = "prg" => \E v \in Values : card.out = <<v>>
  /\ card.word # 0 => card.state = "rcv" /\ InWrite /\ pc \in Polls
-----------------------------------------------------------------------------
(* The data state machine *)

Unset == cmdSm = "unset" /\ datSm = "unset" /\ left = 0 /\ queue = <<>> /\ dma = 0

Quiet == datSm = "waiting" /\ left = 0 /\ queue = <<>>

\* What is on its way to the state machine is the end of what a read sends it: of k whole
\* blocks, and r more words.
ReadWord(r) == IF r = 0 THEN "go" ELSE IF r = 1 THEN "pad" ELSE "recv"

EndOfRead(q, k, r) ==
  /\ Len(q) = 3 * k + r
  /\ \A i \in 1 .. Len(q) : q[i] = ReadWord((Len(q) - i) % 3)

ReadTail(k, r) ==
  /\ EndOfRead(queue, k, r)
  /\ datSm = "receive" => r = 2 /\ left \in 1 .. BlockWords + 1
  /\ datSm = "next" => r # 0
  /\ datSm = "line" => k = 0 /\ r = 1
  /\ datSm # "receive" => left = 0

\* The words the state machine will hand to DMA before the queue is empty.
Owed(k, r) ==
  WordsToFetch(k) + IF datSm = "receive" THEN left ELSE IF r = 2 THEN 1 ELSE 0

\* Between the transfers, whatever failed before: DMA has at least what the state machine
\* may hand it.  The command after a wait for the line is the last of a read's as well.
Loose ==
  /\ datSm \in {"waiting", "next", "receive", "line"} /\ dma \in Nat
  /\ \E k \in 0 .. Len(queue), r \in 0 .. 2 : ReadTail(k, r) /\ dma >= Owed(k, r)

\* In a read, DMA has just that; the words that came and the blocks to come make up
\* what was asked for, and they are the right ones.
Incoming(k) == k + IF datSm = "receive" THEN 1 ELSE 0

BlockAt(i) == IF call.op = "ext_csd" THEN ExtCsd ELSE store[call.lba + i]

\* The words that came are the right ones, and so are the blocks that the card has to send.
Delivered == \A n \in 1 .. Len(buffer) : [of |-> buffer[n].of, n |-> buffer[n].n] = Expected(call, n)

Coming(k) ==
  card.state = "data" =>
    /\ InRange /\ Len(card.out) = Incoming(k)
    /\ \A i \in 1 .. Len(card.out) : card.out[i] = BlockAt(call.count - Len(card.out) + i - 1)

Reading(k, r) ==
  /\ ReadTail(k, r)
  /\ datSm = "waiting" => r = 0
  /\ dma = Owed(k, r)
  /\ Incoming(k) <= call.count
  /\ Len(buffer) = (call.count - k) * BlockWords - IF datSm = "receive" THEN left - 1 ELSE 0
  /\ Delivered
  /\ pc \in {"count", "ask"} => /\ k = call.count - 1 /\ datSm = "receive"
                                /\ left = BlockWords + 1 /\ buffer = <<>>
  /\ pc \in Polls \cup {"panic"} => card.state \in {"data", "tran", "idle"}
  /\ Coming(k)

ReadInv ==
  /\ datSm \in {"waiting", "next", "receive"}
  /\ \E k \in 0 .. call.count, r \in 0 .. 2 : Reading(k, r)

\* In a write, b blocks and k words of the next one have gone out.
Stored(n) == \A i \in 1 .. n : store[call.lba + i - 1] = call.data[i]

AllTaken ==
  \/ /\ card.state = "prg" /\ card.out = <<call.data[call.count]>>
     /\ card.at = call.lba + call.count - 1 /\ Stored(call.count - 1)
  \/ card.state = "tran" /\ Stored(call.count)

TakenSoFar(b, k) ==
  IF b = call.count THEN AllTaken
  ELSE /\ card.state = "rcv" /\ card.at = call.lba + b /\ card.left = call.count - b
       /\ card.word = (IF k = 0 THEN 0 ELSE k - 1)
       /\ Stored(b)

EndOfWrite(q, n, b, k) ==
  /\ Len(q) = (n - b) * BlockLength - k + 1
  /\ \A i \in 1 .. Len(q) : q[i] = WriteWords(n)[b * BlockLength + k + i]

Line(b, k) ==
  /\ b = call.count => k = 0
  /\ EndOfWrite(queue, call.count, b, k)
  /\ dma = 0
  /\ k = 0 => b # 0 /\ left = 0 /\ datSm = "next"
  /\ k # 0 => left = BlockLength - k /\ datSm = "send"

Follows(b, k) ==
  /\ card.word # 0 => card.word = k - 1
  /\ card.state = "rcv" => card.at + card.left = call.lba + call.count
                           /\ card.left >= call.count - b
  /\ healthy /\ InRange => TakenSoFar(b, k)

Sending(b, k) == Line(b, k) /\ Follows(b, k)

Sent == Quiet /\ dma = 0 /\ card.word = 0 /\ (healthy /\ InRange => AllTaken)

WriteInv ==
  IF pc \in Polls
  THEN \/ Sent
       \/ pc # "status" /\ \E b \in 0 .. call.count, k \in 0 .. BlockLength - 1 : Sending(b, k)
  ELSE Quiet /\ dma \in Nat

\* Outside the transfers nothing is under way, unless a read or a sd_wait gave up on it.
EngineInv ==
  /\ queue \in Seq(Word)
  /\ InRead => ReadInv
  /\ InWrite => WriteInv
  /\ ~InRead /\ ~InWrite => Unset \/ (Loose /\ (Quiet \/ leftover \/ pc = "waited"))

Inv == DriverInv /\ CardInv /\ EngineInv
-----------------------------------------------------------------------------
(* Calls and commands *)

LEMMA CallFields ==
  ASSUME NEW c \in Calls
  PROVE  /\ c.op \in {"init", "read", "ext_csd", "write"}
         /\ c.op # "init" => c.lba \in Nat /\ c.count \in Nat \ {0}
         /\ c.op = "write" => c.data \in [1 .. c.count -> Values]
<1>1. CASE c \in [op : {"init"}]
  BY <1>1
<1>2. CASE c \in [op : {"read"}, lba : Lbas, count : Counts]
  BY <1>2, CardAssumption
<1>3. CASE c \in [op : {"ext_csd"}, lba : {0}, count : {1}]
  BY <1>3
<1>4. CASE \E n \in Counts : c \in [op : {"write"}, lba : Lbas, count : {n}, data : [1 .. n -> Values]]
  BY <1>4, CardAssumption
<1> QED
  BY <1>1, <1>2, <1>3, <1>4 DEF Calls

\* How a command may go, and what it leaves.
LEMMA CommandEffect ==
  ASSUME DriverInv, NEW states, NEW checked \in BOOLEAN, NEW o \in Outcomes(states, checked), NEW to,
         Command(o, to)
  PROVE  /\ o \in {"ok", "garbled", "stuck", "silent"}
         /\ o \in {"ok", "garbled"} => card' = to /\ card.state \in states /\ present /\ clocked
         /\ o \in {"stuck", "silent"} => card' = card
         /\ o # "ok" => healthy' = FALSE
         /\ healthy' \in BOOLEAN /\ (healthy' = TRUE => healthy = TRUE /\ o = "ok")
         /\ cmdSm' \in {"unset", "waiting", "receiving"} /\ (cmdSm' = "unset" <=> cmdSm = "unset")
         /\ faults' \in 0 .. MaxFaults
<1>1. o \in {"ok", "garbled", "stuck", "silent"} /\ (o = "garbled" => faults < MaxFaults)
  BY DEF Outcomes
<1>2. o \in {"ok", "garbled"} => card.state \in states /\ present /\ clocked
  BY DEF Outcomes, Reachable
<1>3. o = "silent" => cmdSm = "waiting"
  BY DEF Outcomes
<1>4. faults' \in 0 .. MaxFaults
  BY <1>1, CardAssumption DEF Command, DriverInv
<1>5. healthy' = (healthy /\ o = "ok") /\ healthy \in BOOLEAN
  BY DEF Command, DriverInv
<1>6. /\ o \in {"ok", "garbled"} => card' = to
      /\ o \in {"stuck", "silent"} => card' = card
  BY DEF Command
<1>7. cmdSm' \in {"unset", "waiting", "receiving"} /\ (cmdSm' = "unset" <=> cmdSm = "unset")
  BY <1>3 DEF Command, DriverInv
<1>8. healthy' \in BOOLEAN /\ (healthy' = TRUE => healthy = TRUE /\ o = "ok") /\ (o # "ok" => healthy' = FALSE)
  BY <1>5
<1> QED
  BY <1>1, <1>2, <1>4, <1>6, <1>7, <1>8

\* How a call goes on or ends.
LEMMA ControlMoves ==
  ASSUME DriverInv, call # NoCall,
         \/ \E result \in {"ok", "range", "stuck"} : Return(result)
         \/ End("ok") /\ leftover' \in BOOLEAN
         \/ \E step \in {"panic", pc} : GoTo(step)
         \/ Called({"init"}) /\ \E step \in InitSteps : GoTo(step)
         \/ Called(ReadOps \cup {"write"}) /\ \E step \in TransferSteps :
              (step = "status" => Called({"write"})) /\ GoTo(step)
  PROVE  /\ call' \in Calls \cup {NoCall} /\ (call' = NoCall <=> pc' = "idle")
         /\ Called({"init"})' => pc' \in InitSteps
         /\ Called(ReadOps \cup {"write"})' => pc' \in TransferSteps
         /\ pc' = "status" => Called({"write"})'
         /\ rc' \in {"none", "ok", "range", "stuck"} /\ leftover' \in BOOLEAN
<1>1. CASE \E result \in {"ok", "range", "stuck"} : Return(result)
  <2>1. leftover' \in BOOLEAN
    BY <1>1 DEF Return, DriverInv
  <2>2. call' = NoCall /\ pc' = "idle" /\ rc' \in {"ok", "range", "stuck"}
    BY <1>1 DEF Return, End
  <2> QED
    BY <2>1, <2>2 DEF Called
<1>5. CASE End("ok") /\ leftover' \in BOOLEAN
  BY <1>5 DEF End, Called
<1>2. CASE \E step \in {"panic", pc} : GoTo(step)
  BY <1>2 DEF GoTo, DriverInv, Called, ReadOps
<1>3. CASE Called({"init"}) /\ \E step \in InitSteps : GoTo(step)
  BY <1>3 DEF GoTo, DriverInv, Called, ReadOps
<1>4. CASE Called(ReadOps \cup {"write"}) /\ \E step \in TransferSteps :
              (step = "status" => Called({"write"})) /\ GoTo(step)
  BY <1>4 DEF GoTo, DriverInv, Called, ReadOps
<1> QED
  BY <1>1, <1>2, <1>3, <1>4, <1>5

\* The step says which call it is of.
LEMMA CallOfStep ==
  ASSUME DriverInv
  PROVE  /\ pc # "idle" => call \in Calls /\ call # NoCall
         /\ pc \in InitSteps \ {"panic"} => Called({"init"})
         /\ pc \in TransferSteps \ {"panic"} => Called(ReadOps \cup {"write"})
         /\ pc = "status" => Called({"write"})
<1>1. pc # "idle" => call \in Calls /\ call # NoCall
  BY DEF DriverInv
<1>2. pc # "idle" => call.op \in {"init", "read", "ext_csd", "write"}
  BY <1>1, CallFields
<1> QED
  BY <1>1, <1>2 DEF DriverInv, Called, ReadOps

LEMMA IdentifySteps ==
  /\ DOMAIN Identify = {"cid", "rca", "csd", "select"}
  /\ \A p \in DOMAIN Identify :
       /\ Identify[p].from \in {"ready", "ident", "stby"}
       /\ Identify[p].to \in {"ident", "stby", "tran"}
       /\ Identify[p].checked \in BOOLEAN
       /\ Identify[p].then \in {"rca", "csd", "select", "wait"}
<1>1. DOMAIN Identify = {"cid", "rca", "csd", "select"}
  BY DEF Identify
<1>2. \A p \in {"cid", "rca", "csd", "select"} :
        /\ Identify[p].from \in {"ready", "ident", "stby"}
        /\ Identify[p].to \in {"ident", "stby", "tran"}
        /\ Identify[p].then \in {"rca", "csd", "select", "wait"}
  BY DEF Identify
<1>3. /\ Identify["cid"].checked = FALSE /\ Identify["rca"].checked = TRUE
      /\ Identify["csd"].checked = FALSE /\ Identify["select"].checked = TRUE
  BY DEF Identify
<1>4. \A p \in {"cid", "rca", "csd", "select"} : Identify[p].checked \in BOOLEAN
  BY <1>3
<1> QED
  BY <1>1, <1>2, <1>4

\* A command that fails returns an error or panics.
LEMMA Failing ==
  ASSUME NEW o, Fail(o)
  PROVE  o # "ok" /\ ((o # "garbled" /\ Return("stuck")) \/ (o = "garbled" /\ GoTo("panic")))
  BY DEF Fail
-----------------------------------------------------------------------------
(* What is on its way to the state machine *)

LEMMA Division ==
  ASSUME NEW x \in Nat, NEW m \in Nat \ {0}
  PROVE  /\ x \div m \in Nat /\ x % m \in 0 .. m - 1
         /\ x = m * (x \div m) + (x % m)
  OBVIOUS

\* Remainders are unique: the next multiple of m is m away.
LEMMA Larger ==
  ASSUME NEW m \in Nat \ {0}, NEW p \in Nat, NEW q \in Nat, p < q
  PROVE  m * p + m <= m * q
<1>1. PICK d \in Nat : q = p + 1 + d
  <2>1. q - p - 1 \in Nat /\ q = p + 1 + (q - p - 1)
    OBVIOUS
  <2> QED
    BY <2>1
<1>2. m * (p + 1 + d) = m * p + m + m * d
  OBVIOUS
<1>3. m * d \in Nat /\ m * p \in Nat
  OBVIOUS
<1> QED
  BY <1>1, <1>2, <1>3

LEMMA SameRemainder ==
  ASSUME NEW m \in Nat \ {0}, NEW p \in Nat, NEW q \in Nat,
         NEW r \in 0 .. m - 1, NEW s \in 0 .. m - 1, m * p + r = m * q + s
  PROVE  r = s
<1>0. m * p \in Nat /\ m * q \in Nat
  OBVIOUS
<1>1. ~(p < q)
  <2> SUFFICES ASSUME p < q PROVE FALSE
    OBVIOUS
  <2>1. m * p + m <= m * q
    BY Larger
  <2> QED
    BY <1>0, <2>1
<1>2. ~(q < p)
  <2> SUFFICES ASSUME q < p PROVE FALSE
    OBVIOUS
  <2>1. m * q + m <= m * p
    BY Larger
  <2> QED
    BY <1>0, <2>1
<1>3. p = q
  BY <1>1, <1>2
<1> QED
  BY <1>0, <1>3

LEMMA QuotientAndRemainder ==
  ASSUME NEW m \in Nat \ {0}, NEW q \in Nat, NEW r \in 0 .. m - 1
  PROVE  (q * m + r) % m = r /\ (q * m + r) \div m = q
<1> DEFINE x == q * m + r
<1>1. m * q \in Nat /\ q * m = m * q
  OBVIOUS
<1>2. x \in Nat /\ x = m * q + r
  BY <1>1
<1>3. x \div m \in Nat /\ x % m \in 0 .. m - 1 /\ x = m * (x \div m) + (x % m)
  BY <1>2, Division
<1> HIDE DEF x
<1>4. m * (x \div m) \in Nat
  BY <1>3
<1>5. x % m = r
  BY ONLY <1>2, <1>3, SameRemainder, m \in Nat \ {0}, q \in Nat, r \in 0 .. m - 1
<1>6. ~(x \div m < q)
  <2> SUFFICES ASSUME x \div m < q PROVE FALSE
    OBVIOUS
  <2>1. m * (x \div m) + m <= m * q
    BY <1>3, Larger
  <2> QED
    BY <1>1, <1>2, <1>3, <1>4, <1>5, <2>1
<1>7. ~(q < x \div m)
  <2> SUFFICES ASSUME q < x \div m PROVE FALSE
    OBVIOUS
  <2>1. m * q + m <= m * (x \div m)
    BY <1>3, Larger
  <2> QED
    BY <1>1, <1>2, <1>3, <1>4, <1>5, <2>1
<1>8. x \div m = q
  <2>1. \A y, z \in Nat : ~(y < z) /\ ~(z < y) => y = z
    OBVIOUS
  <2>2. x \div m \in Nat
    BY <1>3
  <2> QED
    BY ONLY <1>6, <1>7, <2>1, <2>2, q \in Nat
<1> QED
  BY <1>5, <1>8 DEF x

\* A command or a word of a block that is repeated.
LEMMA Repeated ==
  ASSUME NEW S, NEW words \in Seq(S), words # <<>>, NEW n \in Nat
  PROVE  /\ Repeat(words, n) \in Seq(S) /\ Len(Repeat(words, n)) = n * Len(words)
         /\ \A b \in 0 .. n - 1, k \in 1 .. Len(words) :
              Repeat(words, n)[b * Len(words) + k] = words[k]
<1> DEFINE m == Len(words)
<1>1. m \in Nat \ {0}
  OBVIOUS
<1>2. n * m \in Nat
  BY <1>1
<1>3. \A i \in 1 .. n * m : ((i - 1) % m) + 1 \in 1 .. m
  BY <1>1, <1>2
<1>4. \A j \in 1 .. m : words[j] \in S
  OBVIOUS
<1>5. Repeat(words, n) = [i \in 1 .. n * m |-> words[((i - 1) % m) + 1]]
  BY DEF Repeat
<1> HIDE DEF m
<1>6. Repeat(words, n) \in Seq(S) /\ Len(Repeat(words, n)) = n * m
  BY <1>2, <1>3, <1>4, <1>5
<1>7. ASSUME NEW b \in 0 .. n - 1, NEW k \in 1 .. m PROVE Repeat(words, n)[b * m + k] = words[k]
  <2>1. b * m \in Nat /\ b * m + m <= n * m
    <3>1. m * b + m <= m * n
      BY <1>1, Larger
    <3> QED
      BY <1>1, <3>1
  <2>2. b * m + k \in 1 .. n * m
    BY <1>1, <1>2, <2>1
  <2>3. ((b * m + k) - 1) % m = k - 1
    <3>1. (b * m + k) - 1 = b * m + (k - 1) /\ k - 1 \in 0 .. m - 1
      BY <1>1, <2>1
    <3>2. (b * m + (k - 1)) % m = k - 1
      <4>1. b \in Nat
        OBVIOUS
      <4>2. \A r \in 0 .. m - 1 : (b * m + r) % m = r
        BY ONLY <1>1, <4>1, QuotientAndRemainder
      <4> QED
        BY ONLY <3>1, <4>2
    <3> QED
      BY ONLY <3>1, <3>2
  <2> QED
    BY <1>1, <1>5, <2>2, <2>3
<1> QED
  BY <1>6, <1>7 DEF m

LEMMA WriteWordAt ==
  ASSUME NEW n \in Nat
  PROVE  /\ WriteWords(n) \in Seq(Word) /\ Len(WriteWords(n)) = n * BlockLength + 1
         /\ WriteWords(n)[n * BlockLength + 1] = "go"
         /\ \A b \in 0 .. n - 1, k \in 1 .. BlockLength :
              WriteWords(n)[b * BlockLength + k] = WordOfBlock(k)
<1> DEFINE block == [k \in 1 .. BlockLength |-> WordOfBlock(k)]
           q == Repeat(block, n)
<1>1. BlockLength \in Nat \ {0}
  BY CardAssumption DEF BlockLength
<1>2. block \in Seq(Word) /\ Len(block) = BlockLength /\ block # <<>>
  <2>1. \A k \in 1 .. BlockLength : WordOfBlock(k) \in Word
    BY DEF WordOfBlock, Word
  <2>2. block \in Seq(Word) /\ Len(block) = BlockLength
    BY <1>1, <2>1
  <2> QED
    BY <1>1, <2>2
<1>3. \A k \in 1 .. BlockLength : block[k] = WordOfBlock(k)
  OBVIOUS
<1> HIDE DEF block
<1>4. /\ q \in Seq(Word) /\ Len(q) = n * BlockLength
      /\ \A b \in 0 .. n - 1, k \in 1 .. BlockLength : q[b * BlockLength + k] = block[k]
  BY <1>2, Repeated
<1>5. WriteWords(n) = Append(q, "go")
  BY DEF WriteWords, block
<1> HIDE DEF q
<1>6. n * BlockLength \in Nat
  BY <1>1
<1>7. /\ WriteWords(n) \in Seq(Word) /\ Len(WriteWords(n)) = n * BlockLength + 1
      /\ WriteWords(n)[n * BlockLength + 1] = "go"
  BY <1>4, <1>5, <1>6 DEF Word
<1>8. ASSUME NEW b \in 0 .. n - 1, NEW k \in 1 .. BlockLength
      PROVE  WriteWords(n)[b * BlockLength + k] = WordOfBlock(k)
  <2>1. b * BlockLength \in Nat /\ b * BlockLength + BlockLength <= n * BlockLength
    <3>1. BlockLength * b + BlockLength <= BlockLength * n
      BY <1>1, Larger
    <3> QED
      BY <1>1, <3>1
  <2>2. b * BlockLength + k \in 1 .. n * BlockLength
    BY <1>1, <1>6, <2>1
  <2>3. \A i \in 1 .. Len(q) : Append(q, "go")[i] = q[i]
    BY <1>4, <1>6
  <2> QED
    BY <1>3, <1>4, <1>5, <2>2, <2>3
<1> QED
  BY <1>7, <1>8

\* What is on its way in a write, and what is after one more word.
LEMMA NextOfWrite ==
  ASSUME NEW n \in Nat, NEW b \in 0 .. n, NEW k \in 0 .. BlockLength - 1, b = n => k = 0,
         NEW q \in Seq(Word), EndOfWrite(q, n, b, k)
  PROVE  /\ q # <<>> /\ Head(q) = IF b = n THEN "go" ELSE WordOfBlock(k + 1)
         /\ Tail(q) \in Seq(Word)
         /\ b = n => Tail(q) = <<>>
         /\ b < n /\ k + 1 < BlockLength => EndOfWrite(Tail(q), n, b, k + 1)
         /\ k + 1 = BlockLength => EndOfWrite(Tail(q), n, b + 1, 0)
<1>1. BlockLength \in Nat /\ BlockLength > 3
  BY CardAssumption DEF BlockLength
<1>2. n * BlockLength \in Nat /\ b * BlockLength \in Nat /\ (n - b) * BlockLength \in Nat
  BY <1>1
<1>3. b < n => (n - b) * BlockLength >= BlockLength
  <2> SUFFICES ASSUME b < n PROVE (n - b) * BlockLength >= BlockLength
    OBVIOUS
  <2>1. BlockLength * 0 + BlockLength <= BlockLength * (n - b)
    BY <1>1, Larger
  <2> QED
    BY <1>1, <2>1
<1>4. b = n => (n - b) * BlockLength = 0
  BY <1>1
<1>5. Len(q) = (n - b) * BlockLength - k + 1 /\ Len(q) \in Nat /\ Len(q) > 0
  BY <1>1, <1>2, <1>3, <1>4 DEF EndOfWrite
<1>6. /\ q # <<>> /\ Head(q) = q[1] /\ Tail(q) \in Seq(Word) /\ Len(Tail(q)) = Len(q) - 1
      /\ \A i \in 1 .. Len(q) - 1 : Tail(q)[i] = q[i + 1]
  BY <1>5
<1>7. \A i \in 1 .. Len(q) : q[i] = WriteWords(n)[b * BlockLength + k + i]
  BY DEF EndOfWrite
<1>8. q[1] = WriteWords(n)[b * BlockLength + k + 1]
  BY <1>5, <1>7
<1>9. Head(q) = IF b = n THEN "go" ELSE WordOfBlock(k + 1)
  <2>1. CASE b = n
    <3>1. k = 0
      BY <2>1
    <3>2. \A x \in Nat : x + 0 + 1 = x + 1
      OBVIOUS
    <3>3. q[1] = WriteWords(n)[n * BlockLength + 1]
      BY <1>2, <1>8, <2>1, <3>1, <3>2
    <3> QED
      BY <1>6, <2>1, <3>3, WriteWordAt
  <2>2. CASE b # n
    <3>1. b \in 0 .. n - 1 /\ k + 1 \in 1 .. BlockLength
      BY <1>1, <2>2
    <3>2. WriteWords(n)[b * BlockLength + (k + 1)] = WordOfBlock(k + 1)
      BY <3>1, WriteWordAt
    <3>3. b * BlockLength + (k + 1) = b * BlockLength + k + 1
      BY <1>2
    <3> QED
      BY <1>6, <1>8, <2>2, <3>2, <3>3
  <2> QED
    BY <2>1, <2>2
<1>10. ASSUME b = n PROVE Tail(q) = <<>>
  <2>1. (n - b) * BlockLength = 0 /\ k = 0
    BY <1>4, <1>10
  <2>2. Len(q) = 1
    BY <1>5, <2>1
  <2>3. Len(Tail(q)) = 0
    BY <1>6, <2>2
  <2>4. \A s \in Seq(Word) : Len(s) = 0 => s = <<>>
    OBVIOUS
  <2> QED
    BY <1>6, <2>3, <2>4
<1>11. ASSUME b < n, k + 1 < BlockLength PROVE EndOfWrite(Tail(q), n, b, k + 1)
  <2>1. Len(Tail(q)) = (n - b) * BlockLength - (k + 1) + 1
    BY <1>2, <1>5, <1>6
  <2>2. ASSUME NEW i \in 1 .. Len(Tail(q))
        PROVE  Tail(q)[i] = WriteWords(n)[b * BlockLength + (k + 1) + i]
    <3>1. i \in 1 .. Len(q) - 1 /\ i + 1 \in 1 .. Len(q)
      BY <1>5, <1>6
    <3>2. Tail(q)[i] = WriteWords(n)[b * BlockLength + k + (i + 1)]
      BY <1>6, <1>7, <3>1
    <3>3. b * BlockLength + k + (i + 1) = b * BlockLength + (k + 1) + i
      BY <1>2, <3>1
    <3> QED
      BY <3>2, <3>3
  <2> QED
    BY <2>1, <2>2 DEF EndOfWrite
<1>12. ASSUME k + 1 = BlockLength PROVE EndOfWrite(Tail(q), n, b + 1, 0)
  <2>1. (n - (b + 1)) * BlockLength = (n - b) * BlockLength - BlockLength
        /\ (b + 1) * BlockLength = b * BlockLength + BlockLength
    BY <1>1
  <2>2. Len(Tail(q)) = (n - (b + 1)) * BlockLength - 0 + 1
    <3>1. \A x, l, j, m \in Nat : l = x - j + 1 /\ j + 1 = m => l - 1 = (x - m) - 0 + 1
      OBVIOUS
    <3>2. Len(q) - 1 = ((n - b) * BlockLength - BlockLength) - 0 + 1
      BY <1>1, <1>2, <1>5, <1>12, <3>1
    <3> QED
      BY <1>6, <2>1, <3>2
  <2>3. ASSUME NEW i \in 1 .. Len(Tail(q))
        PROVE  Tail(q)[i] = WriteWords(n)[(b + 1) * BlockLength + 0 + i]
    <3>1. i \in 1 .. Len(q) - 1 /\ i + 1 \in 1 .. Len(q)
      BY <1>5, <1>6
    <3>2. Tail(q)[i] = WriteWords(n)[b * BlockLength + k + (i + 1)]
      BY <1>6, <1>7, <3>1
    <3>3. b * BlockLength + k + (i + 1) = (b + 1) * BlockLength + 0 + i
      <4>1. \A x, j, l, m \in Nat : j + 1 = m => x + j + (l + 1) = (x + m) + 0 + l
        OBVIOUS
      <4>2. b * BlockLength + k + (i + 1) = (b * BlockLength + BlockLength) + 0 + i
        BY <1>1, <1>2, <1>12, <4>1
      <4> QED
        BY <2>1, <4>2
    <3> QED
      BY <3>2, <3>3
  <2> QED
    BY <2>2, <2>3 DEF EndOfWrite
<1> QED
  BY <1>6, <1>9, <1>10, <1>11, <1>12

\* What is on its way to a read, and what is after one more word.
LEMMA NextOfRead ==
  ASSUME NEW k \in Nat, NEW r \in 0 .. 2, NEW q \in Seq(Word), EndOfRead(q, k, r), q # <<>>
  PROVE  /\ Tail(q) \in Seq(Word)
         /\ r = 0 => k > 0 /\ Head(q) = "recv" /\ EndOfRead(Tail(q), k - 1, 2)
         /\ r = 1 => Head(q) = "go" /\ EndOfRead(Tail(q), k, 0)
         /\ r = 2 => Head(q) = "pad" /\ EndOfRead(Tail(q), k, 1)
<1>1. Len(q) \in Nat /\ Len(q) > 0 /\ Len(q) = 3 * k + r
  BY DEF EndOfRead
<1>2. /\ Head(q) = q[1] /\ Tail(q) \in Seq(Word) /\ Len(Tail(q)) = Len(q) - 1
      /\ \A i \in 1 .. Len(q) - 1 : Tail(q)[i] = q[i + 1]
  BY <1>1
<1>3. \A i \in 1 .. Len(q) : q[i] = ReadWord((Len(q) - i) % 3)
  BY DEF EndOfRead
<1>4. Head(q) = ReadWord((Len(q) - 1) % 3)
  BY <1>1, <1>2, <1>3
<1>5. ASSUME NEW i \in 1 .. Len(Tail(q)) PROVE Tail(q)[i] = ReadWord((Len(Tail(q)) - i) % 3)
  <2>1. i \in 1 .. Len(q) - 1 /\ i + 1 \in 1 .. Len(q) /\ Len(q) - (i + 1) = Len(Tail(q)) - i
    BY <1>1, <1>2
  <2> QED
    BY <1>2, <1>3, <2>1
<1>6. CASE r = 0
  <2>1. k > 0 /\ (Len(q) - 1) % 3 = 2 /\ Len(Tail(q)) = 3 * (k - 1) + 2
    BY <1>1, <1>2, <1>6
  <2> QED
    BY <1>2, <1>4, <1>5, <1>6, <2>1 DEF EndOfRead, ReadWord
<1>7. CASE r = 1
  <2>1. (Len(q) - 1) % 3 = 0 /\ Len(Tail(q)) = 3 * k + 0
    BY <1>1, <1>2, <1>7
  <2> QED
    BY <1>2, <1>4, <1>5, <1>7, <2>1 DEF EndOfRead, ReadWord
<1>8. CASE r = 2
  <2>1. (Len(q) - 1) % 3 = 1 /\ Len(Tail(q)) = 3 * k + 1
    BY <1>1, <1>2, <1>8
  <2> QED
    BY <1>2, <1>4, <1>5, <1>8, <2>1 DEF EndOfRead, ReadWord
<1> QED
  BY <1>2, <1>6, <1>7, <1>8
-----------------------------------------------------------------------------
(* A word of a write *)

LEMMA BlockIs ==
  ASSUME NEW n \in Nat, NEW b \in 0 .. n - 1, NEW q, EndOfWrite(q, n, b, BlockLength - 1)
  PROVE  n - Len(q) \div BlockLength = b + 1
<1>1. BlockLength \in Nat \ {0} /\ BlockLength > 3
  BY CardAssumption DEF BlockLength
<1>2. n - b - 1 \in Nat /\ (n - b) * BlockLength = (n - b - 1) * BlockLength + BlockLength
  BY <1>1
<1>3. (n - b - 1) * BlockLength \in Nat
  BY <1>1, <1>2
<1>4. \A x, m \in Nat : (x + m) - (m - 1) + 1 = x + 2
  OBVIOUS
<1>5. Len(q) = (n - b - 1) * BlockLength + 2
  BY <1>1, <1>2, <1>3, <1>4 DEF EndOfWrite
<1>6. Len(q) \div BlockLength = n - b - 1
  <2>1. 2 \in 0 .. BlockLength - 1
    BY <1>1
  <2> QED
    BY <1>1, <1>2, <1>5, <2>1, QuotientAndRemainder
<1> QED
  BY <1>2, <1>6

LEMMA InSend ==
  ASSUME Inv, datSm = "send"
  PROVE  /\ InWrite /\ pc \in Polls \ {"status"} /\ call \in Calls /\ call.op = "write"
         /\ call.count \in Nat \ {0} /\ call.lba \in Nat /\ call.data \in [1 .. call.count -> Values]
         /\ \E b \in 0 .. call.count - 1, k \in 1 .. BlockLength - 1 : Sending(b, k)
<1>1. ~ReadInv /\ ~Unset /\ ~Loose /\ ~Quiet /\ ~Sent
  BY DEF ReadInv, Unset, Loose, Quiet, Sent
<1>2. InWrite
  BY <1>1 DEF Inv, EngineInv
<1>3. WriteInv
  BY <1>2 DEF Inv, EngineInv
<1>4. pc \in Polls \ {"status"} /\ \E b \in 0 .. call.count, k \in 0 .. BlockLength - 1 : Sending(b, k)
  BY <1>1, <1>3 DEF WriteInv
<1>5. call \in Calls /\ call.op = "write"
  BY <1>2 DEF Inv, DriverInv, InWrite, Called
<1>6. /\ call.count \in Nat \ {0} /\ call.lba \in Nat
      /\ call.data \in [1 .. call.count -> Values]
  BY <1>5, CallFields
<1>7. PICK b \in 0 .. call.count, k \in 0 .. BlockLength - 1 : Sending(b, k)
  BY <1>4
<1>8. k # 0
  BY <1>7 DEF Sending, Line, Follows
<1>9. b # call.count
  BY <1>7, <1>8 DEF Sending, Line, Follows
<1>10. BlockLength \in Nat
  BY CardAssumption DEF BlockLength
<1>11. b \in 0 .. call.count - 1 /\ k \in 1 .. BlockLength - 1
  BY <1>6, <1>8, <1>9, <1>10
<1> QED
  BY <1>2, <1>4, <1>5, <1>6, <1>7, <1>11

\* What is left to do after a word has gone out.
LEMMA WordSent ==
  ASSUME Inv, SendWord, NEW b \in 0 .. call.count - 1, NEW k \in 1 .. BlockLength - 1, Sending(b, k)
  PROVE  /\ Head(queue) = WordOfBlock(k + 1) /\ queue' \in Seq(Word)
         /\ k + 1 < BlockLength =>
              /\ EndOfWrite(queue', call.count, b, k + 1)
              /\ datSm' = "send" /\ left' = BlockLength - (k + 1)
         /\ k + 1 = BlockLength =>
              /\ EndOfWrite(queue', call.count, b + 1, 0) /\ datSm' = "next" /\ left' = 0
         /\ UNCHANGED <<driverVars, cmdSm, dma, present, clocked, leftover>>
<1>1. datSm = "send" /\ queue' = Tail(queue) /\ left' = left - 1
      /\ datSm' = IF left = 1 THEN "next" ELSE "send"
  BY DEF SendWord
<1>2. left = BlockLength - k /\ EndOfWrite(queue, call.count, b, k)
  BY DEF Sending, Line, Follows
<1>3. call.count \in Nat \ {0}
  BY <1>1, InSend
<1>4. BlockLength \in Nat /\ BlockLength > 3
  BY CardAssumption DEF BlockLength
<1>5. b \in 0 .. call.count /\ b < call.count /\ k \in 0 .. BlockLength - 1
  BY <1>3, <1>4
<1>6. queue \in Seq(Word)
  BY DEF Inv, EngineInv
<1>7. /\ Head(queue) = WordOfBlock(k + 1) /\ Tail(queue) \in Seq(Word)
      /\ k + 1 < BlockLength => EndOfWrite(Tail(queue), call.count, b, k + 1)
      /\ k + 1 = BlockLength => EndOfWrite(Tail(queue), call.count, b + 1, 0)
  BY <1>2, <1>3, <1>5, <1>6, NextOfWrite
<1>8. k + 1 < BlockLength => left # 1 /\ left - 1 = BlockLength - (k + 1)
  BY <1>2, <1>4
<1>9. k + 1 = BlockLength => left = 1 /\ left - 1 = 0
  BY <1>2, <1>4
<1> QED
  BY <1>1, <1>7, <1>8, <1>9 DEF SendWord

\* A card that changes in some of its fields.
LEMMA CardFields ==
  ASSUME NEW c \in CardType
  PROVE  /\ c.state \in CardState /\ c.out \in Seq(Values \cup {ExtCsd})
         /\ c.word \in 0 .. BlockWords + 1 /\ c.at \in Nat /\ c.left \in Nat /\ c.busy \in BOOLEAN
         /\ \A w \in 0 .. BlockWords + 1 : [c EXCEPT !.word = w] \in CardType
         /\ \A s \in CardState, o \in Seq(Values \cup {ExtCsd}), w \in 0 .. BlockWords + 1 :
              [c EXCEPT !.state = s, !.out = o, !.word = w] \in CardType
         /\ \A a \in Nat, l \in Nat, w \in 0 .. BlockWords + 1, y \in BOOLEAN :
              [c EXCEPT !.at = a, !.left = l, !.word = w, !.busy = y] \in CardType
         /\ \A o \in Seq(Values \cup {ExtCsd}) : [c EXCEPT !.out = o] \in CardType
         /\ \A y \in BOOLEAN : [c EXCEPT !.busy = y] \in CardType
         /\ \A a \in Nat, l \in Nat : [c EXCEPT !.at = a, !.left = l] \in CardType
  BY Zenon DEF CardType

LEMMA RestingCard ==
  ASSUME NEW s \in CardState
  PROVE  Resting(s) \in CardType /\ Resting(s).state = s /\ Resting(s).word = 0 /\ Resting(s).out = <<>>
<1>1. 0 \in 0 .. BlockWords + 1 /\ 0 \in Nat
  BY CardAssumption
<1>2. <<>> \in Seq(Values \cup {ExtCsd}) /\ FALSE \in BOOLEAN
  OBVIOUS
<1> QED
  BY Zenon, <1>1, <1>2 DEF Resting, CardType

LEMMA PoweringCard == PoweringUp \in CardType /\ PoweringUp.state = "idle" /\ PoweringUp.word = 0
<1>1. Resting("idle") \in CardType /\ Resting("idle").state = "idle" /\ Resting("idle").word = 0
  BY RestingCard DEF CardState
<1>2. PoweringUp \in CardType
  BY <1>1, CardFields DEF PoweringUp
<1>3. PoweringUp.state = "idle" /\ PoweringUp.word = 0
  BY <1>1 DEF PoweringUp, Resting
<1> QED
  BY <1>2, <1>3

\* What the card makes of the word.
StartTaken(k) ==
  /\ k = 1 /\ store' = store
  /\ \E w \in {0, 1} : /\ card' = [card EXCEPT !.word = w]
                       /\ w # 0 => card.state = "rcv"
                       /\ healthy' => w = 1

DataTaken(k) ==
  /\ k \in 2 .. BlockLength - 2 /\ store' = store
  /\ card' = [card EXCEPT !.word = IF card.word > 0 THEN card.word + 1 ELSE 0]

BlockMissed(k) == k = BlockLength - 1 /\ card.word = 0 /\ UNCHANGED <<card, store>>

LastTaken(b, k) ==
  /\ k = BlockLength - 1 /\ card.word = BlockWords + 1 /\ card.left = 1 /\ store' = store
  /\ card' = [card EXCEPT !.state = "prg", !.out = <<call.data[b + 1]>>, !.word = 0]

BlockTaken(b, k) ==
  /\ k = BlockLength - 1 /\ card.word = BlockWords + 1 /\ card.left \in Nat \ {0, 1}
  /\ store' = [store EXCEPT ![card.at] = call.data[b + 1]]
  /\ \E y \in BOOLEAN :
       card' = [card EXCEPT !.at = card.at + 1, !.left = card.left - 1, !.word = 0, !.busy = y]

BlockRefused(k) ==
  k = BlockLength - 1 /\ card' = Resting("tran") /\ store' = store /\ healthy' = FALSE

LEMMA WordTaken ==
  ASSUME Inv, SendWord, NEW b \in 0 .. call.count - 1, NEW k \in 1 .. BlockLength - 1, Sending(b, k)
  PROVE  /\ \/ StartTaken(k) \/ DataTaken(k) \/ BlockMissed(k) \/ LastTaken(b, k)
            \/ BlockTaken(b, k) \/ BlockRefused(k)
         /\ faults' \in 0 .. MaxFaults /\ healthy' \in BOOLEAN /\ (healthy' => healthy)
<1>1. /\ Head(queue) = WordOfBlock(k + 1) /\ TakeWord(Head(queue))
      /\ datSm = "send"
  BY WordSent DEF SendWord
<1>2. /\ call.op = "write" /\ call.count \in Nat \ {0} /\ call.data \in [1 .. call.count -> Values]
  BY <1>1, InSend
<1>3. BlockLength \in Nat /\ BlockLength > 3 /\ BlockLength = BlockWords + 3 /\ BlockWords \in Nat
  BY CardAssumption DEF BlockLength
<1>4. /\ faults \in 0 .. MaxFaults /\ healthy \in BOOLEAN /\ MaxFaults \in Nat
      /\ card \in CardType
  BY CardAssumption DEF Inv, DriverInv, CardInv
<1>5. card.word \in 0 .. BlockWords + 1 /\ card.left \in Nat
  BY <1>4, CardFields
<1>6. card.word \in {0, k - 1}
  BY DEF Sending, Line, Follows
<1>7. card.word # 0 => card.left >= call.count - b
  BY DEF Inv, CardInv, Sending, Line, Follows
<1>8. call.count - b >= 1
  BY <1>2
<1>9. CASE k = 1
  <2>1. Head(queue) = "start"
    BY <1>1, <1>9 DEF WordOfBlock
  <2>2. \E takes \in BOOLEAN :
          /\ takes => card.state = "rcv"
          /\ card' = [card EXCEPT !.word = IF takes THEN 1 ELSE 0]
          /\ healthy' = (healthy /\ takes)
          /\ UNCHANGED <<store, faults>>
    BY <1>1, <2>1 DEF TakeWord
  <2>3. StartTaken(k)
    BY <1>9, <2>2 DEF StartTaken
  <2>4. faults' \in 0 .. MaxFaults
    BY <1>4, <2>2
  <2>5. healthy' \in BOOLEAN /\ (healthy' => healthy)
    BY <1>4, <2>2
  <2> QED
    BY <2>3, <2>4, <2>5
<1>10. CASE k \in 2 .. BlockLength - 2
  <2>1. Head(queue) = "data"
    <3>1. k + 1 # 1 /\ k + 1 # 2 /\ k + 1 < BlockLength
      BY <1>3, <1>10
    <3> QED
      BY <1>1, <3>1 DEF WordOfBlock
  <2>2. /\ card' = [card EXCEPT !.word = IF card.word > 0 THEN card.word + 1 ELSE 0]
        /\ UNCHANGED <<store, faults, healthy>>
    BY <1>1, <2>1 DEF TakeWord
  <2>3. DataTaken(k)
    BY <1>10, <2>2 DEF DataTaken
  <2> QED
    BY <1>4, <2>2, <2>3
<1>11. CASE k = BlockLength - 1
  <2>1. Head(queue) = "crc"
    <3>1. k + 1 # 1 /\ k + 1 # 2 /\ ~(k + 1 < BlockLength)
      BY <1>3, <1>11
    <3> QED
      BY <1>1, <3>1 DEF WordOfBlock
  <2>2. k - 1 = BlockWords + 1
    BY <1>3, <1>11
  <2>3. BlockBeingSent = call.data[b + 1]
    <3>1. EndOfWrite(queue, call.count, b, BlockLength - 1)
      BY <1>11 DEF Sending, Line, Follows
    <3> QED
      BY <1>2, <3>1, BlockIs DEF BlockBeingSent
  <2>4. CASE card.word # BlockWords + 1 /\ UNCHANGED <<card, store, faults, healthy>>
    <3>1. BlockMissed(k)
      BY <1>6, <1>11, <2>2, <2>4 DEF BlockMissed
    <3> QED
      BY <1>4, <2>4, <3>1
  <2>5. CASE /\ card.word = BlockWords + 1 /\ card.left = 1
             /\ card' = [card EXCEPT !.state = "prg", !.out = <<BlockBeingSent>>, !.word = 0]
             /\ UNCHANGED <<store, faults, healthy>>
    <3>1. LastTaken(b, k)
      BY <1>11, <2>3, <2>5 DEF LastTaken
    <3> QED
      BY <1>4, <2>5, <3>1
  <2>6. CASE /\ card.word = BlockWords + 1 /\ card.left # 1
             /\ \E busy \in BOOLEAN :
                  card' = [card EXCEPT !.at = card.at + 1, !.left = card.left - 1, !.word = 0,
                                       !.busy = busy]
             /\ store' = [store EXCEPT ![card.at] = BlockBeingSent]
             /\ UNCHANGED <<faults, healthy>>
    <3>1. card.word # 0
      BY <1>3, <2>6
    <3>2. card.left >= 1
      BY <1>2, <1>5, <1>7, <1>8, <3>1
    <3>3. card.left \in Nat \ {0, 1}
      BY <1>5, <2>6, <3>2
    <3>4. BlockTaken(b, k)
      BY <1>11, <2>3, <2>6, <3>3 DEF BlockTaken
    <3> QED
      BY <1>4, <2>6, <3>4
  <2>7. CASE /\ faults < MaxFaults /\ faults' = faults + 1 /\ card' = Resting("tran")
             /\ healthy' = FALSE /\ UNCHANGED store
    <3>1. BlockRefused(k)
      BY <1>11, <2>7 DEF BlockRefused
    <3>2. faults' \in 0 .. MaxFaults
      BY <1>4, <2>7
    <3> QED
      BY <2>7, <3>1, <3>2
  <2> QED
    BY <1>1, <2>1, <2>4, <2>5, <2>6, <2>7 DEF TakeWord
<1> QED
  BY <1>3, <1>9, <1>10, <1>11
-----------------------------------------------------------------------------
(* The driver *)

CallInv ==
  /\ call \in Calls \cup {NoCall}
  /\ call = NoCall <=> pc = "idle"
  /\ Called({"init"}) => pc \in InitSteps
  /\ Called(ReadOps \cup {"write"}) => pc \in TransferSteps
  /\ pc = "status" => Called({"write"})
  /\ rc \in {"none", "ok", "range", "stuck"} /\ leftover \in BOOLEAN

WorldInv ==
  /\ buffer \in Seq([of : Values \cup {ExtCsd}, n : 1 .. BlockWords, good : BOOLEAN])
  /\ emmc_detected \in BOOLEAN /\ present \in BOOLEAN /\ clocked \in BOOLEAN
  /\ cmdSm \in {"unset", "waiting", "receiving"}
  /\ faults \in 0 .. MaxFaults /\ healthy \in BOOLEAN
  /\ store \in [CardBlock -> Values]

LEMMA DriverParts == CallInv' /\ WorldInv' => DriverInv'
  BY DEF DriverInv, CallInv, WorldInv

LEMMA CallKept ==
  ASSUME DriverInv, UNCHANGED <<call, pc, rc, leftover>>
  PROVE  CallInv'
  BY DEF DriverInv, CallInv, Called

LEMMA CallMoved ==
  ASSUME DriverInv, call # NoCall,
         \/ \E result \in {"ok", "range", "stuck"} : Return(result)
         \/ End("ok") /\ leftover' \in BOOLEAN
         \/ \E step \in {"panic", pc} : GoTo(step)
         \/ Called({"init"}) /\ \E step \in InitSteps : GoTo(step)
         \/ Called(ReadOps \cup {"write"}) /\ \E step \in TransferSteps :
              (step = "status" => Called({"write"})) /\ GoTo(step)
  PROVE  CallInv'
  BY ControlMoves DEF CallInv

LEMMA WorldKept ==
  ASSUME DriverInv, UNCHANGED <<buffer, emmc_detected, present, clocked, cmdSm, faults, healthy, store>>
  PROVE  WorldInv'
  BY DEF DriverInv, WorldInv

LEMMA WorldCommanded ==
  ASSUME DriverInv, NEW states, NEW checked \in BOOLEAN, NEW o \in Outcomes(states, checked), NEW to,
         Command(o, to), UNCHANGED <<buffer, emmc_detected, present, clocked, store>>
  PROVE  WorldInv'
<1>1. cmdSm' \in {"unset", "waiting", "receiving"} /\ faults' \in 0 .. MaxFaults /\ healthy' \in BOOLEAN
  BY CommandEffect
<1> QED
  BY <1>1 DEF DriverInv, WorldInv

LEMMA Noted ==
  ASSUME NEW old \in Seq([of : Values \cup {ExtCsd}, n : 1 .. BlockWords, good : BOOLEAN]),
         NEW v \in Values \cup {ExtCsd}, NEW m \in 1 .. BlockWords, NEW g \in BOOLEAN
  PROVE  Append(old, [of |-> v, n |-> m, good |-> g])
           \in Seq([of : Values \cup {ExtCsd}, n : 1 .. BlockWords, good : BOOLEAN])
<1>1. [of |-> v, n |-> m, good |-> g] \in [of : Values \cup {ExtCsd}, n : 1 .. BlockWords, good : BOOLEAN]
  BY Zenon
<1>2. \A S : \A q \in Seq(S) : \A e \in S : Append(q, e) \in Seq(S)
  OBVIOUS
<1> QED
  BY <1>1, <1>2

\* A word is received in a read whose block the card is sending.
LEMMA Receiving ==
  ASSUME Inv, ReceiveWord
  PROVE  /\ InRead /\ pc \in Polls \cup {"panic"} /\ ReadInv /\ left \in 1 .. BlockWords + 1
         /\ card.out # <<>> /\ Head(card.out) \in Values \cup {ExtCsd}
         /\ Tail(card.out) \in Seq(Values \cup {ExtCsd}) /\ Len(card.out) \in Nat \ {0}
<1>1. InRead /\ pc \in Polls \cup {"panic"} /\ card.out # <<>> /\ card.out \in Seq(Values \cup {ExtCsd})
  BY DEF Inv, CardInv, CardType, ReceiveWord
<1>2. ReadInv
  BY <1>1 DEF Inv, EngineInv
<1>3. left \in 1 .. BlockWords + 1
  BY <1>2 DEF ReadInv, Reading, ReadTail, ReceiveWord
<1> QED
  BY <1>1, <1>2, <1>3

LEMMA DriverStep == Inv /\ [Next]_vars => DriverInv'
<1> SUFFICES ASSUME Inv, [Next]_vars PROVE DriverInv'
  OBVIOUS
<1>0. DriverInv
  BY DEF Inv
<1>1. CASE UNCHANGED vars
  BY <1>0, <1>1, CallKept, WorldKept, DriverParts DEF vars, driverVars, cardVars, history
<1>2. ASSUME NEW c \in Calls, Begin(c) PROVE DriverInv'
  <2>1. WorldInv'
    BY <1>0, <1>2, WorldKept DEF Begin, cardVars, history
  <2>2. c # NoCall /\ c.op \in {"init", "read", "ext_csd", "write"}
    BY CallFields, NoCallAssumption
  <2>3. CallInv'
    BY <1>0, <1>2, <2>2 DEF Begin, CallInv, Called, ReadOps, DriverInv, history
  <2> QED
    BY <2>1, <2>3, DriverParts
<1>3. CASE Detect \/ IsdInit
  <2>1. CallInv'
    BY <1>0, <1>3, CallKept DEF Detect, IsdInit, driverVars
  <2>2. WorldInv'
    BY <1>0, <1>3 DEF Detect, IsdInit, driverVars, WorldInv, DriverInv
  <2> QED
    BY <2>1, <2>2, DriverParts
<1>4. CASE Reset
  <2>1. \/ Called({"init"}) /\ GoTo("ocr")
        \/ Called({"init"}) /\ pc' = "ocr" /\ UNCHANGED <<call, rc>>
    BY <1>0, <1>4, CallOfStep DEF Reset
  <2>2. leftover' \in BOOLEAN
    BY <1>4 DEF Reset
  <2>3. CallInv'
    BY <1>0, <1>4, <2>1, <2>2 DEF CallInv, Called, ReadOps, DriverInv, Reset
  <2>4. WorldInv'
    BY <1>0, <1>4 DEF Reset, DriverInv, WorldInv
  <2> QED
    BY <2>3, <2>4, DriverParts
<1>5. CASE SendOpCond
  <2>1. Called({"init"}) /\ call # NoCall
    BY <1>0, <1>5, CallOfStep DEF SendOpCond
  <2>2. CallInv'
    BY <1>0, <1>5, <2>1, CallMoved DEF SendOpCond
  <2>3. WorldInv'
    BY <1>0, <1>5, WorldCommanded DEF SendOpCond
  <2> QED
    BY <2>2, <2>3, DriverParts
<1>6. CASE SendIdentify
  <2>1. pc \in {"cid", "rca", "csd", "select"}
    BY <1>6, IdentifySteps DEF SendIdentify
  <2>2. Called({"init"}) /\ call # NoCall
    BY <1>0, <2>1, CallOfStep
  <2>3. PICK o \in Outcomes({Identify[pc].from}, Identify[pc].checked) :
          /\ Command(o, Resting(Identify[pc].to))
          /\ GoTo("panic") \/ GoTo(Identify[pc].then)
    BY <1>6 DEF SendIdentify
  <2>4. Identify[pc].then \in {"rca", "csd", "select", "wait"} /\ Identify[pc].checked \in BOOLEAN
    BY <2>1, IdentifySteps
  <2>5. CallInv'
    BY <1>0, <2>2, <2>3, <2>4, CallMoved
  <2>6. WorldInv'
    BY <1>0, <1>6, <2>3, <2>4, WorldCommanded DEF SendIdentify
  <2> QED
    BY <2>5, <2>6, DriverParts
<1>19. CASE SdWait
  <2>1. Called({"init"}) /\ call # NoCall
    BY <1>0, <1>19, CallOfStep DEF SdWait
  <2>2. GoTo("waited") \/ Return("ok")
    BY <1>19 DEF SdWait
  <2>3. CallInv'
    BY <1>0, <2>1, <2>2, CallMoved
  <2>4. WorldInv'
    BY <1>0, <1>19, WorldKept DEF SdWait, cardVars
  <2> QED
    BY <2>3, <2>4, DriverParts
<1>20. CASE SdWaitEnds
  <2>1. Called({"init"}) /\ call # NoCall
    BY <1>0, <1>20, CallOfStep DEF SdWaitEnds
  <2>2. End("ok") /\ leftover' \in BOOLEAN
    BY <1>0, <1>20 DEF SdWaitEnds, DriverInv
  <2>3. CallInv'
    BY <1>0, <2>1, <2>2, CallMoved
  <2>4. WorldInv'
    BY <1>0, <1>20, WorldKept DEF SdWaitEnds, cardVars
  <2> QED
    BY <2>3, <2>4, DriverParts
<1>7. CASE Settle
  <2>1. Called(ReadOps \cup {"write"}) /\ call # NoCall
    BY <1>0, <1>7, CallOfStep DEF Settle
  <2>2. CallInv'
    BY <1>0, <1>7, <2>1, CallMoved DEF Settle
  <2>3. buffer' \in {buffer, <<>>}
    BY <1>7 DEF Settle
  <2>4. WorldInv'
    <3>1. buffer' \in Seq([of : Values \cup {ExtCsd}, n : 1 .. BlockWords, good : BOOLEAN])
      <4>1. \A S : <<>> \in Seq(S)
        OBVIOUS
      <4> QED
        BY <1>0, <2>3, <4>1 DEF DriverInv
    <3> QED
      BY <1>0, <1>7, <3>1 DEF Settle, cardVars, DriverInv, WorldInv
  <2> QED
    BY <2>2, <2>4, DriverParts
<1>8. CASE SetBlockCount
  <2>1. Called(ReadOps \cup {"write"}) /\ call # NoCall
    BY <1>0, <1>8, CallOfStep DEF SetBlockCount
  <2>2. CallInv'
    BY <1>0, <1>8, <2>1, CallMoved, Failing DEF SetBlockCount
  <2>3. WorldInv'
    BY <1>0, <1>8, WorldCommanded DEF SetBlockCount
  <2> QED
    BY <2>2, <2>3, DriverParts
<1>9. CASE AskRead
  <2>1. Called(ReadOps \cup {"write"}) /\ call # NoCall
    BY <1>0, <1>9, CallOfStep DEF AskRead
  <2>2. CallInv'
    BY <1>0, <1>9, <2>1, CallMoved, Failing DEF AskRead
  <2>3. WorldInv'
    BY <1>0, <1>9, WorldCommanded DEF AskRead
  <2> QED
    BY <2>2, <2>3, DriverParts
<1>10. CASE AskWrite
  <2>1. Called(ReadOps \cup {"write"}) /\ call # NoCall
    BY <1>0, <1>10, CallOfStep DEF AskWrite
  <2>2. CallInv'
    BY <1>0, <1>10, <2>1, CallMoved, Failing DEF AskWrite
  <2>3. WorldInv'
    BY <1>0, <1>10, WorldCommanded DEF AskWrite
  <2> QED
    BY <2>2, <2>3, DriverParts
<1>11. CASE PollRead
  <2>1. Called(ReadOps \cup {"write"}) /\ call # NoCall
    BY <1>0, <1>11, CallOfStep DEF PollRead
  <2>2. CallInv'
    BY <1>0, <1>11, <2>1, CallMoved DEF PollRead, LookAt
  <2>3. WorldInv'
    BY <1>0, <1>11, WorldKept DEF PollRead, cardVars
  <2> QED
    BY <2>2, <2>3, DriverParts
<1>12. CASE PollWrite
  <2>1. Called(ReadOps \cup {"write"}) /\ call # NoCall
    BY <1>0, <1>12, CallOfStep DEF PollWrite
  <2>2. CallInv'
    <3>1. Called({"write"})
      BY <1>12, <2>1 DEF PollWrite, Called
    <3>2. \E step \in TransferSteps : (step = "status" => Called({"write"})) /\ GoTo(step)
      BY <1>12, <3>1 DEF PollWrite, LookAt
    <3> QED
      BY <1>0, <2>1, <3>2, CallMoved
  <2>3. WorldInv'
    BY <1>0, <1>12, WorldKept DEF PollWrite, cardVars
  <2> QED
    BY <2>2, <2>3, DriverParts
<1>21. CASE AskStatus
  <2>1. Called(ReadOps \cup {"write"}) /\ call # NoCall
    BY <1>0, <1>21, CallOfStep DEF AskStatus
  <2>2. CallInv'
    BY <1>0, <1>21, <2>1, CallMoved DEF AskStatus
  <2>3. WorldInv'
    BY <1>0, <1>21, WorldCommanded DEF AskStatus
  <2> QED
    BY <2>2, <2>3, DriverParts
<1>13. CASE FetchCommand \/ LineRises
  BY <1>0, <1>13, CallKept, WorldKept, DriverParts
  DEF FetchCommand, LineRises, driverVars, cardVars, history
<1>14. CASE ReceiveWord
  <2>1. CallInv'
    BY <1>0, <1>14, CallKept DEF ReceiveWord
  <2>2. /\ left \in 1 .. BlockWords + 1 /\ card.out # <<>> /\ BlockWords \in Nat
        /\ Head(card.out) \in Values \cup {ExtCsd}
    BY <1>14, Receiving, CardAssumption
  <2>3. buffer' \in Seq([of : Values \cup {ExtCsd}, n : 1 .. BlockWords, good : BOOLEAN])
    <3>1. buffer \in Seq([of : Values \cup {ExtCsd}, n : 1 .. BlockWords, good : BOOLEAN])
      BY <1>0 DEF DriverInv
    <3>2. CASE left > 1
      <4>1. BlockWords + 2 - left \in 1 .. BlockWords
        BY <2>2, <3>2
      <4>2. PICK g \in BOOLEAN : buffer' = Append(buffer, [of |-> Head(card.out),
                                                           n |-> BlockWords + 2 - left, good |-> g])
        <5>1. left # 1
          BY <2>2, <3>2
        <5> QED
          BY Zenon, <1>14, <5>1 DEF ReceiveWord
      <4> QED
        BY <2>2, <3>1, <4>1, <4>2, Noted
    <3>3. CASE left = 1
      BY <1>14, <3>1, <3>3 DEF ReceiveWord
    <3> QED
      BY <2>2, <3>2, <3>3
  <2>4. faults' \in 0 .. MaxFaults
    <3>1. faults' = faults \/ (faults < MaxFaults /\ faults' = faults + 1)
      BY Zenon, <1>14 DEF ReceiveWord
    <3> QED
      BY <1>0, <3>1, CardAssumption DEF DriverInv
  <2>5. WorldInv'
    BY <1>0, <1>14, <2>3, <2>4 DEF ReceiveWord, DriverInv, WorldInv
  <2> QED
    BY <2>1, <2>5, DriverParts
<1>15. CASE SendWord
  <2>1. CallInv'
    BY <1>0, <1>15, CallKept DEF SendWord, driverVars
  <2>2. PICK b \in 0 .. call.count - 1, k \in 1 .. BlockLength - 1 : Sending(b, k)
    BY <1>15, InSend DEF SendWord
  <2>3. faults' \in 0 .. MaxFaults /\ healthy' \in BOOLEAN
    BY <1>15, <2>2, WordTaken
  <2>4. store' = store \/ \E v \in Values : store' = [store EXCEPT ![card.at] = v]
    <3>1. call.data[b + 1] \in Values
      <4>1. call.data \in [1 .. call.count -> Values] /\ call.count \in Nat
        BY <1>15, InSend DEF SendWord
      <4>2. b + 1 \in 1 .. call.count
        BY <4>1
      <4> QED
        BY <4>1, <4>2
    <3> QED
      BY <1>15, <2>2, <3>1, WordTaken
      DEF StartTaken, DataTaken, BlockMissed, LastTaken, BlockTaken, BlockRefused
  <2>5. store' \in [CardBlock -> Values]
    BY <1>0, <2>4 DEF DriverInv
  <2>6. WorldInv'
    BY <1>0, <1>15, <2>3, <2>5 DEF SendWord, DriverInv, WorldInv, driverVars
  <2> QED
    BY <2>1, <2>6, DriverParts
<1>16. CASE Ready \/ Arrive
  <2>1. CallInv'
    BY <1>0, <1>16, CallKept DEF Ready, Arrive, driverVars, history
  <2>2. WorldInv'
    BY <1>0, <1>16 DEF Ready, Arrive, DriverInv, WorldInv, driverVars, history
  <2> QED
    BY <2>1, <2>2, DriverParts
<1>18. CASE Leave
  <2>1. CallInv'
    BY <1>0, <1>18, CallKept DEF Leave, driverVars
  <2>2. faults' \in 0 .. MaxFaults
    BY <1>0, <1>18, CardAssumption DEF Leave, DriverInv
  <2>3. WorldInv'
    BY <1>0, <1>18, <2>2 DEF Leave, DriverInv, WorldInv, driverVars
  <2> QED
    BY <2>1, <2>3, DriverParts
<1>17. CASE Program
  <2>1. CallInv'
    BY <1>0, <1>17, CallKept DEF Program, driverVars, history
  <2>2. Head(card.out) \in Values
    BY <1>17 DEF Program, Inv, CardInv
  <2>3. store' \in [CardBlock -> Values]
    BY <1>0, <1>17, <2>2 DEF Program, DriverInv
  <2>4. WorldInv'
    BY <1>0, <1>17, <2>3 DEF Program, DriverInv, WorldInv, driverVars, history
  <2> QED
    BY <2>1, <2>4, DriverParts
<1> QED
  BY <1>1, <1>2, <1>3, <1>4, <1>5, <1>6, <1>7, <1>8, <1>9, <1>10, <1>11, <1>12, <1>13, <1>14,
     <1>15, <1>16, <1>17, <1>18, <1>19, <1>20, <1>21 DEF Next, Driver
-----------------------------------------------------------------------------
(* The card *)

LEMMA CardKept ==
  ASSUME CardInv, UNCHANGED <<card, call, pc>>
  PROVE  CardInv'
  BY DEF CardInv, InRead, InWrite, Called

\* A card that is in the middle of nothing, or begins afresh.
LEMMA CardCalm ==
  ASSUME CardInv, card.state # "data", card.word = 0, card' = card
  PROVE  CardInv'
  BY DEF CardInv

LEMMA CardAfresh ==
  ASSUME \/ \E s \in {"ready", "ident", "stby", "tran"} : card' = Resting(s)
         \/ card' = PoweringUp
  PROVE  CardInv'
<1>1. /\ card' \in CardType /\ card'.state \notin {"data", "prg"} /\ card'.word = 0
  BY RestingCard, PoweringCard DEF CardState
<1> QED
  BY <1>1 DEF CardInv

\* Outside the polls of a transfer the card is calm.
LEMMA CalmOutside ==
  ASSUME CardInv, ~(InRead /\ pc \in Polls \cup {"panic"}), ~(InWrite /\ pc \in Polls)
  PROVE  card.state # "data" /\ card.word = 0
  BY DEF CardInv

LEMMA InitCall ==
  ASSUME Called({"init"})
  PROVE  ~InRead /\ ~InWrite
  BY DEF Called, InRead, InWrite, ReadOps

\* The state a card asked for blocks is in.
LEMMA AskedCard ==
  ASSUME NEW o \in Seq(Values \cup {ExtCsd})
  PROVE  /\ [Resting("data") EXCEPT !.out = o] \in CardType
         /\ [Resting("data") EXCEPT !.out = o].state = "data"
         /\ [Resting("data") EXCEPT !.out = o].out = o
         /\ [Resting("data") EXCEPT !.out = o].word = 0
<1>1. Resting("data") \in CardType
  BY RestingCard DEF CardState
<1>2. [Resting("data") EXCEPT !.out = o] \in CardType
  BY <1>1, CardFields
<1>3. /\ [Resting("data") EXCEPT !.out = o].state = "data"
      /\ [Resting("data") EXCEPT !.out = o].out = o
      /\ [Resting("data") EXCEPT !.out = o].word = 0
  BY DEF Resting
<1> QED
  BY <1>2, <1>3

ReceivingCard(a, l) == [Resting("rcv") EXCEPT !.at = a, !.left = l]

LEMMA ToldCard ==
  ASSUME NEW a \in Nat, NEW l \in Nat
  PROVE  /\ ReceivingCard(a, l) \in CardType /\ ReceivingCard(a, l).state = "rcv"
         /\ ReceivingCard(a, l).at = a /\ ReceivingCard(a, l).left = l
         /\ ReceivingCard(a, l).word = 0
<1>1. Resting("rcv") \in CardType
  BY RestingCard DEF CardState
<1>2. ReceivingCard(a, l) \in CardType
  BY <1>1, CardFields DEF ReceivingCard
<1>3. /\ ReceivingCard(a, l).state = "rcv" /\ ReceivingCard(a, l).at = a
      /\ ReceivingCard(a, l).left = l /\ ReceivingCard(a, l).word = 0
  BY DEF Resting, ReceivingCard
<1> QED
  BY <1>2, <1>3

\* The blocks a read asks for.
AskedBlocks ==
  IF call.op = "ext_csd" THEN <<ExtCsd>> ELSE [i \in 1 .. call.count |-> store[call.lba + i - 1]]

LEMMA BlocksAsked ==
  ASSUME Inv, Called(ReadOps), InRange
  PROVE  /\ AskedBlocks \in Seq(Values \cup {ExtCsd}) /\ Len(AskedBlocks) = call.count
         /\ call.count \in Nat \ {0} /\ call.lba \in Nat
         /\ \A i \in 1 .. Len(AskedBlocks) : AskedBlocks[i] = BlockAt(i - 1)
<1>1. call \in Calls /\ call.op \in {"read", "ext_csd"}
  BY DEF Inv, DriverInv, Called, ReadOps
<1>2. call.count \in Nat \ {0} /\ call.lba \in Nat /\ (call.op = "ext_csd" => call.count = 1)
  <2>1. call.count \in Nat \ {0} /\ call.lba \in Nat
    BY <1>1, CallFields
  <2>2. call.op = "ext_csd" => call.count = 1
    BY <1>1 DEF Calls
  <2> QED
    BY <2>1, <2>2
<1>3. CASE call.op = "ext_csd"
  BY <1>2, <1>3 DEF AskedBlocks, BlockAt
<1>4. CASE call.op # "ext_csd"
  <2>1. store \in [CardBlock -> Values] /\ CardBlocks \in Nat
    BY CardAssumption DEF Inv, DriverInv
  <2>2. ASSUME NEW i \in 1 .. call.count PROVE store[call.lba + i - 1] \in Values \cup {ExtCsd}
    <3>1. call.lba + i - 1 \in CardBlock
      BY <1>2, <1>4, <2>1 DEF InRange, CardBlock
    <3> QED
      BY <2>1, <3>1
  <2>3. AskedBlocks = [i \in 1 .. call.count |-> store[call.lba + i - 1]]
    BY <1>4 DEF AskedBlocks
  <2>4. AskedBlocks \in Seq(Values \cup {ExtCsd}) /\ Len(AskedBlocks) = call.count
    BY <1>2, <2>2, <2>3
  <2>5. ASSUME NEW i \in 1 .. call.count PROVE AskedBlocks[i] = BlockAt(i - 1)
    <3>1. call.lba + i - 1 = call.lba + (i - 1)
      BY <1>2
    <3> QED
      BY <1>4, <2>3, <3>1 DEF BlockAt
  <2> QED
    BY <1>2, <2>4, <2>5
<1> QED
  BY <1>3, <1>4

\* What AskRead and AskWrite may do, by outcome.
LEMMA Asked ==
  ASSUME Inv, AskRead
  PROVE  \/ Called(ReadOps) /\ card' = card
         \/ Called(ReadOps) /\ InRange /\ pc' \in Polls \cup {"panic"} /\ call' = call
            /\ card.state = "tran" /\ card' = [Resting("data") EXCEPT !.out = AskedBlocks]
<1>1. Called(ReadOps) /\ call # NoCall
  BY CallOfStep DEF Inv, AskRead, Called
<1>2. PICK o \in Outcomes({"tran"}, TRUE) :
        /\ Command(o, IF ~InRange THEN card ELSE [Resting("data") EXCEPT !.out = AskedBlocks])
        /\ \/ Fail(o)
           \/ o = "ok" /\ ~InRange /\ Return("range")
           \/ o = "ok" /\ InRange /\ GoTo("poll")
  BY DEF AskRead, AskedBlocks
<1>3. /\ o \in {"ok", "garbled", "stuck", "silent"}
      /\ o \in {"ok", "garbled"} => card.state \in {"tran"}
      /\ o \in {"ok", "garbled"} =>
           card' = IF ~InRange THEN card ELSE [Resting("data") EXCEPT !.out = AskedBlocks]
      /\ o \in {"stuck", "silent"} => card' = card
  BY <1>2, CommandEffect DEF Inv
<1>4. CASE o \in {"stuck", "silent"} \/ ~InRange
  BY <1>1, <1>3, <1>4
<1>5. CASE o \in {"ok", "garbled"} /\ InRange
  <2>1. GoTo("poll") \/ GoTo("panic")
    BY <1>2, <1>5, Failing
  <2> QED
    BY <1>1, <1>3, <1>5, <2>1 DEF GoTo
<1> QED
  BY <1>3, <1>4, <1>5

\* A write's words are on their way, the first of them fetched.
WriteBegun ==
  /\ queue' = Tail(WriteWords(call.count)) /\ dma' = 0
  /\ datSm' = "send" /\ left' = BlockWords + 2

LEMMA Told ==
  ASSUME Inv, AskWrite
  PROVE  /\ Called({"write"}) /\ call.lba \in Nat /\ call.count \in Nat \ {0}
         /\ call.data \in [1 .. call.count -> Values]
         /\ \/ card' = card
            \/ card.state = "tran" /\ InRange
               /\ card' = ReceivingCard(call.lba, call.count)
         /\ \/ /\ (Return("stuck") \/ GoTo("panic")) /\ healthy' = FALSE
               /\ UNCHANGED engineVars
            \/ /\ GoTo("poll") /\ WriteBegun
               /\ ~InRange => card' = card /\ card.state = "tran"
               /\ InRange => card' = ReceivingCard(call.lba, call.count)
<1>1. Called({"write"}) /\ call # NoCall
  BY CallOfStep DEF Inv, AskWrite, Called
<1>2. PICK o \in Outcomes({"tran"}, TRUE) :
        /\ Command(o, IF ~InRange THEN card
                      ELSE ReceivingCard(call.lba, call.count))
        /\ \/ Fail(o) /\ UNCHANGED engineVars
           \/ o = "ok" /\ GoTo("poll") /\ WriteBegun
  BY DEF AskWrite, ReceivingCard, WriteBegun
<1>3. /\ o \in {"ok", "garbled", "stuck", "silent"}
      /\ o \in {"ok", "garbled"} => card.state \in {"tran"}
      /\ o \in {"ok", "garbled"} =>
           card' = IF ~InRange THEN card
                   ELSE ReceivingCard(call.lba, call.count)
      /\ o \in {"stuck", "silent"} => card' = card
      /\ o # "ok" => healthy' = FALSE
  BY <1>2, CommandEffect DEF Inv
<1>4. /\ call.lba \in Nat /\ call.count \in Nat \ {0}
      /\ call.data \in [1 .. call.count -> Values]
  BY <1>1, CallFields DEF Inv, DriverInv, Called
<1>5. \/ card' = card
      \/ card.state = "tran" /\ InRange
         /\ card' = ReceivingCard(call.lba, call.count)
  BY <1>3
<1>6. CASE Fail(o) /\ UNCHANGED engineVars
  <2>1. (Return("stuck") \/ GoTo("panic")) /\ healthy' = FALSE
    BY <1>3, <1>6, Failing
  <2> QED
    BY <1>1, <1>4, <1>5, <1>6, <2>1
<1>7. CASE o = "ok" /\ GoTo("poll") /\ WriteBegun
  <2>1. InRange => card' = ReceivingCard(call.lba, call.count)
    BY <1>3, <1>7
  <2>2. ~InRange => card' = card /\ card.state = "tran"
    BY <1>3, <1>7
  <2> QED
    BY <1>1, <1>4, <1>5, <1>7, <2>1, <2>2
<1> QED
  BY <1>2, <1>6, <1>7

LEMMA Fetching ==
  ASSUME NEW k \in Nat
  PROVE  /\ WordsToFetch(k) \in Nat /\ WordsToFetch(k + 1) = WordsToFetch(k) + BlockWords + 1
         /\ WordsToFetch(0) = 0
<1>1. BlockWords \in Nat
  BY CardAssumption
<1>2. (k + 1) * (BlockWords + 1) = k * (BlockWords + 1) + (BlockWords + 1)
  BY <1>1
<1>3. k * (BlockWords + 1) \in Nat /\ 0 * (BlockWords + 1) = 0
  BY <1>1
<1>4. \A x, y \in Nat : x + (y + 1) = x + y + 1
  OBVIOUS
<1> QED
  BY <1>1, <1>2, <1>3, <1>4 DEF WordsToFetch

\* When a transfer is seen to be over, it is.  Of a read, that no word is left to send to
\* the state machine says it all.
LEMMA ReadOver ==
  ASSUME Inv, PollRead, pc = "fifo", queue = <<>>
  PROVE  /\ InRead /\ Reading(0, 0) /\ card.state # "data" /\ Quiet /\ dma = 0
<1>1. InRead
  BY CallOfStep DEF Inv, PollRead, InRead, Called
<1>2. PICK k \in 0 .. call.count, r \in 0 .. 2 : Reading(k, r)
  BY <1>1 DEF Inv, EngineInv, ReadInv
<1>4. k = 0 /\ r = 0
  <2>1. Len(queue) = 3 * k + r /\ Len(queue) = 0
    BY <1>2 DEF Reading, ReadTail, EndOfRead
  <2>2. \A j \in Nat, i \in 0 .. 2 : 0 = 3 * j + i => j = 0 /\ i = 0
    OBVIOUS
  <2>3. k \in Nat
    OBVIOUS
  <2> QED
    BY <2>1, <2>2, <2>3
<1>3. datSm = "waiting" /\ dma = 0
  <2>1. datSm = "waiting" /\ dma = Owed(0, 0)
    BY <1>1, <1>2, <1>4 DEF Inv, EngineInv, ReadInv, Reading, ReadTail
  <2> QED
    BY <2>1, Fetching DEF Owed
<1>5. card.state # "data"
  <2> SUFFICES ASSUME card.state = "data" PROVE FALSE
    OBVIOUS
  <2>1. card.out # <<>> /\ card.out \in Seq(Values \cup {ExtCsd})
    BY DEF Inv, CardInv, CardType
  <2>2. Len(card.out) = 0
    BY <1>2, <1>3, <1>4 DEF Reading, Coming, Incoming
  <2> QED
    BY <2>1, <2>2
<1>6. left = 0
  BY <1>2, <1>3 DEF Reading, ReadTail
<1> QED
  BY <1>1, <1>2, <1>3, <1>4, <1>5, <1>6 DEF Quiet

LEMMA WriteOver ==
  ASSUME Inv, InWrite, pc \in Polls, datSm = "waiting" \/ pc = "status"
  PROVE  Sent
<1>1. WriteInv
  BY DEF Inv, EngineInv
<1>2. CASE pc = "status"
  BY <1>1, <1>2 DEF WriteInv
<1>3. CASE datSm = "waiting"
  <2>1. ASSUME NEW b, NEW k, Sending(b, k) PROVE FALSE
    BY <1>3, <2>1 DEF Sending, Line
  <2> QED
    BY <1>1, <2>1 DEF WriteInv
<1> QED
  BY <1>2, <1>3

\* The card is asked for its status when all has been sent.
LEMMA StatusAfterAll ==
  ASSUME Inv, AskStatus
  PROVE  InWrite /\ Sent
<1>1. InWrite
  BY CallOfStep DEF Inv, AskStatus, InWrite
<1> QED
  BY <1>1, WriteOver DEF AskStatus

LEMMA CardStep == Inv /\ [Next]_vars => CardInv'
<1> SUFFICES ASSUME Inv, [Next]_vars PROVE CardInv'
  OBVIOUS
<1>0. DriverInv /\ CardInv /\ card \in CardType
  BY DEF Inv, CardInv
<1>1. CASE UNCHANGED <<card, call, pc>>
  BY <1>0, <1>1, CardKept
<1>2. ASSUME NEW c \in Calls, Begin(c) PROVE CardInv'
  <2>1. call = NoCall /\ card' = card
    BY <1>2 DEF Begin, cardVars
  <2>2. card.state # "data" /\ card.word = 0
    BY <1>0, <2>1, CalmOutside DEF InRead, InWrite, Called
  <2> QED
    BY <1>0, <2>1, <2>2, CardCalm
<1>4. CASE Reset
  BY <1>4, CardAfresh DEF Reset
<1>5. CASE SendOpCond
  <2>1. Called({"init"})
    BY <1>0, <1>5, CallOfStep DEF SendOpCond
  <2>2. card.state # "data" /\ card.word = 0
    BY <1>0, <2>1, CalmOutside, InitCall
  <2>3. card' = card \/ card' = Resting("ready")
    BY <1>5 DEF SendOpCond, Command
  <2> QED
    BY <1>0, <2>2, <2>3, CardCalm, CardAfresh
<1>6. CASE SendIdentify
  <2>1. pc \in {"cid", "rca", "csd", "select"}
    BY <1>6, IdentifySteps DEF SendIdentify
  <2>2. Called({"init"})
    BY <1>0, <2>1, CallOfStep
  <2>3. card.state # "data" /\ card.word = 0
    BY <1>0, <2>2, CalmOutside, InitCall
  <2>4. card' = card \/ card' = Resting(Identify[pc].to)
    BY <1>6 DEF SendIdentify, Command
  <2>5. Identify[pc].to \in {"ident", "stby", "tran"}
    BY <2>1, IdentifySteps
  <2> QED
    BY <1>0, <2>3, <2>4, <2>5, CardCalm, CardAfresh
<1>7. CASE Settle
  <2>1. pc = "settle" /\ card' = card
    BY <1>7 DEF Settle, cardVars
  <2>2. card.state # "data" /\ card.word = 0
    BY <1>0, <2>1, CalmOutside
  <2> QED
    BY <1>0, <2>1, <2>2, CardCalm
<1>8. CASE SetBlockCount
  <2>1. pc = "count" /\ card' = card
    BY <1>8 DEF SetBlockCount, Command
  <2>2. card.state # "data" /\ card.word = 0
    BY <1>0, <2>1, CalmOutside
  <2> QED
    BY <1>0, <2>1, <2>2, CardCalm
<1>9. CASE AskRead
  <2>1. card.state # "data" /\ card.word = 0
    BY <1>0, <1>9, CalmOutside DEF AskRead
  <2>2. CASE card' = card
    BY <1>0, <2>1, <2>2, CardCalm
  <2>3. CASE /\ Called(ReadOps) /\ InRange /\ pc' \in Polls \cup {"panic"} /\ call' = call
             /\ card' = [Resting("data") EXCEPT !.out = AskedBlocks]
    <3>1. AskedBlocks \in Seq(Values \cup {ExtCsd}) /\ Len(AskedBlocks) \in Nat \ {0}
      BY <2>3, BlocksAsked
    <3>2. /\ card' \in CardType /\ card'.state = "data" /\ card'.out = AskedBlocks /\ card'.word = 0
      BY <2>3, <3>1, AskedCard
    <3>3. AskedBlocks # <<>>
      BY <3>1
    <3>4. InRead'
      BY <2>3 DEF InRead, Called
    <3> QED
      BY <2>3, <3>2, <3>3, <3>4 DEF CardInv
  <2> QED
    BY <1>9, <2>2, <2>3, Asked
<1>10. CASE AskWrite
  <2>1. card.state # "data" /\ card.word = 0
    BY <1>0, <1>10, CalmOutside DEF AskWrite
  <2>2. CASE card' = card
    BY <1>0, <2>1, <2>2, CardCalm
  <2>3. CASE card' = ReceivingCard(call.lba, call.count)
    <3>1. call.lba \in Nat /\ call.count \in Nat
      BY <1>10, Told
    <3>2. card' \in CardType /\ card'.state = "rcv" /\ card'.word = 0
      BY <2>3, <3>1, ToldCard
    <3> QED
      BY <3>2 DEF CardInv
  <2> QED
    BY <1>10, <2>2, <2>3, Told
<1>11. CASE PollRead
  <2>1. card' = card /\ InRead /\ ~InWrite
    BY <1>0, <1>11, CallOfStep DEF PollRead, cardVars, InRead, InWrite, Called, ReadOps
  <2>2. CASE pc = "fifo" /\ queue = <<>>
    <3>1. card.state # "data" /\ card.word = 0
      BY <1>0, <1>11, <2>1, <2>2, ReadOver DEF CardInv
    <3> QED
      BY <1>0, <2>1, <3>1, CardCalm
  <2>3. CASE ~(pc = "fifo" /\ queue = <<>>)
    <3>1. call' = call /\ pc' \in Polls
      BY <1>11, <2>3 DEF PollRead, LookAt, GoTo
    <3> QED
      BY <1>0, <2>1, <3>1 DEF CardInv, InRead, Called
  <2> QED
    BY <2>2, <2>3
<1>12. CASE PollWrite
  <2>1. card' = card /\ InWrite /\ ~InRead
    BY <1>0, <1>12, CallOfStep DEF PollWrite, cardVars, InRead, InWrite, Called, ReadOps
  <2>2. call' = call /\ pc' \in Polls
    BY <1>12 DEF PollWrite, LookAt, GoTo
  <2> QED
    BY <1>0, <2>1, <2>2 DEF CardInv, InWrite, Called
<1>13. CASE AskStatus
  <2>1. card' = card
    BY <1>13 DEF AskStatus, Command
  <2>2. InWrite /\ Sent
    BY <1>13, StatusAfterAll
  <2>3. card.word = 0 /\ card.state # "data"
    BY <1>0, <2>2 DEF CardInv, InRead, InWrite, Called, ReadOps, Sent
  <2> QED
    BY <1>0, <2>1, <2>3, CardCalm
<1>14. CASE ReceiveWord
  <2>1. /\ InRead /\ pc \in Polls \cup {"panic"}
        /\ card.out # <<>> /\ Tail(card.out) \in Seq(Values \cup {ExtCsd}) /\ Len(card.out) \in Nat \ {0}
    BY <1>14, Receiving
  <2>2. card.out \in Seq(Values \cup {ExtCsd}) /\ Len(Tail(card.out)) = Len(card.out) - 1
    BY <1>0, <2>1 DEF CardType
  <2>3. CASE card' = card
    BY <1>0, <1>14, <2>3, CardKept DEF ReceiveWord
  <2>4. CASE card' = Resting("tran")
    BY <2>4, CardAfresh
  <2>5. CASE Len(card.out) # 1 /\ card' = [card EXCEPT !.out = Tail(card.out)]
    <3>1. card' \in CardType
      BY <1>0, <2>1, <2>5, CardFields
    <3>2. card'.state = "data" /\ card'.out = Tail(card.out) /\ card'.word = card.word
      BY <1>0, <1>14, <2>5 DEF CardType, ReceiveWord
    <3>3. Tail(card.out) # <<>>
      <4>1. Len(Tail(card.out)) # 0
        BY <2>1, <2>2, <2>5
      <4>2. Len(<<>>) = 0
        OBVIOUS
      <4> QED
        BY <4>1, <4>2
    <3>4. card.word = 0
      BY <1>0, <1>14 DEF CardInv, ReceiveWord
    <3>5. InRead' /\ pc' = pc
      BY <1>14, <2>1 DEF ReceiveWord, InRead, Called
    <3> QED
      BY <2>1, <3>1, <3>2, <3>3, <3>4, <3>5 DEF CardInv
  <2> QED
    BY <1>14, <2>3, <2>4, <2>5 DEF ReceiveWord
<1>15. CASE SendWord
  <2>1. datSm = "send"
    BY <1>15 DEF SendWord
  <2>2. /\ InWrite /\ pc \in Polls \ {"status"} /\ call.count \in Nat \ {0}
        /\ call.data \in [1 .. call.count -> Values]
    BY <2>1, InSend
  <2>3. PICK b \in 0 .. call.count - 1, k \in 1 .. BlockLength - 1 : Sending(b, k)
    BY <2>1, InSend
  <2>4. InWrite' /\ pc' \in Polls
    BY <1>15, <2>2 DEF SendWord, driverVars, InWrite, Called
  <2>5. card.state # "data"
    BY <1>0, <2>2 DEF CardInv, InRead, InWrite, Called, ReadOps
  <2>6. CASE StartTaken(k)
    <3>1. PICK w \in {0, 1} : card' = [card EXCEPT !.word = w] /\ (w # 0 => card.state = "rcv")
      BY <2>6 DEF StartTaken
    <3>2. w \in 0 .. BlockWords + 1
      BY <3>1, CardAssumption
    <3>3. card' \in CardType
      BY <1>0, <3>1, <3>2, CardFields
    <3>4. card'.state = card.state /\ card'.out = card.out /\ card'.word = w
      BY <1>0, <3>1 DEF CardType
    <3> QED
      BY <1>0, <2>4, <2>5, <3>1, <3>3, <3>4 DEF CardInv
  <2>7. CASE DataTaken(k)
    <3>1. card.word \in {0, k - 1} /\ card.word \in 0 .. BlockWords + 1
      BY <1>0, <2>3, CardFields DEF Sending, Line, Follows
    <3>2. k \in 2 .. BlockWords + 1 /\ BlockWords \in Nat
      BY <2>7, CardAssumption DEF DataTaken, BlockLength
    <3> DEFINE w == IF card.word > 0 THEN card.word + 1 ELSE 0
    <3>3. w \in 0 .. BlockWords + 1 /\ (w # 0 => card.word # 0)
      BY <3>1, <3>2
    <3>4. card' = [card EXCEPT !.word = w]
      BY <2>7 DEF DataTaken
    <3> HIDE DEF w
    <3>5. card' \in CardType
      BY <1>0, <3>3, <3>4, CardFields
    <3>6. card'.state = card.state /\ card'.out = card.out /\ card'.word = w
      BY <1>0, <3>4 DEF CardType
    <3> QED
      BY <1>0, <2>4, <2>5, <3>3, <3>5, <3>6 DEF CardInv
  <2>8. CASE BlockMissed(k)
    BY <1>0, <2>5, <2>8, CardCalm DEF BlockMissed
  <2>9. CASE LastTaken(b, k)
    <3>1. call.data[b + 1] \in Values
      <4>1. b + 1 \in 1 .. call.count
        BY <2>2
      <4> QED
        BY <2>2, <4>1
    <3>2. <<call.data[b + 1]>> \in Seq(Values \cup {ExtCsd}) /\ 0 \in 0 .. BlockWords + 1
      BY <3>1, CardAssumption
    <3>3. card' = [card EXCEPT !.state = "prg", !.out = <<call.data[b + 1]>>, !.word = 0]
      BY <2>9 DEF LastTaken
    <3>4. card' \in CardType
      BY <1>0, <3>2, <3>3, CardFields DEF CardState
    <3>5. card'.state = "prg" /\ card'.out = <<call.data[b + 1]>> /\ card'.word = 0
      BY <1>0, <3>3 DEF CardType
    <3> QED
      BY <3>1, <3>4, <3>5 DEF CardInv
  <2>10. CASE BlockTaken(b, k)
    <3>1. PICK y \in BOOLEAN :
            card' = [card EXCEPT !.at = card.at + 1, !.left = card.left - 1, !.word = 0, !.busy = y]
      BY <2>10 DEF BlockTaken
    <3>2. card.at + 1 \in Nat /\ card.left - 1 \in Nat /\ 0 \in 0 .. BlockWords + 1
      <4>1. card.at \in Nat
        BY <1>0, CardFields
      <4>2. card.left \in Nat \ {0, 1}
        BY <2>10 DEF BlockTaken
      <4> QED
        BY <4>1, <4>2, CardAssumption
    <3>3. card' \in CardType
      BY <1>0, <3>1, <3>2, CardFields
    <3>4. card'.state = card.state /\ card'.out = card.out /\ card'.word = 0
      BY <1>0, <3>1 DEF CardType
    <3> QED
      BY <1>0, <2>5, <3>3, <3>4 DEF CardInv
  <2>11. CASE BlockRefused(k)
    BY <2>11, CardAfresh DEF BlockRefused
  <2> QED
    BY <1>15, <2>3, <2>6, <2>7, <2>8, <2>9, <2>10, <2>11, WordTaken
<1>16. CASE Ready
  <2>1. card' = [card EXCEPT !.busy = FALSE] /\ UNCHANGED <<call, pc>>
    BY <1>16 DEF Ready, driverVars
  <2>2. card' \in CardType
    BY <1>0, <2>1, CardFields
  <2>3. card'.state = card.state /\ card'.out = card.out /\ card'.word = card.word
    BY <1>0, <2>1 DEF CardType
  <2> QED
    BY <1>0, <2>1, <2>2, <2>3 DEF CardInv, InRead, InWrite, Called
<1>17. CASE Program \/ Leave
  BY <1>17, CardAfresh DEF Program, Leave
<1>18. CASE Detect \/ IsdInit \/ FetchCommand \/ LineRises \/ Arrive \/ UNCHANGED vars
  BY <1>1, <1>18 DEF Detect, IsdInit, FetchCommand, LineRises, Arrive, vars, driverVars, cardVars
<1>19. CASE SdWait \/ SdWaitEnds
  <2>1. Called({"init"}) /\ card' = card
    BY <1>0, <1>19, CallOfStep DEF SdWait, SdWaitEnds, cardVars
  <2>2. card.state # "data" /\ card.word = 0
    BY <1>0, <2>1, CalmOutside, InitCall
  <2> QED
    BY <1>0, <2>1, <2>2, CardCalm
<1> QED
  BY <1>2, <1>4, <1>5, <1>6, <1>7, <1>8, <1>9, <1>10, <1>11, <1>12, <1>13, <1>14, <1>15, <1>16,
     <1>17, <1>18, <1>19 DEF Next, Driver
-----------------------------------------------------------------------------
(* The data state machine *)

LEMMA OwedInNat ==
  ASSUME NEW k \in Nat, NEW r \in 0 .. 2, ReadTail(k, r)
  PROVE  Owed(k, r) \in Nat
<1>1. WordsToFetch(k) \in Nat
  BY Fetching
<1>2. datSm = "receive" => left \in Nat
  BY CardAssumption DEF ReadTail
<1> QED
  BY <1>1, <1>2 DEF Owed

\* The commands of a read.
LEMMA ReadCommandsAt ==
  ASSUME NEW n \in Nat \ {0}
  PROVE  /\ Tail(ReadCommands(n)) \in Seq(Word)
         /\ EndOfRead(Tail(ReadCommands(n)), n - 1, 2)
<1> DEFINE words == <<"recv", "pad", "go">>
<1>1. words \in Seq(Word) /\ Len(words) = 3 /\ words # <<>>
  BY DEF Word
<1>2. words[1] = "recv" /\ words[2] = "pad" /\ words[3] = "go"
  OBVIOUS
<1>3. ReadCommands(n) = Repeat(words, n)
  BY DEF ReadCommands
<1> HIDE DEF words
<1>4. ReadCommands(n) \in Seq(Word) /\ Len(ReadCommands(n)) = n * 3
  BY <1>1, <1>3, Repeated
<1>5. ASSUME NEW i \in 1 .. n * 3 PROVE ReadCommands(n)[i] = ReadWord((n * 3 - i) % 3)
  <2>1. ReadCommands(n)[i] = words[((i - 1) % 3) + 1]
    BY <1>1, <1>3 DEF Repeat
  <2>2. \/ (i - 1) % 3 = 0 /\ (n * 3 - i) % 3 = 2
        \/ (i - 1) % 3 = 1 /\ (n * 3 - i) % 3 = 1
        \/ (i - 1) % 3 = 2 /\ (n * 3 - i) % 3 = 0
    OBVIOUS
  <2> QED
    BY <1>2, <2>1, <2>2 DEF ReadWord
<1>6. EndOfRead(ReadCommands(n), n, 0)
  BY <1>4, <1>5 DEF EndOfRead
<1>7. ReadCommands(n) # <<>>
  BY <1>4
<1> QED
  BY <1>4, <1>6, <1>7, NextOfRead

\* A read that ends, or is given up, leaves DMA with no less than it may get.
LEMMA ReadingIsLoose ==
  ASSUME queue \in Seq(Word), ReadInv, call.count \in Nat
  PROVE  Loose
<1>1. PICK k \in 0 .. call.count, r \in 0 .. 2 : Reading(k, r)
  BY DEF ReadInv
<1>2. k \in Nat /\ ReadTail(k, r) /\ dma = Owed(k, r)
  BY <1>1 DEF Reading
<1>3. Owed(k, r) \in Nat
  BY <1>2, OwedInNat
<1>4. k \in 0 .. Len(queue)
  <2>1. Len(queue) = 3 * k + r
    BY <1>2 DEF ReadTail, EndOfRead
  <2> QED
    BY <1>2, <2>1
<1>5. dma \in Nat /\ dma >= Owed(k, r)
  BY <1>2, <1>3
<1> QED
  BY <1>2, <1>4, <1>5 DEF ReadInv, Loose

LEMMA QuietIsLoose == Quiet' /\ dma' \in Nat => Loose'
<1> SUFFICES ASSUME Quiet', dma' \in Nat PROVE Loose'
  OBVIOUS
<1>1. Len(queue') = 0 /\ datSm' = "waiting" /\ left' = 0
  BY DEF Quiet
<1>2. ReadTail(0, 0)'
  BY <1>1 DEF ReadTail, EndOfRead
<1>3. Owed(0, 0)' = 0
  BY <1>1, Fetching DEF Owed, WordsToFetch
<1>4. 0 \in 0 .. Len(queue') /\ 0 \in 0 .. 2 /\ dma' >= 0
  BY <1>1
<1> QED
  BY <1>1, <1>2, <1>3, <1>4 DEF Loose

\* A command is fetched, in a read or from what one left behind.
LEMMA TailFetched ==
  ASSUME queue \in Seq(Word), FetchCommand, NEW k \in Nat, NEW r \in 0 .. 2, ReadTail(k, r)
  PROVE  /\ queue' \in Seq(Word) /\ datSm' \in {"waiting", "next", "receive"}
         /\ r = 0 => /\ k > 0 /\ ReadTail(k - 1, 2)' /\ dma' = dma /\ datSm' = "receive"
                     /\ Owed(k - 1, 2)' = Owed(k, r) /\ left' = BlockWords + 1
         /\ r = 1 => /\ ReadTail(k, 0)' /\ dma' = dma /\ datSm' = "waiting" /\ left' = 0
                     /\ Owed(k, 0)' = Owed(k, r)
         /\ r = 2 => /\ ReadTail(k, 1)' /\ dma' = dma - 1 /\ datSm' = "next" /\ left' = 0
                     /\ Owed(k, 1)' = Owed(k, r) - 1
<1>1. /\ queue # <<>> /\ datSm \in {"waiting", "next"} /\ queue' = Tail(queue)
      /\ datSm' = Fetched[Head(queue)]
      /\ left' = IF Head(queue) = "recv" THEN BlockWords + 1
                 ELSE IF Head(queue) = "send" THEN BlockWords + 2 ELSE 0
      /\ dma' = IF Head(queue) = "pad" THEN dma - 1 ELSE dma
  BY DEF FetchCommand
<1>2. EndOfRead(queue, k, r)
  BY DEF ReadTail
<1>3. /\ Tail(queue) \in Seq(Word)
      /\ r = 0 => k > 0 /\ Head(queue) = "recv" /\ EndOfRead(Tail(queue), k - 1, 2)
      /\ r = 1 => Head(queue) = "go" /\ EndOfRead(Tail(queue), k, 0)
      /\ r = 2 => Head(queue) = "pad" /\ EndOfRead(Tail(queue), k, 1)
  BY <1>1, <1>2, NextOfRead
<1>4. BlockWords \in Nat \ {0}
  BY CardAssumption
<1>5. CASE r = 0
  <2>1. datSm' = "receive" /\ left' = BlockWords + 1 /\ dma' = dma /\ EndOfRead(queue', k - 1, 2) /\ k > 0
    BY <1>1, <1>3, <1>5 DEF Fetched
  <2>2. ReadTail(k - 1, 2)'
    <3>1. EndOfRead(queue, k - 1, 2)'
      BY <2>1 DEF EndOfRead
    <3>2. datSm' = "receive" /\ left' \in 1 .. BlockWords + 1
      BY <1>4, <2>1
    <3> QED
      BY <3>1, <3>2 DEF ReadTail
  <2>3. WordsToFetch(k) = WordsToFetch(k - 1) + BlockWords + 1
    <3>1. k - 1 \in Nat /\ (k - 1) + 1 = k
      BY <2>1
    <3> QED
      BY <3>1, Fetching
  <2>4. Owed(k - 1, 2)' = WordsToFetch(k - 1) + (BlockWords + 1) /\ Owed(k, r) = WordsToFetch(k) + 0
    BY <1>1, <1>5, <2>1 DEF Owed, WordsToFetch
  <2>5. WordsToFetch(k - 1) \in Nat /\ WordsToFetch(k) \in Nat
    BY <2>1, Fetching
  <2>6. Owed(k - 1, 2)' = Owed(k, r)
    BY <1>4, <2>3, <2>4, <2>5
  <2> QED
    BY <1>1, <1>3, <1>5, <2>1, <2>2, <2>6
<1>6. CASE r = 1
  <2>1. datSm' = "waiting" /\ left' = 0 /\ dma' = dma /\ EndOfRead(queue', k, 0)
    BY <1>1, <1>3, <1>6 DEF Fetched
  <2>2. ReadTail(k, 0)'
    BY <2>1 DEF ReadTail, EndOfRead
  <2>3. Owed(k, 0)' = Owed(k, r)
    BY <1>1, <1>6, <2>1 DEF Owed, WordsToFetch
  <2> QED
    BY <1>1, <1>3, <1>6, <2>1, <2>2, <2>3
<1>7. CASE r = 2
  <2>1. datSm' = "next" /\ left' = 0 /\ dma' = dma - 1 /\ EndOfRead(queue', k, 1)
    BY <1>1, <1>3, <1>7 DEF Fetched
  <2>2. ReadTail(k, 1)'
    BY <2>1 DEF ReadTail, EndOfRead
  <2>3. Owed(k, 1)' = WordsToFetch(k) + 0 /\ Owed(k, r) = WordsToFetch(k) + 1
    BY <1>1, <1>7, <2>1 DEF Owed, WordsToFetch
  <2>4. WordsToFetch(k) \in Nat
    BY Fetching
  <2>5. Owed(k, 1)' = Owed(k, r) - 1
    BY <2>3, <2>4
  <2> QED
    BY <1>1, <1>3, <1>7, <2>1, <2>2, <2>5
<1> QED
  BY <1>5, <1>6, <1>7

\* A step outside the transfers.
LEMMA OutsideKept ==
  ASSUME EngineInv, ~InRead, ~InWrite, ~InRead', ~InWrite', UNCHANGED engineVars,
         cmdSm = "unset" => cmdSm' = "unset",
         leftover \/ pc = "waited" => leftover' \/ pc' = "waited"
  PROVE  EngineInv'
<1>1. Unset \/ (Loose /\ (Quiet \/ leftover \/ pc = "waited"))
  BY DEF EngineInv
<1>2. Unset => Unset'
  BY DEF Unset, engineVars
<1>3. Loose => Loose'
  BY DEF Loose, ReadTail, Owed, engineVars
<1>4. Quiet => Quiet'
  BY DEF Quiet, engineVars
<1> QED
  BY <1>1, <1>2, <1>3, <1>4 DEF EngineInv, engineVars

\* The end of a call that leaves the state machine waiting, and one of a read that does not.
LEMMA EndsQuiet ==
  ASSUME EngineInv, ~InRead', ~InWrite', Quiet, dma \in Nat, UNCHANGED engineVars
  PROVE  EngineInv'
<1>1. Quiet' /\ dma' \in Nat
  BY DEF Quiet, engineVars
<1>2. Loose'
  BY <1>1, QuietIsLoose
<1> QED
  BY <1>1, <1>2 DEF EngineInv, engineVars

LEMMA EndsLoose ==
  ASSUME EngineInv, InRead, call.count \in Nat, ~InRead', ~InWrite', UNCHANGED engineVars, leftover'
  PROVE  EngineInv'
<1>1. Loose
  BY ReadingIsLoose DEF EngineInv
<1>2. Loose'
  BY <1>1 DEF Loose, ReadTail, Owed, engineVars
<1> QED
  BY <1>2 DEF EngineInv, engineVars

\* A read goes on, the driver or the card having moved.
LEMMA ReadGoesOn ==
  ASSUME EngineInv, InRead, InRead', UNCHANGED <<call, buffer, engineVars>>,
         store' = store \/ pc \in {"count", "ask"},
         pc' \in {"count", "ask"} => pc \in {"count", "ask"},
         pc' \in Polls \cup {"panic"} => card'.state \in {"data", "tran", "idle"},
         \A k \in Nat : (k = call.count - 1 \/ pc \notin {"count", "ask"}) /\ Coming(k)
                          /\ (pc \in {"count", "ask"} => datSm = "receive") => Coming(k)'
  PROVE  EngineInv'
<1>1. PICK k \in 0 .. call.count, r \in 0 .. 2 : Reading(k, r)
  BY DEF EngineInv, ReadInv
<1>2. ReadTail(k, r)' /\ Owed(k, r)' = Owed(k, r) /\ Incoming(k)' = Incoming(k)
  BY <1>1 DEF Reading, ReadTail, Owed, Incoming, engineVars
<1>3. Delivered'
  <2>1. CASE store' = store
    BY <1>1, <2>1 DEF Reading, Delivered, Expected
  <2>2. CASE pc \in {"count", "ask"}
    <3>1. Len(buffer') = 0
      BY <1>1, <2>2 DEF Reading
    <3> QED
      BY <3>1 DEF Delivered
  <2> QED
    BY <2>1, <2>2
<1>4. Coming(k)'
  <2>1. /\ k = call.count - 1 \/ pc \notin {"count", "ask"}
        /\ Coming(k) /\ (pc \in {"count", "ask"} => datSm = "receive")
    BY <1>1 DEF Reading
  <2> QED
    BY <2>1
<1>5. Reading(k, r)'
  BY <1>1, <1>2, <1>3, <1>4 DEF Reading, engineVars
<1>6. ReadInv'
  BY <1>1, <1>5 DEF ReadInv, EngineInv, engineVars
<1>7. ~InWrite'
  BY DEF InRead, InWrite, Called, ReadOps
<1> QED
  BY <1>6, <1>7 DEF EngineInv, engineVars

\* Outside the transfers only what a failed read left is fetched, and the end of a sd_wait.
LEMMA OutsideFetches ==
  ASSUME EngineInv, FetchCommand, ~InRead, ~InWrite
  PROVE  EngineInv'
<1>1. queue # <<>> /\ ~Unset /\ ~Quiet /\ queue \in Seq(Word)
  BY DEF FetchCommand, Unset, Quiet, EngineInv
<1>2. Loose /\ (leftover \/ pc = "waited")
  BY <1>1 DEF EngineInv
<1>3. PICK k \in 0 .. Len(queue), r \in 0 .. 2 : ReadTail(k, r) /\ dma >= Owed(k, r)
  BY <1>2 DEF Loose
<1>4. k \in Nat /\ dma \in Nat /\ Owed(k, r) \in Nat
  <2>1. Len(queue) \in Nat
    BY <1>1
  <2>2. k \in Nat
    BY <2>1
  <2> QED
    BY <1>2, <1>3, <2>2, OwedInNat DEF Loose
<1>5. /\ queue' \in Seq(Word) /\ datSm' \in {"waiting", "next", "receive"}
      /\ r = 0 => k > 0 /\ ReadTail(k - 1, 2)' /\ dma' = dma /\ Owed(k - 1, 2)' = Owed(k, r)
      /\ r = 1 => ReadTail(k, 0)' /\ dma' = dma /\ Owed(k, 0)' = Owed(k, r)
      /\ r = 2 => ReadTail(k, 1)' /\ dma' = dma - 1 /\ Owed(k, 1)' = Owed(k, r) - 1
  BY <1>1, <1>3, <1>4, TailFetched
<1>6. ASSUME NEW l \in Nat, NEW s \in 0 .. 2, ReadTail(l, s)', dma' \in Nat, dma' >= Owed(l, s)'
      PROVE  Loose'
  <2>1. Len(queue') = 3 * l + s
    BY <1>6 DEF ReadTail, EndOfRead
  <2>2. l \in 0 .. Len(queue')
    BY <2>1
  <2> QED
    BY <1>5, <1>6, <2>2 DEF Loose
<1>7. CASE r = 0
  <2>1. k - 1 \in Nat /\ dma' \in Nat /\ dma' >= Owed(k - 1, 2)'
    BY <1>3, <1>4, <1>5, <1>7
  <2> QED
    BY <1>5, <1>6, <1>7, <2>1, <1>2 DEF EngineInv, FetchCommand, driverVars, history, InRead, InWrite, Called
<1>8. CASE r = 1
  <2>1. dma' \in Nat /\ dma' >= Owed(k, 0)'
    BY <1>3, <1>4, <1>5, <1>8
  <2> QED
    BY <1>4, <1>5, <1>6, <1>8, <2>1, <1>2 DEF EngineInv, FetchCommand, driverVars, history, InRead, InWrite, Called
<1>9. CASE r = 2
  <2>0. Owed(k, r) >= 1
    <3>1. WordsToFetch(k) \in Nat /\ datSm # "receive"
      BY <1>4, Fetching DEF FetchCommand
    <3> QED
      BY <1>9, <3>1 DEF Owed
  <2>1. dma' \in Nat /\ dma' >= Owed(k, 1)'
    BY <1>3, <1>4, <1>5, <1>9, <2>0
  <2> QED
    BY <1>4, <1>5, <1>6, <1>9, <2>1, <1>2 DEF EngineInv, FetchCommand, driverVars, history, InRead, InWrite, Called
<1> QED
  BY <1>7, <1>8, <1>9

\* In a read.
LEMMA ReadFetches ==
  ASSUME EngineInv, FetchCommand, InRead, call.count \in Nat
  PROVE  EngineInv'
<1>1. PICK k \in 0 .. call.count, r \in 0 .. 2 : Reading(k, r)
  BY DEF EngineInv, ReadInv
<1>2. /\ k \in Nat /\ queue \in Seq(Word) /\ ReadTail(k, r) /\ dma = Owed(k, r)
      /\ datSm # "receive" /\ pc \notin {"count", "ask"} /\ BlockWords \in Nat \ {0}
  BY <1>1, CardAssumption DEF Reading, EngineInv, FetchCommand
<1>3. /\ queue' \in Seq(Word) /\ datSm' \in {"waiting", "next", "receive"}
      /\ r = 0 => k > 0 /\ ReadTail(k - 1, 2)' /\ dma' = dma /\ Owed(k - 1, 2)' = Owed(k, r)
                  /\ datSm' = "receive" /\ left' = BlockWords + 1
      /\ r = 1 => ReadTail(k, 0)' /\ dma' = dma /\ Owed(k, 0)' = Owed(k, r) /\ datSm' = "waiting"
      /\ r = 2 => ReadTail(k, 1)' /\ dma' = dma - 1 /\ Owed(k, 1)' = Owed(k, r) - 1 /\ datSm' = "next"
  BY <1>2, TailFetched
<1>4. UNCHANGED <<call, pc, buffer, store, card>>
  BY DEF FetchCommand, driverVars, cardVars
<1>5. InRead' /\ ~InWrite'
  BY <1>4 DEF InRead, InWrite, Called, ReadOps
<1>6. Delivered'
  BY <1>1, <1>4 DEF Reading, Delivered, Expected
<1>7. Incoming(k) = k /\ Incoming(k) <= call.count /\ Coming(k)
      /\ (pc \in Polls \cup {"panic"} => card.state \in {"data", "tran", "idle"})
  BY <1>1, <1>2 DEF Reading, Incoming
<1>8. Len(buffer) = (call.count - k) * BlockWords
  <2>1. (call.count - k) * BlockWords \in Nat
    BY <1>2
  <2>2. Len(buffer) = (call.count - k) * BlockWords - 0
    BY <1>1, <1>2 DEF Reading
  <2> QED
    BY <2>1, <2>2
<1>9. ASSUME NEW l \in Nat, NEW s \in 0 .. 2, ReadTail(l, s)', dma' = Owed(l, s)', l <= call.count,
             Incoming(l)' = k, datSm' = "waiting" => s = 0,
             Len(buffer') = (call'.count - l) * BlockWords - IF datSm' = "receive" THEN left' - 1 ELSE 0
      PROVE  EngineInv'
  <2>1. Coming(l)'
    BY <1>4, <1>7, <1>9 DEF Coming, InRange, BlockAt
  <2>2. Reading(l, s)'
    BY <1>2, <1>4, <1>6, <1>7, <1>9, <2>1 DEF Reading
  <2>3. l \in 0 .. call'.count
    BY <1>4, <1>9
  <2> QED
    BY <1>3, <1>5, <2>2, <2>3 DEF EngineInv, ReadInv
<1>10. CASE r = 0
  <2>1. k - 1 \in Nat /\ 2 \in 0 .. 2 /\ k - 1 <= call.count /\ Incoming(k - 1)' = k
    BY <1>2, <1>3, <1>10 DEF Incoming
  <2>2. (call.count - (k - 1)) * BlockWords = (call.count - k) * BlockWords + BlockWords
    BY <1>2, <2>1
  <2>3. Len(buffer') = (call'.count - (k - 1)) * BlockWords - (left' - 1)
    <3>1. (call.count - k) * BlockWords \in Nat /\ left' - 1 = BlockWords
      BY <1>2, <1>3, <1>10
    <3>2. \A x, y \in Nat : x = (x + y) - y
      OBVIOUS
    <3> QED
      BY <1>2, <1>4, <1>8, <2>2, <3>1, <3>2
  <2> QED
    BY <1>2, <1>3, <1>9, <1>10, <2>1, <2>3
<1>11. ASSUME r # 0, datSm' # "receive"
       PROVE  Incoming(k)' = k
              /\ Len(buffer') = (call'.count - k) * BlockWords - IF datSm' = "receive" THEN left' - 1 ELSE 0
  <2>1. (call.count - k) * BlockWords \in Nat
    BY <1>2
  <2>2. (call.count - k) * BlockWords = (call.count - k) * BlockWords - 0
    BY <2>1
  <2> QED
    BY <1>2, <1>4, <1>8, <1>11, <2>2 DEF Incoming
<1>12. CASE r = 1
  BY <1>2, <1>3, <1>9, <1>11, <1>12
<1>13. CASE r = 2
  BY <1>2, <1>3, <1>9, <1>11, <1>13
<1> QED
  BY <1>10, <1>12, <1>13

\* The place of a word that comes, b blocks into the read.
LEMMA PlaceOf ==
  ASSUME NEW b \in Nat, NEW l \in 2 .. BlockWords + 1
  PROVE  /\ (b * BlockWords + (BlockWords + 1 - l)) \div BlockWords = b
         /\ ((b * BlockWords + (BlockWords + 1 - l)) % BlockWords) + 1 = BlockWords + 2 - l
<1>1. BlockWords \in Nat \ {0} /\ BlockWords + 1 - l \in 0 .. BlockWords - 1
  BY CardAssumption
<1>2. /\ (b * BlockWords + (BlockWords + 1 - l)) \div BlockWords = b
      /\ (b * BlockWords + (BlockWords + 1 - l)) % BlockWords = BlockWords + 1 - l
  BY <1>1, QuotientAndRemainder
<1> QED
  BY <1>1, <1>2

\* A word of a block comes in, or its CRC.
LEMMA ReadReceives ==
  ASSUME Inv, ReceiveWord
  PROVE  EngineInv'
<1>1. /\ InRead /\ pc \in Polls \cup {"panic"} /\ ReadInv /\ left \in 1 .. BlockWords + 1
      /\ card.out # <<>> /\ Tail(card.out) \in Seq(Values \cup {ExtCsd}) /\ Len(card.out) \in Nat \ {0}
  BY Receiving
<1>2. call \in Calls
  BY <1>1 DEF Inv, DriverInv, InRead, Called
<1>3. call.count \in Nat
  BY <1>1, <1>2, CallFields DEF InRead, Called, ReadOps
<1>4. PICK k \in 0 .. call.count, r \in 0 .. 2 : Reading(k, r)
  BY <1>1 DEF ReadInv
<1>5. /\ k \in Nat /\ ReadTail(k, r) /\ r = 2 /\ dma = Owed(k, r) /\ Incoming(k) <= call.count
      /\ Incoming(k) = k + 1 /\ queue \in Seq(Word) /\ BlockWords \in Nat \ {0} /\ left \in Nat
      /\ datSm = "receive" /\ card.state = "data"
  BY <1>1, <1>4, CardAssumption DEF Reading, ReadTail, Incoming, ReceiveWord, Inv, EngineInv
<1>6. Delivered /\ Coming(k) /\ (card.state = "data" => Len(card.out) = k + 1)
  BY <1>4, <1>5 DEF Reading, Coming
<1>7. /\ UNCHANGED <<call, pc, queue, store>>
      /\ left' = left - 1
  BY DEF ReceiveWord
<1>8. InRead' /\ ~InWrite'
  BY <1>1, <1>7 DEF InRead, InWrite, Called, ReadOps
<1>9. Owed(k, 2) = WordsToFetch(k) + left /\ WordsToFetch(k) \in Nat
  BY <1>5, Fetching DEF Owed
<1>10. (call.count - k) * BlockWords \in Nat
  BY <1>3, <1>5
<1>11. Len(buffer) = (call.count - k) * BlockWords - (left - 1)
  BY <1>4, <1>5 DEF Reading
<1>12. CASE left > 1
  <2>1. left # 1
    BY <1>12
  <2>2. PICK e : buffer' = Append(buffer, e) /\ e.of = Head(card.out) /\ e.n = BlockWords + 2 - left
    <3>1. PICK g \in BOOLEAN : buffer' = Append(buffer, [of |-> Head(card.out),
                                                        n |-> BlockWords + 2 - left, good |-> g])
      BY Zenon, <2>1 DEF ReceiveWord
    <3>2. \A v, m, h : [of |-> v, n |-> m, good |-> h].of = v /\ [of |-> v, n |-> m, good |-> h].n = m
      OBVIOUS
    <3> QED
      BY Zenon, <3>1, <3>2
  <2>3. dma' = dma - 1 /\ UNCHANGED <<datSm, card>>
    BY Zenon, <2>1 DEF ReceiveWord
  <2>4. ReadTail(k, 2)'
    BY <1>1, <1>5, <1>7, <1>12, <2>3 DEF ReadTail
  <2>5. Owed(k, 2)' = WordsToFetch(k) + (left - 1)
    BY <1>5, <1>7, <2>3 DEF Owed, WordsToFetch
  <2>6. dma' = Owed(k, 2)'
    BY <1>5, <1>9, <2>3, <2>5
  <2>7. Len(buffer) \in Nat /\ Len(buffer') = Len(buffer) + 1
        /\ \A i \in 1 .. Len(buffer) : buffer'[i] = buffer[i]
        /\ buffer'[Len(buffer) + 1] = e
    <3>1. buffer \in Seq([of : Values \cup {ExtCsd}, n : 1 .. BlockWords, good : BOOLEAN])
      BY DEF Inv, DriverInv
    <3>2. \A S : \A q \in Seq(S) : \A x :
            /\ Len(q) \in Nat /\ Len(Append(q, x)) = Len(q) + 1
            /\ \A i \in 1 .. Len(q) : Append(q, x)[i] = q[i]
            /\ Append(q, x)[Len(q) + 1] = x
      OBVIOUS
    <3> QED
      BY <2>2, <3>1, <3>2
  <2>8. Len(buffer') = (call'.count - k) * BlockWords - (left' - 1)
    <3>1. \A x, l \in Nat : (x - (l - 1)) + 1 = x - ((l - 1) - 1)
      OBVIOUS
    <3> QED
      BY <1>5, <1>7, <1>10, <1>11, <2>7, <3>1
  <2>9. Len(buffer) = (call.count - 1 - k) * BlockWords + (BlockWords + 1 - left)
    <3>1. (call.count - k) * BlockWords = (call.count - 1 - k) * BlockWords + BlockWords
      BY <1>3, <1>5
    <3>2. (call.count - 1 - k) * BlockWords \in Nat
      BY <1>3, <1>5
    <3>3. \A x, y, l \in Nat : (x + y) - (l - 1) = x + (y + 1 - l)
      OBVIOUS
    <3> QED
      BY <1>5, <1>11, <3>1, <3>2, <3>3
  <2>10. [of |-> buffer'[Len(buffer) + 1].of, n |-> buffer'[Len(buffer) + 1].n]
           = Expected(call, Len(buffer) + 1)
    <3>1. call.count - 1 - k \in Nat /\ left \in 2 .. BlockWords + 1
      BY <1>1, <1>3, <1>5, <1>12
    <3>2. /\ Len(buffer) \div BlockWords = call.count - 1 - k
          /\ (Len(buffer) % BlockWords) + 1 = BlockWords + 2 - left
      BY <2>9, <3>1, PlaceOf
    <3>3. Head(card.out) = BlockAt(call.count - 1 - k)
      <4>1. Head(card.out) = card.out[1] /\ 1 \in 1 .. Len(card.out)
        BY <1>1
      <4>2. card.out[1] = BlockAt(call.count - Len(card.out) + 1 - 1)
        BY <1>5, <1>6, <4>1 DEF Coming
      <4>3. call.count - Len(card.out) + 1 - 1 = call.count - 1 - k
        BY <1>3, <1>5, <1>6
      <4> QED
        BY <4>1, <4>2, <4>3
    <3>4. (Len(buffer) + 1) - 1 = Len(buffer)
      BY <2>7
    <3>5. Expected(call, Len(buffer) + 1) = [of |-> BlockAt(call.count - 1 - k), n |-> BlockWords + 2 - left]
      BY <3>2, <3>4 DEF Expected, BlockAt
    <3> QED
      BY <2>2, <2>7, <3>3, <3>5
  <2>11. Delivered'
    <3> SUFFICES ASSUME NEW n \in 1 .. Len(buffer')
                 PROVE  [of |-> buffer'[n].of, n |-> buffer'[n].n] = Expected(call, n)'
      BY DEF Delivered
    <3>1. Expected(call, n)' = Expected(call, n)
      BY <1>7 DEF Expected
    <3>2. n \in 1 .. Len(buffer) \/ n = Len(buffer) + 1
      BY <2>7
    <3>3. CASE n \in 1 .. Len(buffer)
      BY <1>6, <2>7, <3>1, <3>3 DEF Delivered
    <3>4. CASE n = Len(buffer) + 1
      BY <2>10, <3>1, <3>4
    <3> QED
      BY <3>2, <3>3, <3>4
  <2>12. Coming(k)' /\ Incoming(k)' = k + 1
    BY <1>5, <1>6, <1>7, <2>3 DEF Coming, Incoming, InRange, BlockAt
  <2>13. Reading(k, 2)'
    BY <1>1, <1>5, <1>7, <2>3, <2>4, <2>6, <2>8, <2>11, <2>12 DEF Reading
  <2> QED
    BY <1>5, <1>7, <1>8, <2>3, <2>13 DEF EngineInv, ReadInv
<1>13. CASE left = 1
  <2>1. /\ datSm' = "next" /\ UNCHANGED <<dma, buffer>>
        /\ card' = IF Len(card.out) = 1 THEN Resting("tran") ELSE [card EXCEPT !.out = Tail(card.out)]
    BY <1>13 DEF ReceiveWord
  <2>2. ReadTail(k, 2)'
    BY <1>5, <1>7, <1>13, <2>1 DEF ReadTail
  <2>3. Owed(k, 2)' = WordsToFetch(k) + 1
    BY <2>1 DEF Owed, WordsToFetch
  <2>4. dma' = Owed(k, 2)'
    BY <1>5, <1>9, <1>13, <2>1, <2>3
  <2>5. Len(buffer') = (call'.count - k) * BlockWords - 0
    BY <1>7, <1>11, <1>13, <2>1
  <2>6. Delivered'
    BY <1>6, <1>7, <2>1 DEF Delivered, Expected
  <2>7. Incoming(k)' = k
    BY <1>5, <2>1 DEF Incoming
  <2>8. CASE Len(card.out) = 1
    <3>1. card'.state = "tran"
      BY <2>1, <2>8 DEF Resting
    <3>2. Coming(k)'
      BY <3>1 DEF Coming
    <3>3. Reading(k, 2)'
      BY <1>1, <1>5, <1>7, <2>1, <2>2, <2>4, <2>5, <2>6, <2>7, <3>1, <3>2 DEF Reading
    <3> QED
      BY <1>5, <1>7, <1>8, <2>1, <3>3 DEF EngineInv, ReadInv
  <2>9. CASE Len(card.out) # 1
    <3>0. card \in CardType
      BY DEF Inv, CardInv
    <3>1. card'.state = "data" /\ card'.out = Tail(card.out)
      BY <1>5, <2>1, <2>9, <3>0 DEF CardType
    <3>2. card.out \in Seq(Values \cup {ExtCsd}) /\ Len(card.out) = k + 1
      BY <1>5, <1>6, <3>0 DEF CardType
    <3>3. Len(card'.out) = k /\ \A i \in 1 .. k : card'.out[i] = card.out[i + 1]
      BY <1>1, <3>1, <3>2
    <3>4. ASSUME NEW i \in 1 .. k PROVE card'.out[i] = BlockAt(call.count - k + i - 1)
      <4>1. i + 1 \in 1 .. Len(card.out)
        BY <1>5, <3>2
      <4>2. card.out[i + 1] = BlockAt(call.count - Len(card.out) + (i + 1) - 1)
        BY <1>5, <1>6, <4>1 DEF Coming
      <4>3. call.count - Len(card.out) + (i + 1) - 1 = call.count - k + i - 1
        BY <1>3, <1>5, <3>2
      <4> QED
        BY <3>3, <4>2, <4>3
    <3>5. InRange' /\ \A j : BlockAt(j)' = BlockAt(j)
      BY <1>5, <1>6, <1>7 DEF Coming, InRange, BlockAt
    <3>6. Coming(k)'
      BY <1>7, <2>7, <3>3, <3>4, <3>5 DEF Coming
    <3>7. Reading(k, 2)'
      BY <1>1, <1>5, <1>7, <2>1, <2>2, <2>4, <2>5, <2>6, <2>7, <3>1, <3>6 DEF Reading
    <3> QED
      BY <1>5, <1>7, <1>8, <2>1, <3>7 DEF EngineInv, ReadInv
  <2> QED
    BY <2>8, <2>9
<1> QED
  BY <1>1, <1>12, <1>13, <1>5
-----------------------------------------------------------------------------
(* Writes *)

\* What makes a step one of a write's polls.
LEMMA SendingInv ==
  ASSUME InWrite', pc' \in Polls, queue' \in Seq(Word),
         \/ Sent'
         \/ pc' # "status" /\ \E b \in 0 .. call'.count, k \in 0 .. BlockLength - 1 : Sending(b, k)'
  PROVE  EngineInv'
<1>1. WriteInv'
  BY DEF WriteInv
<1>2. ~InRead'
  BY DEF InRead, InWrite, Called, ReadOps
<1> QED
  BY <1>1, <1>2 DEF EngineInv

\* What the card has after a word is what it is to have, if it took everything.
LEMMA FollowsOn ==
  ASSUME Inv, SendWord, NEW b \in 0 .. call.count - 1, NEW k \in 1 .. BlockLength - 1, Sending(b, k)
  PROVE  /\ k + 1 < BlockLength => Follows(b, k + 1)'
         /\ k + 1 = BlockLength => Follows(b + 1, 0)'
<1>1. /\ call \in Calls /\ call.op = "write" /\ call.count \in Nat \ {0} /\ call.lba \in Nat
      /\ call.data \in [1 .. call.count -> Values] /\ call' = call
  BY InSend DEF SendWord, driverVars
<1>2. BlockLength \in Nat /\ BlockLength > 3 /\ BlockLength = BlockWords + 3 /\ BlockWords \in Nat
  BY CardAssumption DEF BlockLength
<1>3. card \in CardType /\ card.word \in 0 .. BlockWords + 1 /\ card.at \in Nat /\ card.left \in Nat
  BY CardFields DEF Inv, CardInv
<1>4. /\ card.word # 0 => card.word = k - 1 /\ card.state = "rcv"
      /\ card.state = "rcv" => card.at + card.left = call.lba + call.count /\ card.left >= call.count - b
      /\ healthy /\ InRange => /\ card.state = "rcv" /\ card.at = call.lba + b
                               /\ card.left = call.count - b /\ card.word = k - 1 /\ Stored(b)
  BY DEF Sending, Line, Follows, TakenSoFar, Inv, CardInv
<1>5. (healthy' /\ InRange' => healthy /\ InRange) /\ b \in Nat /\ b < call.count
  BY <1>1, WordTaken DEF InRange
<1>6. CASE StartTaken(k)
  <2>1. PICK w \in {0, 1} : card' = [card EXCEPT !.word = w] /\ (healthy' => w = 1)
    BY <1>6 DEF StartTaken
  <2>2. /\ card'.word = w /\ card'.state = card.state /\ card'.at = card.at /\ card'.left = card.left
    BY <1>3, <2>1 DEF CardType
  <2>3. k = 1 /\ store' = store
    BY <1>6 DEF StartTaken
  <2>4. healthy' /\ InRange' => TakenSoFar(b, k + 1)'
    BY <1>1, <1>4, <1>5, <2>1, <2>2, <2>3 DEF TakenSoFar, Stored
  <2>5. Follows(b, k + 1)'
    BY <1>1, <1>4, <2>1, <2>2, <2>3, <2>4 DEF Follows
  <2> QED
    BY <1>2, <2>3, <2>5
<1>7. CASE DataTaken(k)
  <2> DEFINE w == IF card.word > 0 THEN card.word + 1 ELSE 0
  <2>1. card' = [card EXCEPT !.word = w] /\ store' = store /\ k \in 2 .. BlockLength - 2
    BY <1>7 DEF DataTaken
  <2>2. (w # 0 => card.word # 0 /\ w = k) /\ (card.word = k - 1 => w = k)
    <3>1. card.word = 0 \/ card.word = k - 1
      BY <1>4
    <3>2. k - 1 > 0 /\ (k - 1) + 1 = k
      BY <1>2, <2>1
    <3> QED
      BY <3>1, <3>2
  <2> HIDE DEF w
  <2>3. /\ card'.word = w /\ card'.state = card.state /\ card'.at = card.at /\ card'.left = card.left
    BY <1>3, <2>1 DEF CardType
  <2>4. k = (k + 1) - 1 /\ k + 1 # 0 /\ k + 1 < BlockLength
    BY <1>2, <2>1
  <2>5. healthy' /\ InRange' => TakenSoFar(b, k + 1)'
    BY <1>1, <1>4, <1>5, <2>1, <2>2, <2>3, <2>4 DEF TakenSoFar, Stored
  <2>6. Follows(b, k + 1)'
    BY <1>1, <1>4, <2>2, <2>3, <2>4, <2>5 DEF Follows
  <2> QED
    BY <2>4, <2>6
<1>8. CASE BlockMissed(k)
  <2>1. k = BlockLength - 1 /\ card.word = 0 /\ card' = card
    BY <1>8 DEF BlockMissed
  <2>2. k - 1 # 0 /\ k + 1 = BlockLength
    BY <1>2, <2>1
  <2>3. ~(healthy' /\ InRange')
    BY <1>4, <1>5, <2>1, <2>2
  <2>4. card.state = "rcv" => card.left >= call.count - (b + 1)
    BY <1>1, <1>3, <1>4, <1>5
  <2>5. Follows(b + 1, 0)'
    BY <1>1, <1>4, <2>1, <2>3, <2>4 DEF Follows
  <2> QED
    BY <2>2, <2>5
<1>9. CASE LastTaken(b, k)
  <2>1. /\ k = BlockLength - 1 /\ card.left = 1 /\ store' = store
        /\ card' = [card EXCEPT !.state = "prg", !.out = <<call.data[b + 1]>>, !.word = 0]
    BY <1>9 DEF LastTaken
  <2>2. /\ card'.state = "prg" /\ card'.out = <<call.data[b + 1]>> /\ card'.word = 0
        /\ card'.at = card.at
    BY <1>3, <2>1 DEF CardType
  <2>3. ASSUME healthy', InRange' PROVE TakenSoFar(b + 1, 0)'
    <3>1. card.left = call.count - b /\ card.at = call.lba + b /\ Stored(b)
      BY <1>4, <1>5, <2>3
    <3>2. b + 1 = call.count /\ call.count - 1 = b /\ card.at = call.lba + call.count - 1
      BY <1>1, <1>5, <2>1, <3>1
    <3>3. Stored(call.count - 1)'
      BY <1>1, <2>1, <3>1, <3>2 DEF Stored
    <3>4. AllTaken'
      BY <1>1, <2>2, <3>2, <3>3 DEF AllTaken
    <3> QED
      BY <1>1, <3>2, <3>4 DEF TakenSoFar
  <2>4. Follows(b + 1, 0)'
    BY <2>2, <2>3 DEF Follows
  <2> QED
    BY <1>2, <2>1, <2>4
<1>10. CASE BlockTaken(b, k)
  <2>1. /\ k = BlockLength - 1 /\ card.left \in Nat \ {0, 1} /\ card.word = BlockWords + 1
        /\ store' = [store EXCEPT ![card.at] = call.data[b + 1]]
    BY <1>10 DEF BlockTaken
  <2>2. PICK busy \in BOOLEAN :
          card' = [card EXCEPT !.at = card.at + 1, !.left = card.left - 1, !.word = 0, !.busy = busy]
    BY <1>10 DEF BlockTaken
  <2>3. /\ card'.state = card.state /\ card'.at = card.at + 1 /\ card'.left = card.left - 1
        /\ card'.word = 0
    BY Zenon, <1>3, <2>2 DEF CardType
  <2>4. card'.state = "rcv" => /\ card'.at + card'.left = call.lba + call.count
                               /\ card'.left >= call.count - (b + 1)
    <3>1. card.state = "rcv" => /\ card.at + card.left = call.lba + call.count
                                /\ card.left >= call.count - b
      BY <1>4
    <3>2. \A x, y, m, n, d \in Nat :
            /\ x + y = m + n => (x + 1) + (y - 1) = m + n
            /\ y >= n - d => y - 1 >= n - (d + 1)
      OBVIOUS
    <3>3. call.lba \in Nat /\ call.count \in Nat /\ b \in Nat /\ card.at \in Nat /\ card.left \in Nat
      BY <1>1, <1>3, <1>5
    <3> QED
      BY ONLY <2>3, <3>1, <3>2, <3>3
  <2>5. ASSUME healthy', InRange' PROVE TakenSoFar(b + 1, 0)'
    <3>1. card.left = call.count - b /\ card.at = call.lba + b /\ Stored(b) /\ card.state = "rcv" /\ InRange
      BY <1>4, <1>5, <2>5
    <3>2. b + 1 # call.count /\ card'.at = call.lba + (b + 1) /\ card'.left = call.count - (b + 1)
      <4>1. \A m, n, d \in Nat : /\ (m + d) + 1 = m + (d + 1)
                                 /\ (n - d) - 1 = n - (d + 1)
                                 /\ n - d # 1 => d + 1 # n
        OBVIOUS
      <4>2. call.lba \in Nat /\ call.count \in Nat /\ b \in Nat /\ card.left # 1
        BY <1>1, <1>5, <2>1
      <4> QED
        BY ONLY <2>3, <3>1, <4>1, <4>2
    <3>3. ASSUME NEW i \in 1 .. b + 1 PROVE store'[call.lba + i - 1] = call.data[i]
      <4>1. store \in [CardBlock -> Values] /\ CardBlocks \in Nat
        BY CardAssumption DEF Inv, DriverInv
      <4>2. call.lba + i - 1 \in CardBlock
        <5>1. call.lba + call.count <= CardBlocks
          BY <1>1, <3>1 DEF InRange
        <5>2. call.lba \in Nat /\ call.count \in Nat /\ i \in 1 .. call.count
          BY <1>1, <1>5
        <5> QED
          BY ONLY <4>1, <5>1, <5>2 DEF CardBlock
      <4>3. CASE i = b + 1
        <5>1. call.lba + i - 1 = card.at
          BY <1>1, <1>5, <3>1, <4>3
        <5> QED
          BY <2>1, <4>1, <4>2, <4>3, <5>1
      <4>4. CASE i \in 1 .. b
        <5>1. call.lba + i - 1 # card.at
          BY <1>1, <1>5, <3>1, <4>4
        <5> QED
          BY <2>1, <3>1, <4>1, <4>2, <4>4, <5>1 DEF Stored
      <4> QED
        BY <1>5, <4>3, <4>4
    <3>4. Stored(b + 1)'
      BY <1>1, <3>3 DEF Stored
    <3> QED
      BY <1>1, <2>3, <3>1, <3>2, <3>4 DEF TakenSoFar
  <2>6. Follows(b + 1, 0)'
    BY <1>1, <2>3, <2>4, <2>5 DEF Follows
  <2> QED
    BY <1>2, <2>1, <2>6
<1>11. CASE BlockRefused(k)
  <2>1. k = BlockLength - 1 /\ card' = Resting("tran") /\ healthy' = FALSE
    BY <1>11 DEF BlockRefused
  <2>2. card'.state = "tran" /\ card'.word = 0
    BY <2>1 DEF Resting
  <2>3. Follows(b + 1, 0)'
    BY <2>1, <2>2 DEF Follows
  <2> QED
    BY <1>2, <2>1, <2>3
<1> QED
  BY <1>6, <1>7, <1>8, <1>9, <1>10, <1>11, WordTaken

LEMMA WriteSends ==
  ASSUME Inv, SendWord
  PROVE  EngineInv'
<1>1. /\ InWrite /\ pc \in Polls \ {"status"} /\ call.count \in Nat \ {0}
      /\ call' = call /\ pc' = pc /\ dma' = dma
  BY InSend DEF SendWord, driverVars
<1>2. PICK b \in 0 .. call.count - 1, k \in 1 .. BlockLength - 1 : Sending(b, k)
  BY InSend DEF SendWord
<1>3. BlockLength \in Nat /\ BlockLength > 3 /\ b + 1 # 0 /\ b + 1 \in 0 .. call.count
      /\ b \in 0 .. call.count /\ b # call.count
  BY <1>1, CardAssumption DEF BlockLength
<1>4. InWrite' /\ dma' = 0
  BY <1>1, <1>2 DEF InWrite, Called, Sending, Line
<1>5. /\ queue' \in Seq(Word)
      /\ k + 1 < BlockLength =>
              /\ EndOfWrite(queue', call.count, b, k + 1)
              /\ datSm' = "send" /\ left' = BlockLength - (k + 1)
      /\ k + 1 = BlockLength =>
              /\ EndOfWrite(queue', call.count, b + 1, 0) /\ datSm' = "next" /\ left' = 0
  BY <1>2, WordSent
<1>6. CASE k + 1 < BlockLength
  <2>1. k + 1 # 0 /\ k + 1 \in 0 .. BlockLength - 1
    BY <1>3, <1>6
  <2>2. Line(b, k + 1)'
    BY <1>1, <1>3, <1>4, <1>5, <1>6, <2>1 DEF Line
  <2>3. Follows(b, k + 1)'
    BY <1>2, <1>6, FollowsOn
  <2>4. Sending(b, k + 1)'
    BY <2>2, <2>3 DEF Sending
  <2>5. \E c \in 0 .. call'.count, l \in 0 .. BlockLength - 1 : Sending(c, l)'
    BY <1>1, <1>3, <2>1, <2>4
  <2> QED
    BY <1>1, <1>4, <1>5, <2>5, SendingInv
<1>7. CASE k + 1 = BlockLength
  <2>1. Line(b + 1, 0)'
    BY <1>1, <1>3, <1>4, <1>5, <1>7 DEF Line
  <2>2. Follows(b + 1, 0)'
    BY <1>2, <1>7, FollowsOn
  <2>3. Sending(b + 1, 0)'
    BY <2>1, <2>2 DEF Sending
  <2>4. 0 \in 0 .. BlockLength - 1
    BY <1>3
  <2>5. \E c \in 0 .. call'.count, l \in 0 .. BlockLength - 1 : Sending(c, l)'
    BY <1>1, <1>3, <2>3, <2>4
  <2> QED
    BY <1>1, <1>4, <1>5, <2>5, SendingInv
<1> QED
  BY <1>3, <1>6, <1>7

\* A command of a write is fetched: the next block begins, or the write is sent.
LEMMA WriteFetches ==
  ASSUME Inv, FetchCommand, InWrite
  PROVE  EngineInv'
<1>1. queue # <<>> /\ datSm \in {"waiting", "next"} /\ queue \in Seq(Word)
  BY DEF FetchCommand, Inv, EngineInv
<1>2. /\ UNCHANGED <<call, pc, card, store, healthy>> /\ queue' = Tail(queue)
      /\ datSm' = Fetched[Head(queue)]
      /\ left' = IF Head(queue) = "recv" THEN BlockWords + 1
                 ELSE IF Head(queue) = "send" THEN BlockWords + 2 ELSE 0
      /\ dma' = IF Head(queue) = "pad" THEN dma - 1 ELSE dma
  BY DEF FetchCommand, driverVars, cardVars, history
<1>3. WriteInv /\ ~Quiet /\ ~Sent
  BY <1>1 DEF Inv, EngineInv, Quiet, Sent
<1>4. pc \in Polls \ {"status"} /\ \E b \in 0 .. call.count, k \in 0 .. BlockLength - 1 : Sending(b, k)
  BY <1>3 DEF WriteInv
<1>5. PICK b \in 0 .. call.count, k \in 0 .. BlockLength - 1 : Sending(b, k)
  BY <1>4
<1>6. k = 0 /\ dma = 0 /\ EndOfWrite(queue, call.count, b, 0) /\ Follows(b, 0)
  BY <1>1, <1>5 DEF Sending, Line
<1>7. BlockLength \in Nat /\ BlockLength > 3 /\ BlockLength = BlockWords + 3 /\ BlockWords \in Nat
  BY CardAssumption DEF BlockLength
<1>8. call \in Calls /\ call.op = "write"
  BY DEF Inv, DriverInv, InWrite, Called
<1>9. call.count \in Nat /\ InWrite' /\ (InRange' <=> InRange)
  BY <1>2, <1>8, CallFields DEF InWrite, Called, InRange
<1>10. /\ Head(queue) = IF b = call.count THEN "go" ELSE WordOfBlock(1)
       /\ Tail(queue) \in Seq(Word)
       /\ b = call.count => Tail(queue) = <<>>
       /\ b < call.count => EndOfWrite(Tail(queue), call.count, b, 1)
  <2>1. 0 + 1 = 1 /\ 1 < BlockLength /\ 0 \in 0 .. BlockLength - 1
    BY <1>7
  <2> QED
    BY <1>1, <1>6, <1>9, <2>1, NextOfWrite
<1>11. card.word = 0
  <2>1. card.word \in 0 .. BlockWords + 1
    BY CardFields DEF Inv, CardInv
  <2> QED
    BY <1>6, <2>1 DEF Follows
<1>12. CASE b = call.count
  <2>1. Head(queue) = "go" /\ queue' = <<>>
    BY <1>2, <1>10, <1>12
  <2>2. datSm' = "waiting" /\ left' = 0 /\ dma' = 0
    BY <1>2, <1>6, <2>1 DEF Fetched
  <2>3. healthy' /\ InRange' => AllTaken'
    BY <1>2, <1>6, <1>9, <1>12 DEF Follows, TakenSoFar, AllTaken, Stored
  <2>4. Sent'
    BY <1>2, <1>11, <2>1, <2>2, <2>3 DEF Sent, Quiet
  <2> QED
    BY <1>2, <1>4, <1>9, <1>10, <2>4, SendingInv
<1>13. CASE b # call.count
  <2>1. Head(queue) = "send" /\ b < call.count
    BY <1>9, <1>10, <1>13 DEF WordOfBlock
  <2>2. datSm' = "send" /\ left' = BlockLength - 1 /\ dma' = 0
    BY <1>2, <1>6, <1>7, <2>1 DEF Fetched
  <2>3. Line(b, 1)'
    BY <1>2, <1>10, <1>13, <2>1, <2>2 DEF Line
  <2>4. Follows(b, 1)'
    BY <1>2, <1>6, <1>9, <1>11, <1>13 DEF Follows, TakenSoFar, Stored
  <2>5. Sending(b, 1)' /\ 1 \in 0 .. BlockLength - 1
    BY <1>7, <2>3, <2>4 DEF Sending
  <2>6. \E c \in 0 .. call'.count, l \in 0 .. BlockLength - 1 : Sending(c, l)'
    BY <1>2, <2>5
  <2> QED
    BY <1>2, <1>4, <1>9, <1>10, <2>6, SendingInv
<1> QED
  BY <1>12, <1>13

\* The card moves, in a write, or a poll finds that it has not.
LEMMA WriteGoesOn ==
  ASSUME Inv, InWrite, InWrite', UNCHANGED <<call, engineVars>>, (pc \in Polls) = (pc' \in Polls),
         pc' = "status" => pc = "status" \/ Sent,
         healthy' => healthy,
         card'.word # 0 => card'.word = card.word,
         card'.state = "rcv" => card.state = "rcv" /\ UNCHANGED <<card.at, card.left>>,
         \A b \in 0 .. call.count, k \in 0 .. BlockLength - 1 :
           healthy' /\ InRange /\ TakenSoFar(b, k) => TakenSoFar(b, k)'
  PROVE  EngineInv'
<1>1. WriteInv /\ queue' \in Seq(Word) /\ (InRange' <=> InRange)
  BY DEF Inv, EngineInv, engineVars, InRange
<1>2. CASE pc \notin Polls
  <2>1. Quiet' /\ dma' \in Nat
    BY <1>1, <1>2 DEF WriteInv, Quiet, engineVars
  <2>2. WriteInv'
    BY <1>2, <2>1 DEF WriteInv
  <2>3. ~InRead'
    BY DEF InRead, InWrite, Called, ReadOps
  <2> QED
    BY <1>1, <2>2, <2>3 DEF EngineInv
<1>3. ASSUME NEW b \in 0 .. call.count, NEW k \in 0 .. BlockLength - 1, Sending(b, k),
             pc \in Polls, pc' # "status"
      PROVE  EngineInv'
  <2>1. Line(b, k)'
    BY <1>3 DEF Sending, Line, engineVars
  <2>2. Follows(b, k)'
    BY <1>1, <1>3 DEF Sending, Follows
  <2>3. \E c \in 0 .. call'.count, l \in 0 .. BlockLength - 1 : Sending(c, l)'
    BY <2>1, <2>2 DEF Sending
  <2> QED
    BY <1>1, <1>3, <2>3, SendingInv
<1>4. CASE Sent /\ pc \in Polls
  <2>1. call \in Calls /\ call.op = "write"
    BY DEF Inv, DriverInv, InWrite, Called
  <2>2. call.count \in 0 .. call.count /\ 0 \in 0 .. BlockLength - 1
    BY <2>1, CallFields, CardAssumption DEF BlockLength
  <2>3. healthy' /\ InRange' => AllTaken'
    <3>1. AllTaken => TakenSoFar(call.count, 0)
      BY DEF TakenSoFar
    <3>2. TakenSoFar(call.count, 0)' => AllTaken'
      BY DEF TakenSoFar
    <3> QED
      BY <1>1, <1>4, <2>2, <3>1, <3>2 DEF Sent
  <2>4. Sent'
    BY <1>4, <2>3 DEF Sent, Quiet, engineVars
  <2> QED
    BY <1>1, <1>4, <2>4, SendingInv
<1>5. pc' = "status" /\ pc \in Polls => Sent
  BY <1>1 DEF WriteInv
<1> QED
  BY <1>1, <1>2, <1>3, <1>4, <1>5 DEF WriteInv
-----------------------------------------------------------------------------
(* What sd_init leaves of a read that failed *)

LEMMA HeldWords ==
  ASSUME queue \in Seq(Word)
  PROVE  /\ Held \in Seq(Word)
         /\ Len(queue) <= TxDepth + 1 => Held = <<>>
         /\ Len(queue) > TxDepth + 1 =>
              /\ Len(Held) = Len(queue) - (TxDepth + 1) /\ Len(Held) < Len(queue)
              /\ \A i \in 1 .. Len(Held) : i + (TxDepth + 1) \in 1 .. Len(queue)
                                           /\ Held[i] = queue[i + (TxDepth + 1)]
<1>1. TxDepth \in Nat /\ Len(queue) \in Nat
  BY CardAssumption
<1>2. CASE Len(queue) <= TxDepth + 1
  <2>1. Held = <<>>
    BY <1>1, <1>2 DEF Held
  <2> QED
    BY <1>1, <1>2, <2>1
<1>3. CASE Len(queue) > TxDepth + 1
  <2>1. Held = [i \in 1 .. Len(queue) - (TxDepth + 1) |-> queue[i + (TxDepth + 1)]]
    <3>1. Held = [i \in 1 .. 1 + Len(queue) - (TxDepth + 2) |-> queue[i + (TxDepth + 2) - 1]]
      BY <1>1, <1>3 DEF Held
    <3>2. 1 + Len(queue) - (TxDepth + 2) = Len(queue) - (TxDepth + 1)
      BY <1>1
    <3>3. \A i \in 1 .. Len(queue) - (TxDepth + 1) : i + (TxDepth + 2) - 1 = i + (TxDepth + 1)
      BY <1>1
    <3> QED
      BY <3>1, <3>2, <3>3
  <2>2. \A i \in 1 .. Len(queue) - (TxDepth + 1) : i + (TxDepth + 1) \in 1 .. Len(queue)
    BY <1>1
  <2>3. \A i \in 1 .. Len(queue) : queue[i] \in Word
    OBVIOUS
  <2>4. Len(queue) - (TxDepth + 1) \in Nat /\ Len(queue) - (TxDepth + 1) < Len(queue)
    BY <1>1, <1>3
  <2>5. Held \in Seq(Word) /\ Len(Held) = Len(queue) - (TxDepth + 1)
    BY <2>1, <2>2, <2>3, <2>4
  <2> QED
    BY <1>1, <1>3, <2>1, <2>2, <2>4, <2>5
<1> QED
  BY <1>1, <1>2, <1>3

\* The end of a read is still one when its first words are lost, and DMA is owed no more.
LEMMA HeldIsEnd ==
  ASSUME queue \in Seq(Word), NEW k \in Nat, NEW r \in 0 .. 2, ReadTail(k, r), dma \in Nat,
         dma >= Owed(k, r)
  PROVE  \E l \in Nat, s \in 0 .. 2 :
           EndOfRead(Held, l, s) /\ dma >= WordsToFetch(l) + IF s = 2 THEN 1 ELSE 0
<1>1. EndOfRead(queue, k, r) /\ Len(queue) = 3 * k + r /\ BlockWords \in Nat
  BY CardAssumption DEF ReadTail, EndOfRead
<1>2. Owed(k, r) \in Nat /\ WordsToFetch(k) \in Nat /\ Owed(k, r) >= WordsToFetch(k)
  <2>1. WordsToFetch(k) \in Nat
    BY Fetching
  <2>2. datSm = "receive" => left \in Nat
    BY CardAssumption DEF ReadTail
  <2> QED
    BY <2>1, <2>2 DEF Owed
<1>3. CASE Len(queue) <= TxDepth + 1
  <2>1. Len(Held) = 0
    BY <1>3, HeldWords
  <2>2. EndOfRead(Held, 0, 0) /\ WordsToFetch(0) = 0
    BY <2>1, Fetching DEF EndOfRead
  <2> QED
    BY <2>2
<1>4. CASE Len(queue) > TxDepth + 1
  <2> DEFINE m == Len(Held)
  <2>1. /\ m \in Nat /\ m = Len(queue) - (TxDepth + 1) /\ m < Len(queue) /\ TxDepth \in Nat
        /\ Len(queue) \in Nat
        /\ \A i \in 1 .. m : i + (TxDepth + 1) \in 1 .. Len(queue)
                             /\ Held[i] = queue[i + (TxDepth + 1)]
    BY <1>4, HeldWords, CardAssumption
  <2> HIDE DEF m
  <2>2. /\ m \div 3 \in Nat /\ m % 3 \in 0 .. 2 /\ m = 3 * (m \div 3) + (m % 3)
    <3>1. m \in Nat /\ 3 \in Nat \ {0}
      BY <2>1
    <3>2. m % 3 \in 0 .. 3 - 1
      BY <3>1, Division
    <3> QED
      BY <3>1, <3>2, Division
  <2>3. ASSUME NEW i \in 1 .. m PROVE Held[i] = ReadWord((m - i) % 3)
    <3>1. queue[i + (TxDepth + 1)] = ReadWord((Len(queue) - (i + (TxDepth + 1))) % 3)
      BY <1>1, <2>1 DEF EndOfRead
    <3>2. Len(queue) - (i + (TxDepth + 1)) = m - i
      BY <2>1
    <3> QED
      BY <2>1, <3>1, <3>2
  <2>4. PICK l \in Nat, s \in 0 .. 2 : EndOfRead(Held, l, s)
    <3>1. EndOfRead(Held, m \div 3, m % 3)
      BY <2>2, <2>3 DEF EndOfRead, m
    <3> QED
      BY <2>2, <3>1
  <2>5. 3 * l + s < 3 * k + r
    BY <1>1, <2>1, <2>4 DEF EndOfRead, m
  <2>6. l < k \/ (l = k /\ s < r)
    BY <2>5
  <2>7. CASE l < k
    <3>1. (BlockWords + 1) * l + (BlockWords + 1) <= (BlockWords + 1) * k
      BY <1>1, <2>7, Larger
    <3>2. (BlockWords + 1) * l = WordsToFetch(l) /\ (BlockWords + 1) * k = WordsToFetch(k)
      BY <1>1 DEF WordsToFetch
    <3>3. WordsToFetch(l) + (BlockWords + 1) <= WordsToFetch(k)
      BY ONLY <3>1, <3>2
    <3>4. WordsToFetch(l) \in Nat /\ WordsToFetch(k) \in Nat /\ BlockWords \in Nat
      BY <1>1, <1>2, Fetching
    <3>5. WordsToFetch(l) + 1 <= WordsToFetch(k)
      <4>1. \A x, y, z \in Nat : x + (z + 1) <= y => x + 1 <= y
        OBVIOUS
      <4> QED
        BY ONLY <3>3, <3>4, <4>1
    <3>6. dma >= WordsToFetch(k)
      BY <1>2, <3>4
    <3>7. dma >= WordsToFetch(l) + 1 /\ dma >= WordsToFetch(l) + 0
      BY ONLY <3>4, <3>5, <3>6, dma \in Nat
    <3>8. dma >= WordsToFetch(l) + IF s = 2 THEN 1 ELSE 0
      BY ONLY <3>7
    <3> QED
      BY <2>4, <3>8
  <2>8. CASE l = k /\ s < r
    <3>1. s # 2 /\ dma >= WordsToFetch(l) + 0
      BY <1>2, <2>8
    <3>2. dma >= WordsToFetch(l) + IF s = 2 THEN 1 ELSE 0
      BY ONLY <3>1
    <3> QED
      BY <2>4, <3>2
  <2> QED
    BY <2>6, <2>7, <2>8
<1>5. Len(queue) \in Nat /\ TxDepth \in Nat
  BY CardAssumption
<1> QED
  BY <1>3, <1>4, <1>5

LEMMA ResetLeaves ==
  ASSUME Inv, Reset
  PROVE  EngineInv'
<1>1. Called({"init"}) /\ call' = call /\ pc' = "ocr"
  BY CallOfStep DEF Inv, Reset
<1>2. ~InRead /\ ~InWrite /\ ~InRead' /\ ~InWrite'
  BY <1>1 DEF Called, InRead, InWrite, ReadOps
<1>3. queue \in Seq(Word) /\ (Unset \/ Loose)
  BY <1>2 DEF Inv, EngineInv
<1>4. /\ datSm' = "waiting" /\ left' = 0 /\ queue' = Held /\ dma' = dma
      /\ leftover' = (Held # <<>>)
  BY DEF Reset
<1>5. queue' \in Seq(Word)
  BY <1>3, <1>4, HeldWords
<1>6. CASE Held = <<>>
  <2>1. dma' \in Nat
    BY <1>3, <1>4 DEF Unset, Loose
  <2>2. Quiet'
    BY <1>4, <1>6 DEF Quiet
  <2>3. Loose'
    BY <2>1, <2>2, QuietIsLoose
  <2> QED
    BY <1>2, <1>5, <2>2, <2>3 DEF EngineInv
<1>7. CASE Held # <<>>
  <2>1. ~Unset
    <3>1. TxDepth \in Nat /\ Len(<<>>) = 0
      BY CardAssumption
    <3> QED
      BY <1>3, <1>7, <3>1, HeldWords DEF Unset
  <2>2. Loose
    BY <1>3, <2>1
  <2>3. PICK k \in 0 .. Len(queue), r \in 0 .. 2 : ReadTail(k, r) /\ dma >= Owed(k, r)
    BY <2>2 DEF Loose
  <2>4. k \in Nat /\ dma \in Nat
    <3>1. Len(queue) \in Nat
      BY <1>3
    <3> QED
      BY <2>2, <3>1 DEF Loose
  <2>5. PICK l \in Nat, s \in 0 .. 2 :
          EndOfRead(Held, l, s) /\ dma >= WordsToFetch(l) + IF s = 2 THEN 1 ELSE 0
    BY <1>3, <2>3, <2>4, HeldIsEnd
  <2>6. ReadTail(l, s)'
    BY <1>4, <2>5 DEF ReadTail, EndOfRead
  <2>7. dma' >= Owed(l, s)'
    BY <1>4, <2>5 DEF Owed, WordsToFetch
  <2>8. l \in 0 .. Len(queue')
    <3>1. Len(queue') = 3 * l + s
      BY <1>4, <2>5 DEF EndOfRead
    <3> QED
      BY <3>1
  <2>9. Loose' /\ leftover'
    <3>1. dma' \in Nat /\ datSm' \in {"waiting", "next", "receive"}
      BY <1>4, <2>4
    <3>2. leftover'
      BY <1>4, <1>7
    <3>3. Loose'
      BY <2>6, <2>7, <2>8, <3>1 DEF Loose
    <3> QED
      BY <3>2, <3>3
  <2> QED
    BY <1>2, <1>5, <2>9 DEF EngineInv
<1> QED
  BY <1>6, <1>7
-----------------------------------------------------------------------------
(* The steps of the driver *)

LEMMA Settles ==
  ASSUME Inv, Settle
  PROVE  EngineInv'
<1>1. /\ Called(ReadOps \cup {"write"}) /\ call \in Calls /\ call # NoCall
      /\ pc = "settle" /\ datSm = "waiting" /\ queue = <<>>
      /\ UNCHANGED <<call, card, store>> /\ pc' \in {"ask", "count"}
  BY CallOfStep DEF Inv, Settle, GoTo, cardVars
<1>2. call.count \in Nat \ {0} /\ BlockWords \in Nat \ {0}
  BY <1>1, CallFields, CardAssumption DEF Called, ReadOps
<1>3. ~InRead /\ ~InWrite
  BY <1>1 DEF InRead, InWrite
<1>4. Loose
  BY <1>1, <1>3 DEF Inv, EngineInv, Unset
<1>5. dma \in Nat /\ left = 0
  BY <1>1, <1>4 DEF Loose, ReadTail
<1>6. CASE call.op \in ReadOps
  <2> PICK n \in Nat \ {0} : n = call.count
    BY <1>2
  <2>0. InRead' /\ ~InWrite'
    BY <1>1, <1>6 DEF InRead, InWrite, Called, ReadOps
  <2>1. /\ queue' = Tail(ReadCommands(n)) /\ datSm' = "receive" /\ left' = BlockWords + 1
        /\ dma' = WordsToFetch(n) /\ buffer' = <<>>
    BY <1>6 DEF Settle
  <2>2. n - 1 \in Nat /\ (n - 1) + 1 = n /\ n = call'.count
    BY <1>1
  <2>3. queue' \in Seq(Word) /\ EndOfRead(queue', n - 1, 2)
    BY <2>1, <2>2, ReadCommandsAt
  <2>4. ReadTail(n - 1, 2)'
    BY <1>2, <2>1, <2>3 DEF ReadTail, EndOfRead
  <2>5. dma' = Owed(n - 1, 2)'
    <3>1. WordsToFetch(n) = WordsToFetch(n - 1) + BlockWords + 1 /\ WordsToFetch(n - 1) \in Nat
      BY <2>2, Fetching
    <3>2. Owed(n - 1, 2)' = WordsToFetch(n - 1) + (BlockWords + 1)
      BY <2>1 DEF Owed, WordsToFetch
    <3> QED
      BY <1>2, <2>1, <3>1, <3>2
  <2>6. Incoming(n - 1)' = n
    BY <2>1, <2>2 DEF Incoming
  <2>7. Len(buffer') = (n - (n - 1)) * BlockWords - (left' - 1)
    <3>1. (n - (n - 1)) * BlockWords = BlockWords /\ left' - 1 = BlockWords
      BY <1>2, <2>1, <2>2
    <3>2. Len(buffer') = 0
      BY <2>1
    <3> QED
      BY <1>2, <3>1, <3>2
  <2>8. Delivered'
    BY <2>1 DEF Delivered
  <2>9. Coming(n - 1)'
    <3>1. card.state # "data"
      BY <1>3 DEF Inv, CardInv
    <3> QED
      BY <1>1, <3>1 DEF Coming
  <2>10. Reading(n - 1, 2)'
    <3>1. Len(buffer') = (call'.count - (n - 1)) * BlockWords - IF datSm' = "receive" THEN left' - 1 ELSE 0
      BY <2>1, <2>2, <2>7
    <3>2. Incoming(n - 1)' <= call'.count
      BY <2>2, <2>6
    <3>3. n - 1 = call'.count - 1
      BY <2>2
    <3> QED
      BY <1>1, <2>1, <2>4, <2>5, <2>8, <2>9, <3>1, <3>2, <3>3 DEF Reading
  <2>11. n - 1 \in 0 .. call'.count /\ 2 \in 0 .. 2
    BY <2>2
  <2>12. ReadInv'
    BY <2>1, <2>10, <2>11 DEF ReadInv
  <2> QED
    BY <2>0, <2>3, <2>12 DEF EngineInv
<1>7. CASE call.op \notin ReadOps
  <2>1. UNCHANGED engineVars
    BY <1>7 DEF Settle
  <2>2. InWrite' /\ ~InRead'
    BY <1>1, <1>7 DEF InRead, InWrite, Called
  <2>3. Quiet' /\ dma' \in Nat
    BY <1>1, <1>5, <2>1 DEF Quiet, engineVars
  <2>4. WriteInv'
    BY <1>1, <2>3 DEF WriteInv
  <2>5. queue' \in Seq(Word)
    BY <2>1 DEF engineVars, Inv, EngineInv
  <2> QED
    BY <2>2, <2>4, <2>5 DEF EngineInv
<1> QED
  BY <1>6, <1>7

\* SET_BLOCK_COUNT goes well, fails or ends in panic.
LEMMA Counted ==
  ASSUME Inv, SetBlockCount
  PROVE  EngineInv'
<1>1. Called(ReadOps \cup {"write"}) /\ pc = "count" /\ call \in Calls /\ call # NoCall
  BY CallOfStep DEF Inv, SetBlockCount
<1>2. PICK o \in Outcomes({"tran"}, TRUE) : Command(o, card) /\ (Fail(o) \/ (o = "ok" /\ GoTo("ask")))
  BY DEF SetBlockCount
<1>3. /\ o \in {"ok", "garbled", "stuck", "silent"} /\ card' = card
      /\ o \in {"ok", "garbled"} => card.state = "tran"
  <2>1. /\ o \in {"ok", "garbled", "stuck", "silent"}
        /\ o \in {"ok", "garbled"} => card.state \in {"tran"}
    BY <1>2, CommandEffect DEF Inv
  <2>2. card' = card
    BY <1>2 DEF Command
  <2> QED
    BY <2>1, <2>2
<1>4. UNCHANGED <<buffer, engineVars, store>>
  BY DEF SetBlockCount
<1>5. \/ o = "ok" /\ GoTo("ask")
      \/ o = "garbled" /\ GoTo("panic")
      \/ o # "ok" /\ Return("stuck")
  BY <1>2, Failing
<1>6. EngineInv /\ call.count \in Nat
  BY <1>1, CallFields DEF Inv, Called, ReadOps
<1>7. CASE call.op \in ReadOps
  <2>1. InRead
    BY <1>1, <1>7 DEF InRead, Called
  <2>2. CASE GoTo("ask") \/ (o = "garbled" /\ GoTo("panic"))
    <3>1. InRead' /\ call' = call /\ pc' \in {"ask", "panic"}
      BY <1>1, <1>7, <2>2 DEF InRead, Called, GoTo
    <3>2. pc' = "panic" => card'.state = "tran"
      BY <1>3, <2>2 DEF GoTo
    <3>3. \A k \in Nat : Coming(k) => Coming(k)'
      BY <1>3, <1>4, <3>1 DEF Coming, Incoming, InRange, BlockAt, engineVars
    <3> QED
      BY <1>1, <1>4, <1>6, <2>1, <3>1, <3>2, <3>3, ReadGoesOn
  <2>3. CASE o # "ok" /\ Return("stuck")
    <3>1. ~InRead' /\ ~InWrite'
      BY <2>3 DEF Return, End, InRead, InWrite, Called
    <3>2. leftover'
      BY <1>7, <2>3 DEF Return
    <3> QED
      BY <1>4, <1>6, <2>1, <3>1, <3>2, EndsLoose
  <2> QED
    BY <1>5, <2>2, <2>3
<1>8. CASE call.op = "write"
  <2>1. InWrite
    BY <1>1, <1>8 DEF InWrite, Called
  <2>2. Quiet /\ dma \in Nat
    BY <1>1, <1>6, <2>1 DEF EngineInv, WriteInv
  <2>3. CASE GoTo("ask")
    <3>1. InWrite' /\ ~InRead' /\ pc' = "ask"
      BY <1>1, <1>8, <2>3 DEF InRead, InWrite, Called, GoTo, ReadOps
    <3>2. WriteInv' /\ queue' \in Seq(Word)
      BY <1>4, <1>6, <2>2, <3>1 DEF WriteInv, Quiet, engineVars, EngineInv
    <3> QED
      BY <3>1, <3>2 DEF EngineInv
  <2>4. CASE GoTo("panic") \/ Return("stuck")
    <3>1. ~InRead' /\ ~InWrite'
      BY <1>8, <2>4 DEF GoTo, Return, End, InRead, InWrite, Called, ReadOps
    <3> QED
      BY <1>4, <1>6, <2>2, <3>1, EndsQuiet
  <2> QED
    BY <1>5, <2>3, <2>4
<1> QED
  BY <1>1, <1>7, <1>8 DEF Called

\* The command that starts a read.
LEMMA ReadAsked ==
  ASSUME Inv, AskRead
  PROVE  EngineInv'
<1>1. Called(ReadOps) /\ pc = "ask" /\ call \in Calls /\ call # NoCall
  BY CallOfStep DEF Inv, AskRead, Called
<1>2. EngineInv /\ call.count \in Nat /\ InRead
  BY <1>1, CallFields DEF Inv, Called, ReadOps, InRead
<1>3. UNCHANGED <<buffer, engineVars, store>>
  BY DEF AskRead
<1>4. PICK o \in Outcomes({"tran"}, TRUE) :
        /\ Command(o, IF ~InRange THEN card ELSE [Resting("data") EXCEPT !.out = AskedBlocks])
        /\ \/ Fail(o)
           \/ o = "ok" /\ ~InRange /\ Return("range")
           \/ o = "ok" /\ InRange /\ GoTo("poll")
  BY DEF AskRead, AskedBlocks
<1>5. /\ o \in {"ok", "garbled"} => card.state \in {"tran"}
      /\ o \in {"ok", "garbled"} =>
           card' = IF ~InRange THEN card ELSE [Resting("data") EXCEPT !.out = AskedBlocks]
  BY <1>4, CommandEffect DEF Inv
<1>6. CASE Return("stuck") \/ Return("range")
  <2>1. ~InRead' /\ ~InWrite'
    BY <1>6 DEF Return, End, InRead, InWrite, Called
  <2>2. leftover'
    BY <1>1, <1>6 DEF Return, Called
  <2> QED
    BY <1>2, <1>3, <2>1, <2>2, EndsLoose
<1>7. CASE o \in {"ok", "garbled"} /\ (GoTo("poll") \/ GoTo("panic"))
  <2>1. InRead' /\ call' = call /\ pc' \in Polls \cup {"panic"}
    BY <1>1, <1>7 DEF GoTo, InRead, Called
  <2>2. CASE ~InRange
    <3>1. card' = card /\ card.state = "tran"
      BY <1>5, <1>7, <2>2
    <3>2. \A k \in Nat : Coming(k)'
      BY <3>1 DEF Coming
    <3> QED
      BY <1>2, <1>3, <2>1, <3>1, <3>2, ReadGoesOn
  <2>3. CASE InRange
    <3>1. card' = [Resting("data") EXCEPT !.out = AskedBlocks]
      BY <1>5, <1>7, <2>3
    <3>2. /\ AskedBlocks \in Seq(Values \cup {ExtCsd}) /\ Len(AskedBlocks) = call.count
          /\ call.count \in Nat \ {0}
          /\ \A i \in 1 .. Len(AskedBlocks) : AskedBlocks[i] = BlockAt(i - 1)
      BY <1>1, <2>3, BlocksAsked
    <3>3. card'.state = "data" /\ card'.out = AskedBlocks
      BY <3>1, <3>2, AskedCard
    <3>4. InRange' /\ \A j : BlockAt(j)' = BlockAt(j)
      BY <1>3, <2>1, <2>3 DEF InRange, BlockAt
    <3>5. Len(card'.out) = call.count /\ \A i \in 1 .. call.count : card'.out[i] = BlockAt(i - 1)
      BY <3>2, <3>3
    <3>6. \A i \in 1 .. call.count : call.count - call.count + i - 1 = i - 1
      BY <3>2
    <3>7. ASSUME NEW k \in Nat, k = call.count - 1, datSm = "receive" PROVE Coming(k)'
      <4>1. Incoming(k)' = call.count
        BY <1>3, <3>2, <3>7 DEF Incoming, engineVars
      <4> QED
        BY <2>1, <3>4, <3>5, <3>6, <4>1 DEF Coming
    <3> QED
      BY <1>1, <1>2, <1>3, <2>1, <3>3, <3>7, ReadGoesOn
  <2> QED
    BY <2>2, <2>3
<1> QED
  BY <1>4, <1>6, <1>7, Failing

\* The one that starts a write.
LEMMA WriteAsked ==
  ASSUME Inv, AskWrite
  PROVE  EngineInv'
<1>1. /\ Called({"write"}) /\ call.lba \in Nat /\ call.count \in Nat \ {0}
      /\ \/ /\ (Return("stuck") \/ GoTo("panic")) /\ UNCHANGED engineVars
         \/ /\ GoTo("poll") /\ WriteBegun
            /\ ~InRange => card' = card /\ card.state = "tran"
            /\ InRange => card' = ReceivingCard(call.lba, call.count)
  BY Told
<1>2. pc = "ask" /\ UNCHANGED store
  BY DEF AskWrite
<1>3. EngineInv /\ InWrite /\ Quiet /\ dma \in Nat
  BY <1>1, <1>2 DEF Inv, InWrite, EngineInv, WriteInv
<1>4. CASE (Return("stuck") \/ GoTo("panic")) /\ UNCHANGED engineVars
  <2>1. ~InRead' /\ ~InWrite'
    BY <1>1, <1>4 DEF GoTo, Return, End, InRead, InWrite, Called, ReadOps
  <2> QED
    BY <1>3, <1>4, <2>1, EndsQuiet
<1>5. CASE /\ GoTo("poll") /\ WriteBegun
           /\ ~InRange => card' = card /\ card.state = "tran"
           /\ InRange => card' = ReceivingCard(call.lba, call.count)
  <2>1. InWrite' /\ pc' = "poll" /\ call' = call /\ (InRange' <=> InRange)
    BY <1>1, <1>5 DEF GoTo, InWrite, Called, InRange
  <2>2. BlockLength \in Nat /\ BlockLength > 3 /\ BlockLength = BlockWords + 3 /\ BlockWords \in Nat
    BY CardAssumption DEF BlockLength
  <2>3. queue' \in Seq(Word) /\ EndOfWrite(queue', call.count, 0, 1)
    <3> DEFINE words == WriteWords(call.count)
    <3>1. words \in Seq(Word) /\ Len(words) = call.count * BlockLength + 1
      BY <1>1, WriteWordAt
    <3>2. call.count * BlockLength \in Nat
      BY <1>1, <2>2
    <3>3. (call.count - 0) * BlockLength - 0 + 1 = call.count * BlockLength + 1
      BY <1>1, <2>2, <3>2
    <3>4. \A i \in 1 .. Len(words) : 0 * BlockLength + 0 + i = i
      BY <2>2
    <3>5. EndOfWrite(words, call.count, 0, 0)
      BY <3>1, <3>3, <3>4 DEF EndOfWrite
    <3> HIDE DEF words
    <3>6. 0 \in 0 .. call.count /\ 0 \in 0 .. BlockLength - 1 /\ 0 < call.count /\ 0 + 1 < BlockLength
      BY <1>1, <2>2
    <3>7. Tail(words) \in Seq(Word) /\ EndOfWrite(Tail(words), call.count, 0, 0 + 1)
      BY <1>1, <3>1, <3>5, <3>6, NextOfWrite
    <3>8. queue' = Tail(words)
      BY <1>5 DEF WriteBegun, words
    <3> QED
      BY <3>7, <3>8
  <2>4. datSm' = "send" /\ left' = BlockLength - 1 /\ dma' = 0
    BY <1>5, <2>2 DEF WriteBegun
  <2>5. Line(0, 1)'
    BY <1>1, <2>1, <2>3, <2>4 DEF Line
  <2>6. card'.word = 0
    <3>1. card.word = 0
      BY <1>2, CalmOutside DEF Inv
    <3> QED
      BY <1>1, <1>5, <3>1, ToldCard
  <2>7. 0 \in 0 .. call'.count /\ 1 \in 0 .. BlockLength - 1
    BY <1>1, <2>1, <2>2
  <2>8. Follows(0, 1)'
    <3>1. CASE InRange
      <4>1. card'.state = "rcv" /\ card'.at = call.lba /\ card'.left = call.count
        BY <1>1, <1>5, <3>1, ToldCard
      <4>2. TakenSoFar(0, 1)'
        BY <1>1, <2>1, <2>6, <4>1 DEF TakenSoFar, Stored
      <4> QED
        BY <1>1, <2>1, <2>6, <4>1, <4>2 DEF Follows
    <3>2. CASE ~InRange
      BY <1>5, <2>1, <2>6, <3>2 DEF Follows
    <3> QED
      BY <3>1, <3>2
  <2> QED
    BY <2>1, <2>3, <2>5, <2>7, <2>8, SendingInv DEF Sending
<1> QED
  BY <1>1, <1>4, <1>5

\* A look at one of the things that tell whether the transfer is over.
LEMMA Polled ==
  ASSUME Inv, PollRead \/ PollWrite
  PROVE  EngineInv'
<1>0. EngineInv /\ UNCHANGED <<engineVars, card, store, buffer, healthy>>
  BY DEF Inv, PollRead, PollWrite, cardVars
<1>1. CASE PollRead
  <2>1. InRead /\ call.count \in Nat
    BY <1>1, CallOfStep, CallFields DEF Inv, PollRead, InRead, Called, ReadOps
  <2>2. CASE pc = "fifo" /\ queue = <<>>
    <3>1. Quiet /\ dma \in Nat
      BY <1>1, <2>2, ReadOver
    <3>2. ~InRead' /\ ~InWrite'
      BY <1>1, <2>2 DEF PollRead, Return, End, InRead, InWrite, Called
    <3> QED
      BY <1>0, <3>1, <3>2, EndsQuiet
  <2>3. CASE ~(pc = "fifo" /\ queue = <<>>)
    <3>1. call' = call /\ pc' \in Polls /\ InRead' /\ pc \notin {"count", "ask"}
      BY <1>1, <2>1, <2>3 DEF PollRead, LookAt, GoTo, InRead, Called
    <3>2. card'.state \in {"data", "tran", "idle"}
      BY <1>0, <1>1, <2>1 DEF EngineInv, ReadInv, Reading, PollRead
    <3>3. \A k \in Nat : Coming(k) => Coming(k)'
      BY <1>0, <3>1 DEF Coming, Incoming, InRange, BlockAt, engineVars
    <3> QED
      BY <1>0, <2>1, <3>1, <3>2, <3>3, ReadGoesOn
  <2> QED
    BY <2>2, <2>3
<1>2. CASE PollWrite
  <2>1. InWrite /\ pc \in Polls
    BY <1>2, CallOfStep DEF Inv, PollWrite, InWrite, Called
  <2>2. call' = call /\ pc' \in Polls /\ InWrite'
    BY <1>2, <2>1 DEF PollWrite, LookAt, GoTo, InWrite, Called
  <2>3. pc' = "status" => Sent
    <3>1. pc' = "status" => datSm = "waiting"
      BY <1>2 DEF PollWrite, LookAt, GoTo
    <3> QED
      BY <2>1, <3>1, WriteOver
  <2>4. \A b \in 0 .. call.count, k \in 0 .. BlockLength - 1 : TakenSoFar(b, k) => TakenSoFar(b, k)'
    BY <1>0, <2>2 DEF TakenSoFar, AllTaken, Stored
  <2> QED
    BY <1>0, <2>1, <2>2, <2>3, <2>4, WriteGoesOn
<1> QED
  BY <1>1, <1>2

\* The command that asks the card whether it still programs.
LEMMA StatusAsked ==
  ASSUME Inv, AskStatus
  PROVE  EngineInv'
<1>0. EngineInv /\ UNCHANGED <<engineVars, store>>
  BY DEF Inv, AskStatus
<1>1. InWrite /\ pc \in Polls
  BY StatusAfterAll DEF AskStatus
<1>2. Sent /\ Quiet /\ dma = 0
  BY StatusAfterAll DEF Sent
<1>3. PICK o \in Outcomes({"stby", "tran", "data", "rcv", "prg"}, TRUE) :
        /\ Command(o, card)
        /\ GoTo("panic") \/ GoTo("poll") \/ Return("ok")
  BY DEF AskStatus
<1>4. card' = card /\ (healthy' => healthy)
  <2>1. card' = card /\ healthy' = (healthy /\ o = "ok")
    BY <1>3 DEF Command
  <2>2. healthy' => healthy
    BY <2>1
  <2> QED
    BY <2>1, <2>2
<1>5. CASE GoTo("poll")
  <2>1. InWrite' /\ pc' = "poll" /\ call' = call
    BY <1>1, <1>5 DEF GoTo, InWrite, Called
  <2>2. \A b \in 0 .. call.count, k \in 0 .. BlockLength - 1 : TakenSoFar(b, k) => TakenSoFar(b, k)'
    BY <1>0, <1>4, <2>1 DEF TakenSoFar, AllTaken, Stored
  <2> QED
    BY <1>0, <1>1, <1>4, <2>1, <2>2, WriteGoesOn
<1>6. CASE GoTo("panic") \/ Return("ok")
  <2>1. ~InRead' /\ ~InWrite'
    BY <1>1, <1>6 DEF GoTo, Return, End, InRead, InWrite, Called, ReadOps
  <2>2. dma \in Nat
    BY <1>2
  <2> QED
    BY <1>0, <1>2, <2>1, <2>2, EndsQuiet
<1> QED
  BY <1>3, <1>5, <1>6
-----------------------------------------------------------------------------
(* The steps of the card *)

LEMMA CardMoves ==
  ASSUME Inv, Ready \/ Program \/ Leave \/ Arrive \/ UNCHANGED vars
  PROVE  EngineInv'
<1>0. EngineInv /\ card \in CardType
  BY DEF Inv, CardInv
<1>1. UNCHANGED <<call, pc, buffer, engineVars, cmdSm, leftover>>
  BY DEF Ready, Program, Leave, Arrive, vars, driverVars, history
<1>2. (InRead' <=> InRead) /\ (InWrite' <=> InWrite) /\ (InRange' <=> InRange)
  BY <1>1 DEF InRead, InWrite, Called, InRange
<1>3. healthy' => healthy
  BY DEF Ready, Program, Leave, Arrive, vars, history
<1>4. CASE ~InRead /\ ~InWrite
  BY <1>0, <1>1, <1>2, <1>4, OutsideKept
<1>5. CASE Ready \/ Arrive \/ UNCHANGED vars
  <2>1. /\ card'.state = card.state /\ card'.out = card.out /\ card'.word = card.word
        /\ card'.at = card.at /\ card'.left = card.left /\ store' = store
    BY <1>0, <1>5 DEF Ready, Arrive, vars, cardVars, CardType
  <2>2. CASE InRead
    <3>1. PICK k \in 0 .. call.count, r \in 0 .. 2 : Reading(k, r)
      BY <1>0, <2>2 DEF EngineInv, ReadInv
    <3>2. pc' \in Polls \cup {"panic"} => card'.state \in {"data", "tran", "idle"}
      BY <1>1, <2>1, <3>1 DEF Reading
    <3>3. \A l \in Nat : Coming(l) => Coming(l)'
      BY <1>1, <1>2, <2>1 DEF Coming, Incoming, BlockAt, engineVars
    <3> QED
      BY <1>0, <1>1, <1>2, <2>1, <2>2, <3>2, <3>3, ReadGoesOn
  <2>3. CASE InWrite
    <3>1. \A b \in 0 .. call.count, k \in 0 .. BlockLength - 1 : TakenSoFar(b, k) => TakenSoFar(b, k)'
      BY <1>1, <2>1 DEF TakenSoFar, AllTaken, Stored
    <3> QED
      BY <1>1, <1>2, <1>3, <2>1, <2>3, <3>1, WriteGoesOn
  <2> QED
    BY <1>4, <2>2, <2>3
<1>6. CASE Leave
  <2>1. card' = PoweringUp /\ card'.state = "idle" /\ card'.word = 0 /\ store' = store /\ ~healthy'
    BY <1>6, PoweringCard DEF Leave
  <2>2. CASE InRead
    <3>1. \A l \in Nat : Coming(l)'
      BY <2>1 DEF Coming
    <3> QED
      BY <1>0, <1>1, <1>2, <2>1, <2>2, <3>1, ReadGoesOn
  <2>3. CASE InWrite
    BY <1>1, <1>2, <2>1, <2>3, WriteGoesOn
  <2> QED
    BY <1>4, <2>2, <2>3
<1>7. CASE Program
  <2>1. /\ card.state = "prg" /\ store' = [store EXCEPT ![card.at] = Head(card.out)]
        /\ card' = Resting("tran")
    BY <1>7 DEF Program
  <2>2. card'.state = "tran" /\ card'.word = 0
    BY <2>1 DEF Resting
  <2>3. CASE InRead
    <3>1. PICK k \in 0 .. call.count, r \in 0 .. 2 : Reading(k, r)
      BY <1>0, <2>3 DEF EngineInv, ReadInv
    <3>2. pc \in {"count", "ask"}
      BY <2>1, <2>3, <3>1 DEF Reading, InRead
    <3>3. \A l \in Nat : Coming(l)'
      BY <2>2 DEF Coming
    <3> QED
      BY <1>0, <1>1, <1>2, <2>2, <2>3, <3>2, <3>3, ReadGoesOn
  <2>4. CASE InWrite
    <3>1. /\ call \in Calls /\ call.op = "write"
      BY <2>4 DEF Inv, DriverInv, InWrite, Called
    <3>2. /\ call.lba \in Nat /\ call.count \in Nat \ {0}
      BY <3>1, CallFields
    <3>3. store \in [CardBlock -> Values] /\ CardBlocks \in Nat
      BY CardAssumption DEF Inv, DriverInv
    <3>4. ASSUME NEW b \in 0 .. call.count, NEW k \in 0 .. BlockLength - 1, InRange, TakenSoFar(b, k)
          PROVE  TakenSoFar(b, k)'
      <4>1. /\ b = call.count /\ card.out = <<call.data[call.count]>>
            /\ card.at = call.lba + call.count - 1 /\ Stored(call.count - 1)
        BY <2>1, <3>4 DEF TakenSoFar, AllTaken
      <4>2. store' = [store EXCEPT ![card.at] = call.data[call.count]]
        BY <2>1, <4>1
      <4>3. ASSUME NEW i \in 1 .. call.count PROVE store'[call.lba + i - 1] = call.data[i]
        <5>1. call.lba + i - 1 \in CardBlock
          BY <3>1, <3>2, <3>3, <3>4 DEF InRange, CardBlock
        <5>2. CASE i = call.count
          BY <3>3, <4>1, <4>2, <5>1, <5>2
        <5>3. CASE i # call.count
          <6>1. i \in 1 .. call.count - 1 /\ call.lba + i - 1 # card.at
            BY <3>2, <4>1, <5>3
          <6> QED
            BY <3>3, <4>1, <4>2, <5>1, <6>1 DEF Stored
        <5> QED
          BY <5>2, <5>3
      <4>4. Stored(call.count)'
        BY <1>1, <4>3 DEF Stored
      <4> QED
        BY <1>1, <2>2, <4>1, <4>4 DEF TakenSoFar, AllTaken
    <3> QED
      BY <1>1, <1>2, <1>3, <2>2, <2>4, <3>4, WriteGoesOn
  <2> QED
    BY <1>4, <2>3, <2>4
<1> QED
  BY <1>5, <1>6, <1>7

\* The steps of sd_init after its reset.
LEMMA Initialises ==
  ASSUME Inv, SendOpCond \/ SendIdentify
  PROVE  EngineInv'
<1>0. EngineInv /\ DriverInv
  BY DEF Inv
<1>1. pc \in {"ocr", "cid", "rca", "csd", "select"}
  BY IdentifySteps DEF SendOpCond, SendIdentify
<1>2. Called({"init"}) /\ call # NoCall
  BY <1>0, <1>1, CallOfStep
<1>3. UNCHANGED engineVars
  BY DEF SendOpCond, SendIdentify
<1>4. call' = call /\ leftover' = leftover
  <2>1. SendOpCond => \E step : GoTo(step)
    BY Zenon DEF SendOpCond
  <2>2. SendIdentify => \E step : GoTo(step)
    BY Zenon DEF SendIdentify
  <2> QED
    BY <2>1, <2>2 DEF GoTo
<1>5. cmdSm = "unset" => cmdSm' = "unset"
  <2>1. \A states, checked : \A o \in Outcomes(states, checked) : o = "silent" => cmdSm = "waiting"
    BY DEF Outcomes
  <2> QED
    BY <2>1 DEF SendOpCond, SendIdentify, Command
<1>6. ~InRead /\ ~InWrite /\ ~InRead' /\ ~InWrite'
  BY <1>2, <1>4 DEF InRead, InWrite, Called, ReadOps
<1> QED
  BY <1>0, <1>1, <1>3, <1>4, <1>5, <1>6, OutsideKept

\* sd_wait sends the state machine to wait for the line, unless it is at a read left over.
LEMMA WaitBegins ==
  ASSUME Inv, SdWait
  PROVE  EngineInv'
<1>0. EngineInv /\ Called({"init"}) /\ pc = "wait"
  BY CallOfStep DEF Inv, SdWait
<1>1. ~InRead /\ ~InWrite
  BY <1>0, InitCall
<1>2. UNCHANGED <<left, dma>>
  BY DEF SdWait
<1>3. CASE GoTo("waited") /\ datSm = "waiting" /\ datSm' = "line" /\ queue' = <<"go">>
  <2>1. Loose
    BY <1>0, <1>1, <1>3 DEF EngineInv, Unset
  <2>2. left = 0 /\ dma \in Nat
    BY <1>3, <2>1 DEF Loose, ReadTail
  <2>3. Len(queue') = 1 /\ queue'[1] = "go" /\ queue' \in Seq(Word)
    BY <1>3 DEF Word
  <2>4. EndOfRead(queue', 0, 1)
    BY <2>3 DEF EndOfRead, ReadWord
  <2>5. ReadTail(0, 1)'
    BY <1>2, <1>3, <2>2, <2>4 DEF ReadTail, EndOfRead
  <2>6. Owed(0, 1)' = 0
    BY <1>3, Fetching DEF Owed, WordsToFetch
  <2>7. Loose'
    <3>1. 0 \in 0 .. Len(queue') /\ 1 \in 0 .. 2 /\ dma' \in Nat /\ dma' >= Owed(0, 1)'
      BY <1>2, <2>2, <2>3, <2>6
    <3> QED
      BY <1>3, <2>5, <3>1 DEF Loose
  <2>8. pc' = "waited" /\ ~InRead' /\ ~InWrite'
    BY <1>3 DEF GoTo, InRead, InWrite
  <2> QED
    BY <2>3, <2>7, <2>8 DEF EngineInv
<1>4. CASE Return("ok") /\ datSm = "receive" /\ UNCHANGED <<datSm, queue>>
  <2>1. Loose /\ leftover
    BY <1>0, <1>1, <1>4 DEF EngineInv, Unset, Quiet
  <2>2. leftover' /\ ~InRead' /\ ~InWrite'
    BY <1>4, <2>1 DEF Return, End, InRead, InWrite
  <2>3. UNCHANGED engineVars /\ cmdSm' = cmdSm
    BY <1>2, <1>4 DEF engineVars, SdWait
  <2> QED
    BY <1>0, <1>1, <2>2, <2>3, OutsideKept
<1> QED
  BY <1>3, <1>4 DEF SdWait

\* It ends when the state machine is back, or is given up where it is.
LEMMA WaitEnds ==
  ASSUME Inv, SdWaitEnds
  PROVE  EngineInv'
<1>0. EngineInv /\ Called({"init"}) /\ pc = "waited"
  BY CallOfStep DEF Inv, SdWaitEnds
<1>1. ~InRead /\ ~InWrite /\ ~InRead' /\ ~InWrite'
  BY <1>0, InitCall DEF SdWaitEnds, End, InRead, InWrite
<1>2. UNCHANGED engineVars
  BY DEF SdWaitEnds
<1>3. Loose
  BY <1>0, <1>1 DEF EngineInv, Unset, SdWaitEnds
<1>4. CASE datSm = "line"
  <2>1. leftover' /\ cmdSm' = cmdSm
    BY <1>4 DEF SdWaitEnds
  <2> QED
    BY <1>0, <1>1, <1>2, <2>1, OutsideKept
<1>5. CASE datSm = "waiting" /\ queue = <<>>
  <2>1. Quiet /\ dma \in Nat
    BY <1>3, <1>5 DEF Loose, ReadTail, Quiet
  <2> QED
    BY <1>0, <1>1, <1>2, <2>1, EndsQuiet
<1> QED
  BY <1>4, <1>5 DEF SdWaitEnds

LEMMA LineGoesOn ==
  ASSUME Inv, LineRises
  PROVE  EngineInv'
<1>0. EngineInv /\ datSm = "line" /\ datSm' = "next"
      /\ UNCHANGED <<call, pc, leftover, left, queue, dma>>
  BY DEF Inv, LineRises, driverVars, history
<1>1. ~InRead /\ ~InWrite
  BY <1>0 DEF EngineInv, ReadInv, WriteInv, Quiet, Sent, Sending, Line
<1>2. ~InRead' /\ ~InWrite'
  BY <1>0, <1>1 DEF InRead, InWrite, Called
<1>3. Loose /\ (leftover \/ pc = "waited")
  BY <1>0, <1>1 DEF EngineInv, Unset, Quiet
<1>4. PICK k \in 0 .. Len(queue), r \in 0 .. 2 : ReadTail(k, r) /\ dma >= Owed(k, r)
  BY <1>3 DEF Loose
<1>5. ReadTail(k, r)' /\ Owed(k, r)' = Owed(k, r)
  BY <1>0, <1>4 DEF ReadTail, EndOfRead, Owed, WordsToFetch
<1>6. Loose'
  BY <1>0, <1>3, <1>4, <1>5 DEF Loose
<1> QED
  BY <1>0, <1>2, <1>3, <1>6 DEF EngineInv

LEMMA EngineStep == Inv /\ [Next]_vars => EngineInv'
<1> SUFFICES ASSUME Inv, [Next]_vars PROVE EngineInv'
  OBVIOUS
<1>0. EngineInv /\ DriverInv
  BY DEF Inv
<1>1. ASSUME NEW c \in Calls, Begin(c) PROVE EngineInv'
  <2>1. /\ call = NoCall /\ UNCHANGED <<engineVars, cmdSm, leftover>>
        /\ call' = c
        /\ pc' = IF c.op = "init" THEN "reset"
                 ELSE IF c.op = "write" /\ c.count > MaxWriteBlocks THEN "panic" ELSE "settle"
    BY <1>1 DEF Begin, history
  <2>2. ~InRead /\ ~InWrite /\ ~InRead' /\ ~InWrite'
    BY <2>1 DEF InRead, InWrite, Called, ReadOps
  <2>3. pc # "waited"
    BY <1>0, <2>1 DEF DriverInv
  <2> QED
    BY <1>0, <2>1, <2>2, <2>3, OutsideKept
<1>2. CASE Detect \/ IsdInit
  <2>1. /\ call = NoCall /\ UNCHANGED <<engineVars, cmdSm, leftover, call>>
    BY <1>2 DEF Detect, IsdInit, driverVars
  <2>2. ~InRead /\ ~InWrite /\ ~InRead' /\ ~InWrite'
    BY <2>1 DEF InRead, InWrite, Called
  <2>3. pc # "waited"
    BY <1>0, <2>1 DEF DriverInv
  <2> QED
    BY <1>0, <2>1, <2>2, <2>3, OutsideKept
<1>3. CASE FetchCommand
  <2>1. InRead => call.count \in Nat
    BY <1>0, CallFields DEF DriverInv, InRead, Called, ReadOps
  <2> QED
    BY <1>0, <1>3, <2>1, OutsideFetches, ReadFetches, WriteFetches
<1> QED
  BY <1>1, <1>2, <1>3, ResetLeaves, Initialises, Settles, Counted, ReadAsked, WriteAsked,
     Polled, StatusAsked, WaitBegins, WaitEnds, LineGoesOn, ReadReceives, WriteSends, CardMoves
  DEF Next, Driver
-----------------------------------------------------------------------------
(* The theorems *)

LEMMA InitInv == Init => Inv
<1> SUFFICES ASSUME Init PROVE Inv
  OBVIOUS
<1>1. call = NoCall /\ pc = "idle" /\ card = PoweringUp /\ cmdSm = "unset"
      /\ datSm = "unset" /\ left = 0 /\ queue = <<>> /\ dma = 0
  BY DEF Init
<1>2. ~Called({"init"}) /\ ~Called(ReadOps \cup {"write"}) /\ ~InRead /\ ~InWrite
  BY <1>1 DEF Called, InRead, InWrite
<1>3. /\ rc = "none" /\ buffer = <<>> /\ emmc_detected = FALSE /\ present \in BOOLEAN
      /\ clocked = FALSE /\ faults = 0 /\ healthy = FALSE /\ leftover = FALSE
      /\ store \in [CardBlock -> Values]
  BY DEF Init
<1>4. DriverInv
  <2>1. \A S : <<>> \in Seq(S)
    OBVIOUS
  <2>2. buffer \in Seq([of : Values \cup {ExtCsd}, n : 1 .. BlockWords, good : BOOLEAN])
    BY <1>3, <2>1
  <2>3. faults \in 0 .. MaxFaults
    BY <1>3, CardAssumption
  <2> QED
    BY <1>1, <1>2, <1>3, <2>2, <2>3 DEF DriverInv
<1>5. CardInv
  BY <1>1, PoweringCard DEF CardInv
<1>6. EngineInv
  BY <1>1, <1>2 DEF EngineInv, Unset
<1> QED
  BY <1>4, <1>5, <1>6 DEF Inv

LEMMA InvStep == Inv /\ [Next]_vars => Inv'
  BY DriverStep, CardStep, EngineStep DEF Inv

LEMMA Invariance == Spec => []Inv
  BY InitInv, InvStep, PTL DEF Spec

LEMMA EngineType ==
  ASSUME Inv
  PROVE  /\ datSm \in {"unset", "waiting", "next", "receive", "send", "line"}
         /\ left \in 0 .. BlockWords + 2 /\ (datSm \in {"receive", "send"} => left > 0)
         /\ queue \in Seq(Word) /\ dma \in Nat
<1>1. EngineInv /\ queue \in Seq(Word) /\ BlockWords \in Nat
  BY CardAssumption DEF Inv, EngineInv
<1>2. ASSUME NEW k, NEW r, ReadTail(k, r), datSm \in {"waiting", "next", "receive", "line"}
      PROVE  left \in 0 .. BlockWords + 2 /\ (datSm \in {"receive", "send"} => left > 0)
  BY <1>1, <1>2 DEF ReadTail
<1>3. ASSUME Loose
      PROVE  /\ datSm \in {"unset", "waiting", "next", "receive", "send", "line"} /\ dma \in Nat
             /\ left \in 0 .. BlockWords + 2 /\ (datSm \in {"receive", "send"} => left > 0)
  BY <1>2, <1>3 DEF Loose
<1>4. CASE ~InRead /\ ~InWrite
  <2>1. Unset \/ Loose
    BY <1>1, <1>4 DEF EngineInv
  <2> QED
    BY <1>1, <1>3, <2>1 DEF Unset
<1>5. CASE InRead
  <2>1. call \in Calls
    BY <1>5 DEF Inv, DriverInv, InRead, Called
  <2>2. call.count \in Nat
    BY <1>5, <2>1, CallFields DEF InRead, Called, ReadOps
  <2>3. Loose
    BY <1>1, <1>5, <2>2, ReadingIsLoose DEF EngineInv
  <2> QED
    BY <1>1, <1>3, <2>3
<1>6. CASE InWrite
  <2>1. WriteInv
    BY <1>1, <1>6 DEF EngineInv
  <2>2. CASE Quiet /\ dma \in Nat
    BY <1>1, <2>2 DEF Quiet
  <2>3. CASE Sent
    BY <1>1, <2>3 DEF Sent, Quiet
  <2>4. ASSUME NEW b \in 0 .. call.count, NEW k \in 0 .. BlockLength - 1, Sending(b, k)
        PROVE  /\ datSm \in {"unset", "waiting", "next", "receive", "send", "line"} /\ dma \in Nat
               /\ left \in 0 .. BlockWords + 2 /\ (datSm \in {"receive", "send"} => left > 0)
    <3>1. Line(b, k)
      BY <2>4 DEF Sending
    <3>2. CASE k = 0
      BY <1>1, <3>1, <3>2 DEF Line
    <3>3. CASE k # 0
      <4>1. BlockLength - k \in 1 .. BlockWords + 2
        BY <1>1, <3>3 DEF BlockLength
      <4> QED
        BY <1>1, <3>1, <3>3, <4>1 DEF Line
    <3> QED
      BY <3>2, <3>3
  <2> QED
    BY <1>1, <2>1, <2>2, <2>3, <2>4 DEF WriteInv
<1> QED
  BY <1>4, <1>5, <1>6

\* Every variable keeps its type.  That `dma` stays a natural number says that the state
\* machine never hands DMA more words than the channel was armed for, also when a read is
\* given up and sd_init cuts the commands that were on their way (sdio.c: sd_init,
\* start_read_to_buf): what lands in the caller's buffer never passes its end.
THEOREM TypeCorrect == Spec => []TypeOK
<1>1. Inv => TypeOK
  <2> SUFFICES ASSUME Inv PROVE TypeOK
    OBVIOUS
  <2>1. /\ datSm \in {"unset", "waiting", "next", "receive", "send", "line"}
        /\ left \in 0 .. BlockWords + 2 /\ (datSm \in {"receive", "send"} => left > 0)
        /\ queue \in Seq(Word) /\ dma \in Nat
    BY EngineType
  <2>2. /\ card.state \in CardState /\ card.out \in Seq(Values \cup {ExtCsd})
        /\ card.word \in 0 .. BlockWords + 1 /\ card.at \in Nat /\ card.left \in Nat
        /\ card.busy \in BOOLEAN
    BY CardFields DEF Inv, CardInv
  <2>3. call = NoCall \/ call.op \in {"init", "read", "ext_csd", "write"}
    BY CallFields DEF Inv, DriverInv
  <2>4. pc \in {"idle", "panic", "reset", "ocr", "wait", "waited", "settle", "count", "ask"}
                 \cup {"poll", "commands", "address", "fifo", "status"} \cup DOMAIN Identify
    BY <2>3, IdentifySteps DEF Inv, DriverInv, Called, ReadOps
  <2>5. (call = NoCall) = (pc = "idle")
    BY DEF Inv, DriverInv
  <2>6. /\ rc \in {"none", "ok", "range", "stuck"}
        /\ buffer \in Seq([of : Values \cup {ExtCsd}, n : 1 .. BlockWords, good : BOOLEAN])
        /\ emmc_detected \in BOOLEAN /\ present \in BOOLEAN /\ clocked \in BOOLEAN
        /\ cmdSm \in {"unset", "waiting", "receiving"}
        /\ store \in [CardBlock -> Values]
        /\ faults \in 0 .. MaxFaults /\ healthy \in BOOLEAN /\ leftover \in BOOLEAN
    BY DEF Inv, DriverInv
  <2> QED
    BY Zenon, <2>1, <2>2, <2>3, <2>4, <2>5, <2>6 DEF TypeOK, CardState
<1> QED
  BY <1>1, Invariance, PTL

\* The loop that prints "oops" before a transfer (sdio.c: sd_readblocks_scatter_async,
\* sd_writeblocks_async) is endless only on a driver never initialised, after a read that
\* failed, or after a sd_init that returned SD_OK although its sd_wait had found DAT0 low.
THEOREM OopsAfterFailure == Spec => []OopsOnlyAfterFailure
<1>1. Inv => OopsOnlyAfterFailure
  <2> SUFFICES ASSUME Inv, pc = "settle", datSm # "waiting" PROVE cmdSm = "unset" \/ leftover
    BY DEF OopsOnlyAfterFailure
  <2>1. ~InRead /\ ~InWrite
    BY DEF InRead, InWrite
  <2> QED
    BY <2>1 DEF Inv, EngineInv, Unset, Quiet
<1> QED
  BY <1>1, Invariance, PTL

\* A transfer succeeds in the last step of a poll.
LEMMA SuccessIsPolled ==
  ASSUME Inv, [Next]_vars, Succeeds(ReadOps \cup {"write"})
  PROVE  \/ PollRead /\ pc = "fifo" /\ queue = <<>> /\ call.op \in ReadOps
         \/ AskStatus /\ call.op = "write"
<1>1. call # NoCall /\ call.op \in ReadOps \cup {"write"} /\ call' = NoCall /\ rc' = "ok"
  BY DEF Succeeds
<1>2. call' # call
  BY <1>1
<1>3. \A step : ~GoTo(step)
  BY <1>2 DEF GoTo
<1>4. ~Return("stuck") /\ ~Return("range")
  BY <1>1 DEF Return, End
<1>5. \A o : ~Fail(o)
  BY <1>3, <1>4, Failing
<1>6. ~SendOpCond /\ ~Settle /\ ~SetBlockCount /\ ~AskRead
  BY <1>3, <1>4, <1>5 DEF SendOpCond, Settle, SetBlockCount, AskRead
<1>7. ~AskWrite
  BY <1>3, <1>5 DEF AskWrite
<1>8. ~SendIdentify /\ ~SdWait /\ ~SdWaitEnds
  <2>1. SendIdentify => pc \in {"cid", "rca", "csd", "select"}
    BY IdentifySteps DEF SendIdentify
  <2>2. SdWait \/ SdWaitEnds => pc \in {"wait", "waited"}
    BY DEF SdWait, SdWaitEnds
  <2>3. ~Called({"init"})
    BY <1>1 DEF Called, ReadOps
  <2> QED
    BY <2>1, <2>2, <2>3, CallOfStep DEF Inv
<1>9. \A c \in Calls : ~Begin(c)
  BY <1>1 DEF Begin
<1>10. ~Reset /\ ~Detect /\ ~IsdInit /\ ~FetchCommand /\ ~LineRises /\ ~ReceiveWord /\ ~SendWord
       /\ ~Ready /\ ~Program /\ ~Leave /\ ~Arrive /\ ~UNCHANGED vars
  BY <1>1, <1>2 DEF Reset, Detect, IsdInit, FetchCommand, LineRises, ReceiveWord, SendWord, Ready,
                    Program, Leave, Arrive, vars, driverVars
<1>11. ~PollWrite /\ (PollRead => pc = "fifo" /\ queue = <<>> /\ call.op \in ReadOps)
  BY <1>3 DEF PollRead, PollWrite, LookAt
<1>12. AskStatus => call.op = "write"
  BY CallOfStep DEF AskStatus, Called, Inv
<1> QED
  BY <1>6, <1>7, <1>8, <1>9, <1>10, <1>11, <1>12 DEF Next, Driver

\* A read or a sd_read_ext_csd that returns SD_OK has delivered every word of every block
\* it asked for, in order; only words garbled on the line may differ, as no CRC is compared
\* (sdio.c: sd_readblocks_sync, sd_scatter_read_complete).
THEOREM ReadsDeliver == Spec => ReadDeliversBlocks
<1>1. Inv /\ [Next]_vars =>
        [Succeeds(ReadOps) =>
           /\ Len(buffer) = call.count * BlockWords
           /\ \A n \in 1 .. Len(buffer) :
                [of |-> buffer[n].of, n |-> buffer[n].n] = Expected(call, n)]_vars
  <2> SUFFICES ASSUME Inv, [Next]_vars, Succeeds(ReadOps)
               PROVE  Len(buffer) = call.count * BlockWords /\ Delivered
    BY DEF Delivered
  <2>1. PollRead /\ pc = "fifo" /\ queue = <<>>
    BY SuccessIsPolled DEF Succeeds, ReadOps
  <2>2. InRead /\ Reading(0, 0) /\ Quiet
    BY <2>1, ReadOver
  <2>3. call \in Calls
    BY <2>2 DEF Inv, DriverInv, InRead, Called
  <2>4. call.count \in Nat /\ BlockWords \in Nat
    BY <2>2, <2>3, CallFields, CardAssumption DEF InRead, Called, ReadOps
  <2>5. Len(buffer) = (call.count - 0) * BlockWords - 0 /\ Delivered
    BY <2>2 DEF Reading, Quiet
  <2>6. (call.count - 0) * BlockWords - 0 = call.count * BlockWords
    BY <2>4
  <2> QED
    BY <2>5, <2>6
<1> QED
  BY <1>1, Invariance, PTL DEF Spec, ReadDeliversBlocks

\* A write that returns SD_OK is programmed, all of it, and the card is back in "tran", if
\* it was in range and the card answered and took everything since sd_init (sdio.c:
\* sd_writeblocks_async, sd_write_complete; nothing looks at the CRC tokens).
THEOREM WritesAreStored == Spec => AcknowledgedWriteIsStored
<1>1. Inv /\ [Next]_vars =>
        [Succeeds({"write"}) /\ InRange /\ healthy' =>
           /\ \A i \in 1 .. call.count : store[call.lba + i - 1] = call.data[i]
           /\ card.state = "tran"]_vars
  <2> SUFFICES ASSUME Inv, [Next]_vars, Succeeds({"write"}), InRange, healthy'
               PROVE  Stored(call.count) /\ card.state = "tran"
    BY DEF Stored
  <2>1. AskStatus
    BY SuccessIsPolled DEF Succeeds, ReadOps
  <2>2. Sent
    BY <2>1, StatusAfterAll
  <2>3. ~GoTo("panic") /\ ~GoTo("poll")
    BY DEF GoTo, Succeeds
  <2>4. PICK o \in Outcomes({"stby", "tran", "data", "rcv", "prg"}, TRUE), garbage \in {"prg", "tran"} :
          Command(o, card) /\ ~Programming(IF o = "ok" THEN card.state ELSE garbage)
    BY <2>1, <2>3 DEF AskStatus
  <2>5. healthy' = (healthy /\ o = "ok")
    BY <2>4 DEF Command
  <2>6. healthy /\ o = "ok"
    BY <2>5
  <2>7. AllTaken
    BY <2>2, <2>6 DEF Sent
  <2>8. card.state # "prg"
    BY <2>4, <2>6 DEF Programming
  <2> QED
    BY <2>7, <2>8 DEF AllTaken
<1> QED
  BY <1>1, Invariance, PTL DEF Spec, AcknowledgedWriteIsStored

\* A transfer that returns SD_OK leaves no channel, FIFO or state machine with work to do,
\* whatever the calls before it left behind (sdio.c: sd_scatter_read_complete,
\* sd_write_complete).
THEOREM NothingLeftArmed == Spec => SuccessLeavesNothingArmed
<1>1. Inv /\ [Next]_vars =>
        [Succeeds(ReadOps \cup {"write"}) => dma = 0 /\ queue = <<>> /\ datSm = "waiting"]_vars
  BY SuccessIsPolled, ReadOver, StatusAfterAll DEF Quiet, Sent
<1> QED
  BY <1>1, Invariance, PTL DEF Spec, SuccessLeavesNothingArmed

\* DMA writes into a caller's buffer only while that call is in progress, although a read
\* that fails leaves its channels armed with the address (sdio.c:
\* sd_readblocks_scatter_async returns the error and stops none of them).
THEOREM BufferStaysCallers == Spec => BufferIsCallers
<1>1. Inv /\ [Next]_vars => [buffer' # buffer => call # NoCall /\ call.op \in ReadOps]_vars
  <2> SUFFICES ASSUME Inv, [Next]_vars, buffer' # buffer PROVE Called(ReadOps)
    BY DEF Called
  <2>1. CASE ReceiveWord
    BY <2>1, Receiving DEF InRead
  <2>2. CASE Settle
    <3>1. call.op \in ReadOps
      BY <2>2 DEF Settle
    <3>2. call # NoCall
      BY <2>2, CallOfStep DEF Settle, Inv
    <3> QED
      BY <3>1, <3>2 DEF Called
  <2>3. ~Reset /\ ~SendOpCond /\ ~SendIdentify /\ ~SetBlockCount /\ ~AskRead /\ ~AskWrite
        /\ ~PollRead /\ ~PollWrite /\ ~AskStatus /\ ~SdWait /\ ~SdWaitEnds
    BY DEF Reset, SendOpCond, SendIdentify, SetBlockCount, AskRead, AskWrite, PollRead, PollWrite,
           AskStatus, SdWait, SdWaitEnds
  <2>4. /\ \A c \in Calls : ~Begin(c)
        /\ ~Detect /\ ~IsdInit /\ ~FetchCommand /\ ~LineRises /\ ~SendWord /\ ~Ready /\ ~Program
        /\ ~Leave /\ ~Arrive /\ ~UNCHANGED vars
    BY DEF Begin, Detect, IsdInit, FetchCommand, LineRises, SendWord, Ready, Program, Leave, Arrive,
           vars, driverVars
  <2> QED
    BY <2>1, <2>2, <2>3, <2>4 DEF Next, Driver
<1> QED
  BY <1>1, Invariance, PTL DEF Spec, BufferIsCallers
=============================================================================
