------------------------------- MODULE Sdio -------------------------------
(***************************************************************************)
(* PicoFlasher/sdio.c and sdio.pio: the eMMC driver as main.c uses it, one   *)
(* synchronous call at a time, against the data state machine of PIO1, the   *)
(* DMA channels that feed and drain it, and the card.                        *)
(*                                                                         *)
(* `pc` is the driver's next step: one sd_command, or the arming or the      *)
(* polling of a transfer.  A command goes out and is answered, or is not, in *)
(* one step; a transfer moves word by word beside the driver, and the card   *)
(* programs what it was sent at a time of its own.                           *)
(*                                                                         *)
(* DMA moves a word as soon as it may, long before the state machine has     *)
(* shifted the next one.  So the transmit FIFO and the words a channel still *)
(* holds for it are one sequence, `queue`, whose first TxDepth are in the    *)
(* FIFO; a channel that feeds it is busy while the queue is longer.          *)
(***************************************************************************)
EXTENDS Integers, Sequences

CONSTANTS
  CardBlocks,      \* the card has blocks 0 .. CardBlocks - 1
  Values,          \* what a block may hold
  ExtCsd,          \* what the extended CSD register holds
  Lbas,            \* block numbers callers pass
  Counts,          \* block counts callers pass
  MaxWriteBlocks,  \* (SDIO_MAX_BLOCK_COUNT - 1) / 4
  BlockWords,      \* words in a block: 128
  TxDepth,         \* words in a transmit FIFO: 4
  MaxFaults,       \* bound: responses garbled, words garbled, blocks refused, cards removed
  NoCall           \* no call is in progress

ASSUME CardAssumption ==
  /\ CardBlocks \in Nat \ {0}
  /\ ExtCsd \notin Values
  /\ Lbas \subseteq Nat
  /\ Counts \subseteq Nat \ {0}
  /\ MaxWriteBlocks \in Nat
  /\ BlockWords \in Nat \ {0} /\ TxDepth \in Nat
  /\ 0 < TxDepth /\ TxDepth < BlockWords + 3
  /\ MaxFaults \in Nat

VARIABLES
  \* the driver
  call,      \* the call in progress, or NoCall
  pc,        \* its next step, "idle", or "panic"
  rc,        \* what the last call returned: "ok", "range", "stuck", or "none"
  buffer,    \* the words the last read delivered into the caller's buffer
  emmc_detected,
  \* PIO1 and DMA
  cmdSm,     \* the command state machine: "unset", "waiting", "receiving"
  datSm,     \* the data state machine: "unset", "waiting", "next", "receive", "send", "line"
  left,      \* words it has still to shift in or out for the present block
  queue,     \* words on their way to it
  dma,       \* words the data channel has still to fetch from it
  \* the card
  card,      \* its state machine (CURRENT_STATE) and its place in a transfer
  store,     \* what its blocks hold
  present,   \* it is there and powered
  clocked,   \* the clock pin is driven by PIO1
  \* history
  faults,    \* how many faults there have been
  healthy,   \* since the last sd_init the card took and answered everything
  leftover   \* a read, a sd_read_ext_csd or a sd_wait gave up on the data state machine,
             \* and no sd_init has cleared what it left

driverVars == <<call, pc, rc, buffer, emmc_detected>>
engineVars == <<datSm, left, queue, dma>>
cardVars == <<card, store, present, clocked>>
history == <<faults, healthy, leftover>>
vars == <<driverVars, cmdSm, engineVars, cardVars, history>>

CardBlock == 0 .. CardBlocks - 1
ReadOps == {"read", "ext_csd"}

Calls ==
  [op : {"init"}]
    \cup [op : {"read"}, lba : Lbas, count : Counts]
    \cup [op : {"ext_csd"}, lba : {0}, count : {1}]
    \cup UNION {[op : {"write"}, lba : Lbas, count : {n}, data : [1 .. n -> Values]] : n \in Counts}

ASSUME NoCallAssumption == NoCall \notin Calls

\* A card at rest in a state of its state machine.
Resting(state) == [state |-> state, out |-> <<>>, word |-> 0, at |-> 0, left |-> 0,
                   busy |-> FALSE]

PoweringUp == [Resting("idle") EXCEPT !.busy = TRUE]

Repeat(words, n) == [i \in 1 .. n * Len(words) |-> words[((i - 1) % Len(words)) + 1]]

\* Seeded fault: the state machine is not sent back to where it waits for commands.
ReadCommandsStay(n) == Repeat(<<"recv", "pad">>, n)

\* pio_cmd_buf of a read: receive a block, pad its CRC to a word, wait for a command.
ReadCommands(n) == Repeat(<<"recv", "pad", "go">>, n)

\* What the control blocks of a write send: a send command, the start bit, the
\* data and the CRC for each block, and at last the way back to waiting.
BlockLength == BlockWords + 3
WordOfBlock(k) ==
  IF k = 1 THEN "send" ELSE IF k = 2 THEN "start" ELSE IF k < BlockLength THEN "data" ELSE "crc"

WriteWords(n) == Append(Repeat([k \in 1 .. BlockLength |-> WordOfBlock(k)], n), "go")

\* Seeded fault: no control block for the CRC.
WordsToFetchData(n) == n * BlockWords

\* The control words of a read: the data of a block and its CRC.
WordsToFetch(n) == n * (BlockWords + 1)

Init ==
  /\ call = NoCall /\ pc = "idle" /\ rc = "none" /\ buffer = <<>>
  /\ emmc_detected = FALSE
  /\ cmdSm = "unset" /\ datSm = "unset" /\ left = 0 /\ queue = <<>> /\ dma = 0
  /\ card = PoweringUp
  /\ store \in [CardBlock -> Values]
  /\ present \in BOOLEAN
  /\ clocked = FALSE
  /\ faults = 0 /\ healthy = FALSE /\ leftover = FALSE
-----------------------------------------------------------------------------
(* sd_command *)

Reachable == present /\ clocked

\* How a command that is legal in `states` may go.  "stuck": the command state
\* machine still waits for an earlier response (acquiesce_sm).  "silent": nobody
\* answers and the wait for the response gives up.  "garbled": a response that is
\* checked, for its CRC or (of SEND_OP_COND) for its fixed bits, is wrong.
Outcomes(states, checked) ==
  IF cmdSm # "waiting" THEN {"stuck"}
  ELSE IF ~(Reachable /\ card.state \in states) THEN {"silent"}
  ELSE {"ok"} \cup IF checked /\ faults < MaxFaults THEN {"garbled"} ELSE {}

\* What it does to the card, which goes to `to` if it obeys, and to the state
\* machine, which stays behind in its receive loop if no response comes.
Command(o, to) ==
  /\ card' = IF o \in {"ok", "garbled"} THEN to ELSE card
  /\ cmdSm' = IF o = "silent" THEN "receiving" ELSE cmdSm
  /\ faults' = IF o = "garbled" THEN faults + 1 ELSE faults
  /\ healthy' = (healthy /\ o = "ok")

End(result) == pc' = "idle" /\ call' = NoCall /\ rc' = result

Return(result) ==
  /\ End(result)
  /\ leftover' = (leftover \/ (call.op \in ReadOps /\ result # "ok"))

\* A step after which the call goes on, or the firmware has panicked.
GoTo(step) == pc' = step /\ UNCHANGED <<call, rc, leftover>>

\* A command that failed: an error to the caller, or panic("bad crc ...").
Fail(o) ==
  \/ o \in {"stuck", "silent"} /\ Return("stuck")
  \/ o = "garbled" /\ GoTo("panic")
-----------------------------------------------------------------------------
(* main.c calls the driver *)

Begin(c) ==
  /\ call = NoCall
  /\ call' = c
  /\ pc' = IF c.op = "init" THEN "reset"
           ELSE IF c.op = "write" /\ c.count > MaxWriteBlocks THEN "panic"
           ELSE "settle"
  /\ UNCHANGED <<rc, buffer, emmc_detected, cmdSm, engineVars, cardVars, history>>

\* EMMC_DETECT, until it has found the line high once, turns the clock pin into an
\* input, also under an initialised card.
Detect ==
  /\ call = NoCall /\ ~emmc_detected
  /\ emmc_detected' \in BOOLEAN
  /\ clocked' = FALSE
  /\ healthy' = FALSE
  /\ UNCHANGED <<call, pc, rc, buffer, cmdSm, engineVars, card, store, present, faults,
                 leftover>>

\* ISD1200_INIT sets up state machine 0, which drives the clock, for the voice chip
\* (Isd1200); the next EMMC_INIT takes it back.
IsdInit ==
  /\ call = NoCall
  /\ clocked' = FALSE
  /\ healthy' = FALSE
  /\ UNCHANGED <<driverVars, cmdSm, engineVars, card, store, present, faults, leftover>>
-----------------------------------------------------------------------------
(* sd_init, which ignores what sd_command returns *)

\* The words the command channel still holds while the state machine is in a receive
\* loop: its FIFO is full, and one word more is in its shift register.
Held == SubSeq(queue, TxDepth + 2, Len(queue))

\* Pins, state machines, the reset pulse and GO_IDLE_STATE.  No channel is stopped:
\* what the command channel holds goes into the FIFO that was just emptied.
Reset ==
  /\ pc = "reset"
  /\ cmdSm' = "waiting"
  /\ datSm' = "waiting" /\ left' = 0 /\ queue' = Held
  /\ clocked' = TRUE
  /\ card' = PoweringUp
  /\ healthy' = present /\ leftover' = (Held # <<>>)
  /\ pc' = "ocr"
  /\ UNCHANGED <<call, rc, buffer, emmc_detected, dma, store, present, faults>>

\* SEND_OP_COND is repeated until the response says that the card is ready; after an
\* error it is whatever the stack or the line held.
SendOpCond ==
  /\ pc = "ocr"
  /\ \E o \in Outcomes({"idle"}, TRUE), garbage \in BOOLEAN :
       /\ Command(o, IF card.busy THEN card ELSE Resting("ready"))
       /\ GoTo(IF (IF o = "ok" THEN ~card.busy ELSE garbage) THEN "cid" ELSE "ocr")
  /\ UNCHANGED <<buffer, emmc_detected, engineVars, store, present, clocked>>

\* ALL_SEND_CID, SET_RELATIVE_ADDR, SEND_CSD, SELECT_CARD.
Identify ==
  [cid    |-> [from |-> "ready", to |-> "ident", checked |-> FALSE, then |-> "rca"],
   rca    |-> [from |-> "ident", to |-> "stby",  checked |-> TRUE,  then |-> "csd"],
   csd    |-> [from |-> "stby",  to |-> "stby",  checked |-> FALSE, then |-> "select"],
   select |-> [from |-> "stby",  to |-> "tran",  checked |-> TRUE,  then |-> "wait"]]

SendIdentify ==
  /\ pc \in DOMAIN Identify
  /\ LET step == Identify[pc] IN
     \E o \in Outcomes({step.from}, step.checked) :
       /\ Command(o, Resting(step.to))
       /\ GoTo(IF o = "garbled" THEN "panic" ELSE step.then)
  /\ UNCHANGED <<buffer, emmc_detected, engineVars, store, present, clocked>>

\* sd_wait has the data state machine wait until DAT0 is high, for ever if need be, and
\* then go back to where it waits for commands.  It sends nothing to one that is still
\* at a read an earlier sd_init found; that it has given up, sd_init ignores.
SdWait ==
  /\ pc = "wait"
  /\ \/ /\ datSm = "waiting" /\ queue = <<>>
        /\ datSm' = "line" /\ queue' = <<"go">>
        /\ GoTo("waited")
     \/ /\ datSm = "receive"
        /\ Return("ok")
        /\ UNCHANGED <<datSm, queue>>
  /\ UNCHANGED <<buffer, emmc_detected, cmdSm, left, dma, cardVars, faults, healthy>>

\* The state machine is back, or acquiesce_sm gives up on it.
SdWaitEnds ==
  /\ pc = "waited"
  /\ datSm = "line" \/ (datSm = "waiting" /\ queue = <<>>)
  /\ End("ok")
  /\ leftover' = (leftover \/ datSm = "line")
  /\ UNCHANGED <<buffer, emmc_detected, cmdSm, engineVars, cardVars, faults, healthy>>
-----------------------------------------------------------------------------
(* Reads and writes *)

\* The loop that prints "oops" ends when the data state machine waits for a command.
\* A read arms the channels of data and commands before the card is asked.  The state
\* machine fetches a command within a few clocks: it has done so when the loop looks, if
\* one was left over, and when the command to the card is out, if a read was armed.
Settle ==
  /\ pc = "settle" /\ datSm = "waiting" /\ queue = <<>>
  /\ GoTo(IF call.count = 1 THEN "ask" ELSE "count")
  /\ IF call.op \in ReadOps
     THEN /\ queue' = Tail(ReadCommands(call.count))
          /\ datSm' = "receive" /\ left' = BlockWords + 1
          /\ dma' = WordsToFetch(call.count)
          /\ buffer' = <<>>
     ELSE UNCHANGED <<engineVars, buffer>>
  /\ UNCHANGED <<emmc_detected, cmdSm, cardVars, faults, healthy>>

SetBlockCount ==
  /\ pc = "count"
  /\ \E o \in Outcomes({"tran"}, TRUE) :
       /\ Command(o, card)
       /\ Fail(o) \/ (o = "ok" /\ GoTo("ask"))
  /\ UNCHANGED <<buffer, emmc_detected, engineVars, store, present, clocked>>

InRange == call.op = "ext_csd" \/ call.lba + call.count <= CardBlocks

\* READ_SINGLE_BLOCK, READ_MULTIPLE_BLOCK and SEND_EXT_CSD.
AskRead ==
  /\ pc = "ask" /\ call.op \in ReadOps
  /\ \E o \in Outcomes({"tran"}, TRUE) :
       /\ Command(o, IF ~InRange THEN card
                     ELSE [Resting("data") EXCEPT
                             !.out = IF call.op = "ext_csd" THEN <<ExtCsd>>
                                     ELSE [i \in 1 .. call.count |-> store[call.lba + i - 1]]])
       /\ \/ Fail(o)
          \/ o = "ok" /\ ~InRange /\ Return("range")
          \/ o = "ok" /\ InRange /\ GoTo("poll")
  /\ UNCHANGED <<buffer, emmc_detected, engineVars, store, present, clocked>>

\* WRITE_BLOCK and WRITE_MULTIPLE_BLOCK, whose response nobody reads; then the
\* channels are started.  The state machine has fetched its first command when it is
\* first looked at.
AskWrite ==
  /\ pc = "ask" /\ call.op = "write"
  /\ \E o \in Outcomes({"tran"}, TRUE) :
       /\ Command(o, IF ~InRange THEN card
                     ELSE [Resting("rcv") EXCEPT !.at = call.lba, !.left = call.count])
       /\ \/ Fail(o) /\ UNCHANGED engineVars
          \/ /\ o = "ok" /\ GoTo("poll")
             /\ queue' = Tail(WriteWords(call.count))
             /\ datSm' = "send" /\ left' = BlockWords + 2
             /\ dma' = 0
  /\ UNCHANGED <<buffer, emmc_detected, store, present, clocked>>

\* sd_scatter_read_complete and sd_write_complete look at one thing after another while
\* the hardware goes on, and start again when one is not as it should be: that no
\* channel is busy, that the state machine is back, and, after a read, that its FIFO is
\* empty.  Between two of its control blocks the data channel is seen idle, and so is
\* the chain channel a moment earlier.
BetweenReads == dma % (BlockWords + 1) \in {0, 1}
BetweenWrites ==
  Len(queue) > TxDepth => ~(queue[TxDepth] = "data" /\ queue[TxDepth + 1] = "data")

LookAt(good, step) == IF good THEN GoTo(step) ELSE GoTo("poll")

\* Seeded fault: the FIFO is not looked at.
PollReadNoFifo ==
  /\ pc \in {"poll", "commands", "address"} /\ call.op \in ReadOps
  /\ \/ pc = "poll" /\ LookAt(BetweenReads, "commands")
     \/ pc = "commands" /\ LookAt(Held = <<>>, "address")
     \/ pc = "address" /\ datSm # "waiting" /\ GoTo("poll")
     \/ pc = "address" /\ datSm = "waiting" /\ Return("ok")
  /\ UNCHANGED <<buffer, emmc_detected, cmdSm, engineVars, cardVars, faults, healthy>>

PollRead ==
  /\ pc \in {"poll", "commands", "address", "fifo"} /\ call.op \in ReadOps
  /\ \/ pc = "poll" /\ LookAt(BetweenReads, "commands")
     \/ pc = "commands" /\ LookAt(Held = <<>>, "address")
     \/ pc = "address" /\ LookAt(datSm = "waiting", "fifo")
     \/ pc = "fifo" /\ queue # <<>> /\ GoTo("poll")
     \/ pc = "fifo" /\ queue = <<>> /\ Return("ok")
  /\ UNCHANGED <<buffer, emmc_detected, cmdSm, engineVars, cardVars, faults, healthy>>

PollWrite ==
  /\ pc \in {"poll", "address"} /\ call.op = "write"
  /\ \/ pc = "poll" /\ LookAt(BetweenWrites, "address")
     \/ pc = "address" /\ LookAt(datSm = "waiting", "status")
  /\ UNCHANGED <<buffer, emmc_detected, cmdSm, engineVars, cardVars, faults, healthy>>

ProgrammingIgnored(response) == FALSE      \* Seeded fault: the status is not looked at
Programming(response) == response = "prg"

\* Then the card is asked whether it still programs.  What an error of that command
\* leaves in `response` decides as well.
AskStatus ==
  /\ pc = "status"
  /\ \E o \in Outcomes({"stby", "tran", "data", "rcv", "prg"}, TRUE), garbage \in {"prg", "tran"} :
       /\ Command(o, card)
       /\ LET response == IF o = "ok" THEN card.state ELSE garbage IN
          \/ o = "garbled" /\ GoTo("panic")
          \/ o # "garbled" /\ Programming(response) /\ GoTo("poll")
          \/ o # "garbled" /\ ~Programming(response) /\ Return("ok")
  /\ UNCHANGED <<buffer, emmc_detected, engineVars, store, present, clocked>>

Driver ==
  Reset \/ SendOpCond \/ SendIdentify \/ SdWait \/ SdWaitEnds
    \/ Settle \/ SetBlockCount \/ AskRead \/ AskWrite \/ PollRead \/ PollWrite \/ AskStatus
-----------------------------------------------------------------------------
(* The data state machine (sdio.pio) and the words on the data line *)

\* What a command makes of it.
Fetched == [recv |-> "receive", send |-> "send", pad |-> "next", go |-> "waiting"]

\* It fetches a command: while it waits for one, or after a block.
FetchCommand ==
  /\ datSm \in {"waiting", "next"} /\ queue # <<>>
  /\ LET word == Head(queue) IN
     /\ datSm' = Fetched[word]
     /\ left' = IF word = "recv" THEN BlockWords + 1 ELSE IF word = "send" THEN BlockWords + 2 ELSE 0
     /\ dma' = IF word = "pad" THEN dma - 1 ELSE dma
  /\ queue' = Tail(queue)
  /\ UNCHANGED <<driverVars, cmdSm, cardVars, history>>

\* DAT0 is high, as a wait for it asks; nothing says that it ever will be.
LineRises ==
  /\ datSm = "line"
  /\ datSm' = "next"
  /\ UNCHANGED <<driverVars, cmdSm, left, queue, dma, cardVars, history>>

\* A word of a block arrives, perhaps garbled, and DMA takes it to the caller's
\* buffer.  The CRC is left half a word long, for "pad" to complete.
ReceiveWord ==
  /\ datSm = "receive" /\ Reachable /\ card.state = "data"
  /\ left' = left - 1
  /\ \/ /\ left > 1
        /\ \E good \in BOOLEAN :
             /\ good \/ faults < MaxFaults
             /\ faults' = IF good THEN faults ELSE faults + 1
             /\ buffer' = Append(buffer, [of |-> Head(card.out), n |-> BlockWords + 2 - left,
                                          good |-> good])
        /\ dma' = dma - 1
        /\ UNCHANGED <<datSm, card>>
     \/ /\ left = 1
        /\ datSm' = "next"
        /\ card' = IF Len(card.out) = 1 THEN Resting("tran")
                   ELSE [card EXCEPT !.out = Tail(card.out)]
        /\ UNCHANGED <<dma, buffer, faults>>
  /\ UNCHANGED <<call, pc, rc, emmc_detected, cmdSm, queue, store, present, clocked, healthy,
                 leftover>>

\* The block the present words belong to: the others are all queued behind it.
BlockBeingSent == call.data[call.count - Len(queue) \div BlockLength]

\* What the card does with a word sent to it.  It misses a block that begins while it is
\* busy with the one before, and may refuse one for its CRC; nothing tells the driver.
TakeWord(word) ==
  \/ /\ word = "start"
     /\ LET takes == Reachable /\ card.state = "rcv" /\ ~card.busy IN
        /\ card' = [card EXCEPT !.word = IF takes THEN 1 ELSE 0]
        /\ healthy' = (healthy /\ takes)
     /\ UNCHANGED <<store, faults>>
  \/ /\ word = "data"
     /\ card' = [card EXCEPT !.word = IF card.word > 0 THEN card.word + 1 ELSE 0]
     /\ UNCHANGED <<store, faults, healthy>>
  \/ /\ word = "crc" /\ card.word # BlockWords + 1
     /\ UNCHANGED <<card, store, faults, healthy>>
  \/ /\ word = "crc" /\ card.word = BlockWords + 1
     /\ IF card.left = 1
        THEN /\ card' = [card EXCEPT !.state = "prg", !.out = <<BlockBeingSent>>, !.word = 0]
             /\ UNCHANGED store
        ELSE /\ \E busy \in BOOLEAN :
                  card' = [card EXCEPT !.at = card.at + 1, !.left = card.left - 1, !.word = 0,
                                       !.busy = busy]
             /\ store' = [store EXCEPT ![card.at] = BlockBeingSent]
     /\ UNCHANGED <<faults, healthy>>
  \/ /\ word = "crc" /\ card.word = BlockWords + 1
     /\ faults < MaxFaults /\ faults' = faults + 1
     /\ card' = Resting("tran")
     /\ healthy' = FALSE
     /\ UNCHANGED store

SendWord ==
  /\ datSm = "send" /\ queue # <<>>
  /\ TakeWord(Head(queue))
  /\ queue' = Tail(queue)
  /\ left' = left - 1
  /\ datSm' = IF left = 1 THEN "next" ELSE "send"
  /\ UNCHANGED <<driverVars, cmdSm, dma, present, clocked, leftover>>
-----------------------------------------------------------------------------
(* The card *)

Ready ==
  /\ present /\ card.busy
  /\ card' = [card EXCEPT !.busy = FALSE]
  /\ UNCHANGED <<driverVars, cmdSm, engineVars, store, present, clocked, history>>

Program ==
  /\ present /\ card.state = "prg"
  /\ store' = [store EXCEPT ![card.at] = Head(card.out)]
  /\ card' = Resting("tran")
  /\ UNCHANGED <<driverVars, cmdSm, engineVars, present, clocked, history>>

Leave ==
  /\ present /\ faults < MaxFaults
  /\ present' = FALSE /\ faults' = faults + 1
  /\ card' = PoweringUp
  /\ healthy' = FALSE
  /\ UNCHANGED <<driverVars, cmdSm, engineVars, store, clocked, leftover>>

Arrive ==
  /\ ~present
  /\ present' = TRUE
  /\ UNCHANGED <<driverVars, cmdSm, engineVars, card, store, clocked, history>>
-----------------------------------------------------------------------------
Next ==
  \/ \E c \in Calls : Begin(c)
  \/ Detect \/ IsdInit
  \/ Driver
  \/ FetchCommand \/ LineRises \/ ReceiveWord \/ SendWord
  \/ Ready \/ Program \/ Leave \/ Arrive

Spec == Init /\ [][Next]_vars

\* The driver is straight-line code and polling loops, the state machines are clocked,
\* and a card that is there ends what it is doing.  Nothing makes one arrive.
FairSpec ==
  /\ Spec
  /\ WF_vars(Driver)
  /\ WF_vars(FetchCommand) /\ WF_vars(ReceiveWord) /\ WF_vars(SendWord)
  /\ WF_vars(Ready) /\ WF_vars(Program)
-----------------------------------------------------------------------------
(* Properties *)

Word == {"recv", "pad", "go", "send", "start", "data", "crc"}

\* Every variable keeps its type; DMA never moves a word it was not told to move.
TypeOK ==
  /\ call = NoCall \/ call.op \in {"init", "read", "ext_csd", "write"}
  /\ pc \in {"idle", "panic", "reset", "ocr", "wait", "waited", "settle", "count", "ask"}
           \cup {"poll", "commands", "address", "fifo", "status"} \cup DOMAIN Identify
  /\ (call = NoCall) = (pc = "idle")
  /\ rc \in {"none", "ok", "range", "stuck"}
  /\ buffer \in Seq([of : Values \cup {ExtCsd}, n : 1 .. BlockWords, good : BOOLEAN])
  /\ emmc_detected \in BOOLEAN /\ present \in BOOLEAN /\ clocked \in BOOLEAN
  /\ cmdSm \in {"unset", "waiting", "receiving"}
  /\ datSm \in {"unset", "waiting", "next", "receive", "send", "line"}
  /\ left \in 0 .. BlockWords + 2 /\ (datSm \in {"receive", "send"} => left > 0)
  /\ queue \in Seq(Word)
  /\ dma \in Nat
  /\ card.state \in {"idle", "ready", "ident", "stby", "tran", "data", "rcv", "prg"}
  /\ card.out \in Seq(Values \cup {ExtCsd})
  /\ card.word \in 0 .. BlockWords + 1
  /\ card.at \in Nat /\ card.left \in Nat /\ card.busy \in BOOLEAN
  /\ store \in [CardBlock -> Values]
  /\ faults \in 0 .. MaxFaults /\ healthy \in BOOLEAN /\ leftover \in BOOLEAN

Succeeds(ops) == call # NoCall /\ call.op \in ops /\ call' = NoCall /\ rc' = "ok"

\* What a read is to deliver, word by word.
Expected(c, n) ==
  [of |-> IF c.op = "ext_csd" THEN ExtCsd ELSE store[c.lba + (n - 1) \div BlockWords],
   n  |-> ((n - 1) % BlockWords) + 1]

\* A read that returns SD_OK has every word of every block it asked for in the caller's
\* buffer, in order; only a word garbled on the line may differ, as the CRCs that are
\* fetched with the data are never compared.
ReadDeliversBlocks ==
  [][Succeeds(ReadOps) =>
       /\ Len(buffer) = call.count * BlockWords
       /\ \A n \in 1 .. Len(buffer) :
            [of |-> buffer[n].of, n |-> buffer[n].n] = Expected(call, n)]_vars

\* A write that returns SD_OK has been programmed, all of it, and the card is back in
\* "tran" for the next command, if it was in range and the card answered and took
\* everything since it was initialised.
AcknowledgedWriteIsStored ==
  [][Succeeds({"write"}) /\ InRange /\ healthy' =>
       /\ \A i \in 1 .. call.count : store[call.lba + i - 1] = call.data[i]
       /\ card.state = "tran"]_vars

\* A transfer that returns SD_OK leaves no channel, FIFO or state machine with work to
\* do, whatever the calls before it left behind.
SuccessLeavesNothingArmed ==
  [][Succeeds(ReadOps \cup {"write"}) => dma = 0 /\ queue = <<>> /\ datSm = "waiting"]_vars

\* DMA writes into a caller's buffer only while that call is in progress, although a
\* read that fails leaves its channels armed with the address.
BufferIsCallers ==
  [][buffer' # buffer => call # NoCall /\ call.op \in ReadOps]_vars

\* The loop that waits for the data state machine before a transfer can only be
\* endless on a driver never initialised, after a read that failed, or after a sd_init
\* that found DAT0 low and returned SD_OK all the same.
OopsOnlyAfterFailure ==
  pc = "settle" /\ datSm # "waiting" => cmdSm = "unset" \/ leftover

\* Every call returns, if the card is there and answers and takes what it is sent,
\* except one caught by what an earlier failed read or sd_wait left behind, or by panic.
EveryCallReturns ==
  call # NoCall ~> call = NoCall \/ ~healthy \/ pc = "panic" \/ (pc = "settle" /\ leftover)
=============================================================================
