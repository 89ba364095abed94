---------------------------- MODULE Isd1200Proofs ----------------------------
(***************************************************************************)
(* Theorems about Isd1200 for every size of the chip, every set of pages and *)
(* depth of the FIFOs, and every order of the calls.                         *)
(***************************************************************************)
EXTENDS Isd1200, PioSpiProofs

\* The call each step belongs to.
StepsOf == [init |-> {"power_up", "starting", "macro", "id"}, deinit |-> {"power_down"},
            erase |-> {"erase", "erasing"}, play |-> {"play"}, reset |-> {"reset"},
            read |-> {"read"}, write |-> {"write", "accepting", "writing"},
            emmc_init |-> {}]

\* The transfer in progress is the one of the step, and if any byte of it has been
\* shifted, state machine 0 runs the SPI program.
CallInv ==
  /\ step \in Steps \cup {"idle", "panic", "dead"}
  /\ call \in Calls \cup {NoCall}
  /\ step \in Steps => /\ call \in Calls /\ step \in StepsOf[call.op]
                       /\ frame = FrameOf(step, call)
                       /\ seen # <<>> => sm0.prog = "spi"
  /\ step \notin Steps => ~Transferring
  /\ step = "idle" => call = NoCall
-----------------------------------------------------------------------------
\* Before the first EMMC_INIT the SPI programs fill PIO1 from the top down: one for each
\* ISD1200_INIT, less one for each ISD1200_DEINIT that freed the lowest of them.
SpiAlone ==
  /\ clkAt = NoOffset
  /\ \E top \in {2, 12, 22, 32} :
       /\ used = top .. 31
       /\ prog = NoOffset => top = 32
       /\ prog # NoOffset => prog \in {2, 12, 22} /\ prog \in {top, top - 10}
       /\ session = "closed" => top = 32
       /\ session = "open" => top = 22 /\ prog = 22
  /\ \/ prog = NoOffset /\ sm0.prog = "none"
     \/ prog # NoOffset /\ sm0 = [prog |-> "spi", at |-> prog] /\ Intact("spi", prog)

\* The clock's program went above the SPI program or under it.
ClockUnder ==
  /\ clkAt = 20 /\ sm0 = [prog |-> "clk", at |-> 20]
  /\ used = 0 .. 18 \cup 20 .. 31 /\ session # "closed"

ClockAbove ==
  /\ clkAt = 30
  /\ \/ used = 0 .. 18 \cup 30 .. 31
     \/ used = 0 .. 18 \cup 20 .. 31 /\ session # "closed"
  /\ \/ sm0 = [prog |-> "clk", at |-> 30]
     \/ sm0 = [prog |-> "spi", at |-> 20] /\ prog = 20 /\ Intact("spi", 20)

MemoryInv ==
  /\ prog \in Slots \cup {NoOffset}
  /\ session \in {"closed", "open", "leaked"}
  /\ SpiAlone \/ ((ClockUnder \/ ClockAbove) /\ Intact("cmd_or_dat", 0) /\ Intact("clk", clkAt))
  /\ PanicOnlyAfterLeak
-----------------------------------------------------------------------------
\* The chip has had the frame of an erase or a write, and the call has not returned.
Executed ==
  \/ step \in {"erasing", "accepting", "writing"}
  \/ step \in {"erase", "write"} /\ seen = frame

Taken == Executed /\ refused = FALSE

EraseJob == [kind |-> "erase", page |-> 0, data |-> 0, accepted |-> FALSE]
WriteJob(taken) ==
  [kind |-> "write", page |-> PageAddress(call.lba), data |-> call.data, accepted |-> taken]

\* What the chip is doing, and what the driver may conclude from the answers it has.
NothingToDo == work = NoWork /\ wrFin = FALSE

Erasing ==
  /\ wrFin = FALSE
  /\ work = EraseJob \/ (work = NoWork /\ \A p \in Page : flash[p] = Blank)
  /\ step = "erasing" /\ got # <<>> /\ ~CmdBusy(got[1]) => work = NoWork

Writing ==
  /\ work \in {WriteJob(TRUE), WriteJob(FALSE), NoWork}
  /\ work # NoWork => wrFin = FALSE
  /\ step = "accepting" /\ got # <<>> /\ ~CmdBusy(got[1]) => work # WriteJob(FALSE)
  /\ step = "writing" => work # WriteJob(FALSE)
  /\ IF step = "writing" /\ Len(got) = 2 /\ WrFin(got[2])
     THEN NothingToDo
     ELSE work = NoWork => wrFin = TRUE

WorkInv ==
  /\ call # NoCall /\ call.op \in {"erase", "write"} /\ ~Executed => refused = FALSE
  /\ ~Taken => NothingToDo
  /\ Taken => IF call.op = "erase" THEN Erasing ELSE Writing

\* What the host was told of a page is so, unless the call in progress changes the page.
Changing(p) == Taken /\ (call.op = "erase" \/ p = PageAddress(call.lba))

ImageInv ==
  \A p \in Page : image[p] # Unknown =>
    /\ ~Changing(p) => flash[p] = image[p]
    /\ Changing(p) /\ call.op = "write" /\ image[p] = Blank =>
         flash[p] = IF work = NoWork THEN call.data ELSE Blank

\* The answers of READ_ID and DIG_READ.
AnswersInv ==
  /\ step = "id" => \A i \in 2 .. Len(got) : got[i] = IdBytes[i - 1]
  /\ step = "read" /\ ~refused =>
       \A i \in 3 .. Len(got) : got[i] = flash[(frame[2] + i - 3) % Pages]

TypeInv ==
  /\ chip \in {"isd2100", "other", "absent"} /\ dev_id \in {0, DEV_ID}
  /\ power \in {"down", "starting", "up"} /\ (macro => power = "up")
  /\ flash \in [Page -> Data \cup {Blank, Mixed}]
  /\ image \in [Page -> Data \cup {Blank, Unknown}]
  /\ {macro, wrFin, refused} \subseteq BOOLEAN
-----------------------------------------------------------------------------
(* The SPI transfers of the calls *)

LEMMA CallFields ==
  ASSUME NEW c \in Calls
  PROVE  /\ c.op \in {"init", "deinit", "erase", "play", "reset", "emmc_init", "read", "write"}
         /\ c.lba \in Nat
         /\ c.op = "write" => c.data \in Data
  BY ChipAssumption DEF Calls

\* The codes of the commands tell them apart, and they are bytes.
LEMMA FirstOfFrame ==
  ASSUME NEW s \in Steps, NEW c \in Calls
  PROVE  /\ s = "write" => FrameOf(s, c) = <<CMD_DIG_WRITE, PageAddress(c.lba), c.data>>
         /\ s = "erase" => FrameOf(s, c) = <<CMD_CHIP_ERASE, 1>>
         /\ s \in {"starting", "macro", "erasing", "accepting"} =>
              FrameOf(s, c) = <<CMD_READ_STATUS, 0>>
         /\ s = "writing" => FrameOf(s, c) = <<CMD_READ_INT, 0>>
         /\ s = "id" => FrameOf(s, c) = <<CMD_READ_ID, 0, 0, 0, 0>>
         /\ s = "power_up" => FrameOf(s, c) = <<CMD_PWR_UP>>
         /\ s = "power_down" => FrameOf(s, c) = <<CMD_PWR_DN>>
         /\ s = "reset" => FrameOf(s, c) = <<CMD_RESET>>
         /\ s = "play" => FrameOf(s, c) = <<CMD_PLAY_VP, 0, 0>>
  BY DEF FrameOf, Steps

LEMMA AddressIsPage ==
  ASSUME NEW c \in Calls
  PROVE  PageAddress(c.lba) \in Page /\ BlockAddress(c.lba) \in Page
<1>1. c.lba \in Nat /\ Pages \in Nat \ {0} /\ BlockPages \in Nat \ {0}
  BY CallFields, ChipAssumption
<1>2. c.lba * BlockPages \in Nat
  BY <1>1
<1>3. \A n \in Nat : n % Pages \in 0 .. Pages - 1
  BY <1>1
<1> QED
  BY <1>1, <1>2, <1>3 DEF PageAddress, BlockAddress, Page

LEMMA ReadFrame ==
  ASSUME NEW c \in Calls
  PROVE  /\ FrameOf("read", c) \in Seq(Byte) /\ Len(FrameOf("read", c)) = BlockPages + 2
         /\ FrameOf("read", c)[1] = CMD_DIG_READ
         /\ FrameOf("read", c)[2] = BlockAddress(c.lba)
<1>1. BlockAddress(c.lba) \in Byte /\ CMD_DIG_READ \in Byte /\ 0 \in Byte
  BY AddressIsPage, ChipAssumption DEF Page, CMD_DIG_READ
<1>2. BlockPages \in Nat
  BY ChipAssumption
<1>3. /\ <<CMD_DIG_READ, BlockAddress(c.lba)>> \in Seq(Byte)
      /\ Len(<<CMD_DIG_READ, BlockAddress(c.lba)>>) = 2
  BY <1>1
<1>4. Zeros(BlockPages) \in Seq(Byte) /\ Len(Zeros(BlockPages)) = BlockPages
  BY <1>1, <1>2 DEF Zeros
<1>5. FrameOf("read", c) = <<CMD_DIG_READ, BlockAddress(c.lba)>> \o Zeros(BlockPages)
  BY DEF FrameOf
<1> QED
  BY <1>2, <1>3, <1>4, <1>5, ConcatProperties

LEMMA FrameIsBytes ==
  ASSUME NEW c \in Calls, NEW s \in StepsOf[c.op]
  PROVE  s \in Steps /\ FrameOf(s, c) \in Seq(Byte) \ {<<>>}
<1>1. s \in Steps
  BY CallFields DEF StepsOf, Steps
<1>2. {0, 1, CMD_PWR_UP, CMD_PWR_DN, CMD_RESET, CMD_CHIP_ERASE, CMD_READ_STATUS, CMD_READ_INT,
       CMD_READ_ID, CMD_DIG_WRITE, CMD_PLAY_VP} \subseteq Byte
  BY ChipAssumption
  DEF CMD_PWR_UP, CMD_PWR_DN, CMD_RESET, CMD_CHIP_ERASE, CMD_READ_STATUS, CMD_READ_INT,
      CMD_READ_ID, CMD_DIG_WRITE, CMD_PLAY_VP
<1>3. CASE s = "read"
  <2>1. BlockPages + 2 # 0 /\ Len(<<>>) = 0
    BY ChipAssumption
  <2> QED
    BY <1>1, <1>3, <2>1, ReadFrame
<1>4. CASE s = "write"
  <2>1. c.op = "write"
    BY <1>4, CallFields DEF StepsOf
  <2>2. PageAddress(c.lba) \in Byte /\ c.data \in Byte
    BY <2>1, CallFields, AddressIsPage, ChipAssumption DEF Page
  <2>3. FrameOf(s, c) = <<CMD_DIG_WRITE, PageAddress(c.lba), c.data>>
    BY <1>1, <1>4, FirstOfFrame
  <2> QED
    BY <1>1, <1>2, <2>2, <2>3
<1>5. CASE s \notin {"read", "write"}
  <2>1. \E a, b \in Byte :
          FrameOf(s, c) \in {<<a>>, <<a, b>>, <<a, b, b>>, <<a, b, b, b, b>>}
    BY <1>1, <1>2, <1>5, FirstOfFrame DEF Steps
  <2>2. \A a, b \in Byte :
          {<<a>>, <<a, b>>, <<a, b, b>>, <<a, b, b, b, b>>} \subseteq Seq(Byte) \ {<<>>}
    OBVIOUS
  <2> QED
    BY <1>1, <2>1, <2>2
<1> QED
  BY <1>3, <1>4, <1>5

\* A command tells which step it is from.
LEMMA CommandOfStep ==
  ASSUME NEW c \in Calls, NEW s \in Steps
  PROVE  /\ FrameOf(s, c)[1] = CMD_READ_ID <=> s = "id"
         /\ FrameOf(s, c)[1] = CMD_DIG_READ <=> s = "read"
         /\ FrameOf(s, c)[1] = CMD_DIG_WRITE <=> s = "write"
         /\ FrameOf(s, c)[1] = CMD_CHIP_ERASE <=> s = "erase"
         /\ FrameOf(s, c)[1] = CMD_READ_INT <=> s = "writing"
         /\ FrameOf(s, c)[1] = CMD_RESET <=> s = "reset"
<1>1. FrameOf("read", c)[1] = CMD_DIG_READ
  BY ReadFrame
<1>2. \A a, b, d : <<a>>[1] = a /\ <<a, b>>[1] = a /\ <<a, b, d>>[1] = a
                   /\ <<a, b, b, b, b>>[1] = a
  OBVIOUS
<1>3. FrameOf(s, c)[1] =
        IF s = "read" THEN CMD_DIG_READ ELSE IF s = "write" THEN CMD_DIG_WRITE
        ELSE IF s = "erase" THEN CMD_CHIP_ERASE ELSE IF s = "writing" THEN CMD_READ_INT
        ELSE IF s = "id" THEN CMD_READ_ID ELSE IF s = "power_up" THEN CMD_PWR_UP
        ELSE IF s = "power_down" THEN CMD_PWR_DN ELSE IF s = "reset" THEN CMD_RESET
        ELSE IF s = "play" THEN CMD_PLAY_VP ELSE CMD_READ_STATUS
  BY <1>1, <1>2, FirstOfFrame DEF Steps
<1> QED
  BY <1>3
  DEF CMD_PWR_UP, CMD_PWR_DN, CMD_RESET, CMD_CHIP_ERASE, CMD_READ_STATUS, CMD_READ_INT,
      CMD_READ_ID, CMD_DIG_WRITE, CMD_DIG_READ, CMD_PLAY_VP

LEMMA FirstStepIsOfCall ==
  ASSUME NEW c \in Calls, c.op \in DOMAIN First
  PROVE  First[c.op] \in StepsOf[c.op] /\ First[c.op] # "idle"
  BY CallFields DEF First, StepsOf

LEMMA NextStepIsOfCall ==
  ASSUME NEW c \in Calls, NEW s \in StepsOf[c.op], NEW a, After(s, a) # "idle"
  PROVE  After(s, a) \in StepsOf[c.op]
<1>1. CASE After(s, a) = s
  BY <1>1
<1>2. CASE After(s, a) # s
  BY <1>2, CallFields DEF After, Followed, Successor, AfterAccepted, StepsOf
<1> QED
  BY <1>1, <1>2

LEMMA EnterIsTransfer ==
  ASSUME NEW c \in Calls, NEW s \in StepsOf[c.op], Enter(s, c)
  PROVE  NextSpi
  BY FrameIsBytes DEF Enter, NextSpi

\* A byte is shifted only in a step of a call, and before the frame of the step ends.
LEMMA ShiftInCall ==
  ASSUME SpiInv, CallInv, NEW answer \in Byte, ShiftByte(answer)
  PROVE  /\ step \in Steps /\ call \in Calls /\ step \in StepsOf[call.op]
         /\ frame = FrameOf(step, call)
         /\ Len(seen) \in Nat /\ Len(seen) < Len(frame)
         /\ seen # <<>> => seen[1] = frame[1]
<1>1. Transferring
  BY NothingLeft DEF ShiftByte
<1>2. step \in Steps
  BY <1>1 DEF CallInv
<1>3. Len(seen) < Len(frame)
  BY ShiftedByte
<1>4. seen \in Seq(Byte) /\ \A i \in 1 .. Len(seen) : seen[i] = frame[i]
  BY DEF SpiInv, SpiType, OutwardInOrder
<1>5. ASSUME seen # <<>> PROVE seen[1] = frame[1]
  <2>1. 1 \in 1 .. Len(seen)
    BY <1>4, <1>5
  <2> QED
    BY <1>4, <2>1
<1> QED
  BY <1>2, <1>3, <1>4, <1>5 DEF CallInv

\* The chip answers with bytes.
LEMMA AnswerIsByte ==
  ASSUME SpiInv, CallInv, TypeInv, osr # <<>> PROVE Answer \in Byte
<1>1. Transferring /\ step \in Steps
  BY NothingLeft DEF CallInv
<1>2. frame = FrameOf(step, call) /\ call \in Calls
  BY <1>1 DEF CallInv
<1>3. /\ seen \in Seq(Byte) /\ frame \in Seq(Byte) /\ Len(seen) \in Nat /\ Len(frame) \in Nat
      /\ \A i \in 1 .. Len(seen) : seen[i] = frame[i]
      /\ Len(seen) + Len(osr) + Len(txf) = pushed /\ pushed <= Len(frame) /\ Len(osr) \in 0 .. 1
      /\ osr \in Seq(Byte) /\ txf \in Seq(Byte) /\ pushed \in Nat
  BY DEF SpiInv, SpiType, BytesCounted, OutwardInOrder
<1>4. Len(seen) \in Nat /\ Len(seen) < Len(frame)
  BY <1>3
<1>5. Status \in Byte /\ Interrupts \in Byte /\ 0 \in Byte /\ \A p \in Page : flash[p] \in Byte
  <2>1. \A n \in 0 .. 255 : n \in Byte
    BY ChipAssumption
  <2>2. Status \in 0 .. 255 /\ Interrupts \in 0 .. 255
    BY DEF Status, Interrupts, STATUS_CMD_BSY, STATUS_VM_BSY, STATUS_DBUF_RDY,
           INTERRUPT_STATUS_WR_FIN
  <2>3. Data \cup {Blank, Mixed} \subseteq Byte
    BY <2>1, ChipAssumption DEF Blank
  <2>4. \A p \in Page : flash[p] \in Byte
    BY <2>3 DEF TypeInv
  <2>5. Status \in Byte
    BY <2>1, <2>2
  <2>6. Interrupts \in Byte
    BY <2>1, <2>2
  <2>7. 0 \in Byte
    BY <2>1
  <2> QED
    BY <2>4, <2>5, <2>6, <2>7
<1>6. CASE Len(seen) = 0
  BY <1>5, <1>6 DEF Answer
<1>7. CASE Len(seen) # 0 /\ seen[1] = CMD_READ_ID
  <2>1. 1 \in 1 .. Len(seen)
    BY <1>3, <1>7
  <2>2. step = "id"
    BY <1>1, <1>2, <1>3, <1>7, <2>1, CommandOfStep
  <2>3. Len(frame) = 5
    BY <1>1, <1>2, <2>2, FirstOfFrame
  <2>4. Len(seen) \in 1 .. 4
    <3>1. \A n \in Nat : n # 0 /\ n < 5 => n \in 1 .. 4
      OBVIOUS
    <3> QED
      BY <1>4, <1>7, <2>3, <3>1
  <2>5. Answer = IdBytes[Len(seen)]
    BY <1>7, <2>4 DEF Answer
  <2>6. \A n \in 1 .. 4 : IdBytes[n] \in 0 .. 255
    BY DEF IdBytes, DEV_ID
  <2> QED
    BY <2>4, <2>5, <2>6, ChipAssumption
<1>8. CASE Len(seen) # 0 /\ seen[1] # CMD_READ_ID
  <2>1. CASE seen[1] = CMD_DIG_READ /\ Len(seen) + 1 > 2
    <3>1. 2 \in 1 .. Len(seen)
      BY <1>3, <2>1
    <3>2. seen[2] \in Nat
      <4>1. \A i \in 1 .. Len(seen) : seen[i] \in Byte
        BY <1>3
      <4> QED
        BY <3>1, <4>1, ChipAssumption
    <3>3. seen[2] + (Len(seen) + 1) - 3 \in Nat
      BY <1>3, <2>1, <3>2
    <3>4. (seen[2] + (Len(seen) + 1) - 3) % Pages \in Page
      BY <3>3, ChipAssumption DEF Page
    <3> QED
      BY <1>3, <1>5, <1>8, <2>1, <3>4 DEF Answer
  <2>2. CASE ~(seen[1] = CMD_DIG_READ /\ Len(seen) + 1 > 2)
    BY <1>3, <1>5, <1>8, <2>2 DEF Answer
  <2> QED
    BY <2>1, <2>2
<1> QED
  BY <1>6, <1>7, <1>8

\* The steps of Isd1200, by what they leave alone.
LEMMA ChipAlone ==
  ASSUME PowersUp \/ MacroEnds \/ Accepts \/ WriteEnds \/ EraseEnds
  PROVE  UNCHANGED <<spiVars, driverVars, pioVars, chip, history>>
  BY DEF PowersUp, MacroEnds, Accepts, WriteEnds, EraseEnds

\* What the driver, state machine 0 and the chip do to a transfer, PioSpi does.
LEMMA NextIsSpi ==
  SpiInv /\ CallInv /\ TypeInv /\ [Next]_vars => [NextSpi]_spiVars
<1> SUFFICES ASSUME SpiInv, CallInv, TypeInv, [Next]_vars PROVE [NextSpi]_spiVars
  OBVIOUS
<1>1. CASE UNCHANGED vars
  BY <1>1 DEF vars
<1>2. ASSUME NEW c \in Calls, Begin(c) PROVE [NextSpi]_spiVars
  <2>1. CASE prog = NoOffset
    BY <1>2, <2>1 DEF Begin
  <2>2. CASE prog # NoOffset
    BY <1>2, <2>2, FirstStepIsOfCall, EnterIsTransfer DEF Begin
  <2> QED
    BY <2>1, <2>2
<1>3. ASSUME NEW c \in Calls, BeginInit(c) PROVE [NextSpi]_spiVars
  <2>1. "power_up" \in StepsOf[c.op]
    BY <1>3 DEF BeginInit, StepsOf
  <2> QED
    BY <1>3, <2>1, EnterIsTransfer DEF BeginInit
<1>4. CASE EmmcInit
  BY <1>4 DEF EmmcInit
<1>5. CASE Cpu
  <2>1. CASE PushByte \/ PopByte
    BY <2>1 DEF NextSpi
  <2>2. CASE Continue
    <3>1. call \in Calls /\ step \in StepsOf[call.op]
      BY <2>2 DEF Continue, CallInv
    <3> QED
      BY <2>2, <3>1, NextStepIsOfCall, EnterIsTransfer DEF Continue
  <2>3. CASE Return
    BY <2>3 DEF Return, Finish
  <2> QED
    BY <1>5, <2>1, <2>2, <2>3 DEF Cpu
<1>6. CASE Shift
  <2>1. Answer \in Byte
    BY <1>6, AnswerIsByte DEF Shift, ShiftByte
  <2> QED
    BY <1>6, <2>1 DEF Shift, NextSpi
<1>7. CASE Select
  BY <1>7 DEF Select, NextSpi
<1>8. CASE PowersUp \/ MacroEnds \/ Accepts \/ WriteEnds \/ EraseEnds
  BY <1>8, ChipAlone
<1> QED
  BY <1>1, <1>2, <1>3, <1>4, <1>5, <1>6, <1>7, <1>8 DEF Next, Chip

LEMMA EnterKeepsCall ==
  ASSUME NEW c \in Calls, NEW s \in StepsOf[c.op], Enter(s, c), call' = c
  PROVE  CallInv'
<1>1. s \in Steps
  BY FrameIsBytes
<1>2. step' = s /\ frame' = FrameOf(s, c) /\ seen' = <<>>
  BY DEF Enter, Transfer
<1>3. s # "idle"
  BY <1>1 DEF Steps
<1> QED
  BY <1>1, <1>2, <1>3 DEF CallInv

LEMMA CallStep ==
  SpiInv /\ CallInv /\ TypeInv /\ [Next]_vars => CallInv'
<1> SUFFICES ASSUME SpiInv, CallInv, TypeInv, [Next]_vars PROVE CallInv'
  OBVIOUS
<1>1. CASE UNCHANGED <<spiVars, driverVars, pioVars>>
  BY <1>1 DEF spiVars, cpuVars, smVars, driverVars, pioVars, CallInv, Transferring
<1>2. ASSUME NEW c \in Calls, Begin(c) PROVE CallInv'
  <2>1. CASE prog = NoOffset
    <3>1. /\ step = "idle" /\ step' = "dead" /\ call' = c
          /\ UNCHANGED <<buffer, popped>>
      BY <1>2, <2>1 DEF Begin, spiVars, cpuVars
    <3>2. ~Transferring /\ Transferring' = Transferring
      BY <3>1 DEF CallInv, Transferring, Steps
    <3> QED
      BY <3>1, <3>2 DEF CallInv, Steps
  <2>2. CASE prog # NoOffset
    BY <1>2, <2>2, FirstStepIsOfCall, EnterKeepsCall DEF Begin
  <2> QED
    BY <2>1, <2>2
<1>3. ASSUME NEW c \in Calls, BeginInit(c) PROVE CallInv'
  <2>1. step = "idle" /\ call' = c /\ "power_up" \in StepsOf[c.op]
    BY <1>3 DEF BeginInit, StepsOf
  <2>2. CASE Places("spi", used) = {} /\ step' = "panic" /\ UNCHANGED spiVars
    <3>1. ~Transferring /\ Transferring' = Transferring
      BY <2>1, <2>2 DEF CallInv, Transferring, Steps, spiVars, cpuVars
    <3> QED
      BY <2>1, <2>2, <3>1 DEF CallInv, Steps
  <2>3. CASE Enter("power_up", c)
    BY <2>1, <2>3, EnterKeepsCall
  <2> QED
    BY <1>3, <2>2, <2>3 DEF BeginInit
<1>4. CASE EmmcInit
  <2>1. /\ step = "idle" /\ step' \in {"idle", "panic"} /\ call' = call
        /\ UNCHANGED <<buffer, popped>>
    BY <1>4 DEF EmmcInit, spiVars, cpuVars
  <2>2. ~Transferring /\ Transferring' = Transferring
    BY <2>1 DEF CallInv, Transferring, Steps
  <2> QED
    BY <2>1, <2>2 DEF CallInv, Steps
<1>5. CASE (PushByte \/ PopByte) /\ UNCHANGED <<driverVars, pioVars, chipVars, history>>
  <2>1. Transferring
    BY <1>5, NothingLeft DEF PushByte, PopByte, SpiInv, SpiType, BytesCounted
  <2>2. UNCHANGED <<step, call, sm0, frame, seen>> /\ step \in Steps
    BY <1>5, <2>1 DEF PushByte, PopByte, driverVars, pioVars, CallInv
  <2>3. step # "idle"
    BY <2>2 DEF Steps
  <2> QED
    BY <2>2, <2>3 DEF CallInv
<1>6. CASE Continue
  <2>1. call \in Calls /\ step \in StepsOf[call.op]
    BY <1>6 DEF Continue, CallInv
  <2> QED
    BY <1>6, <2>1, NextStepIsOfCall, EnterKeepsCall DEF Continue
<1>7. CASE Return
  <2>1. step' = "idle" /\ call' = NoCall /\ ~Transferring /\ UNCHANGED <<buffer, popped>>
    BY <1>7 DEF Return, Finish, spiVars, cpuVars
  <2>2. ~Transferring'
    BY <2>1 DEF Transferring
  <2> QED
    BY <2>1, <2>2 DEF CallInv, Steps
<1>8. CASE Shift
  <2>1. Transferring
    BY <1>8, NothingLeft DEF Shift, ShiftByte
  <2>2. /\ UNCHANGED <<step, call, sm0, frame>> /\ step \in Steps
        /\ sm0.prog = "spi"
    BY <1>8, <2>1 DEF Shift, ShiftByte, driverVars, pioVars, CallInv, SpiRuns
  <2>3. step # "idle"
    BY <2>2 DEF Steps
  <2> QED
    BY <2>2, <2>3 DEF CallInv
<1>9. CASE Select
  <2>1. UNCHANGED <<step, call, sm0, frame, seen, buffer, popped>>
    BY <1>9 DEF Select, SelectChip, driverVars, pioVars, cpuVars
  <2>2. Transferring' = Transferring
    BY <2>1 DEF Transferring
  <2> QED
    BY <2>1, <2>2 DEF CallInv
<1>10. CASE PowersUp \/ MacroEnds \/ Accepts \/ WriteEnds \/ EraseEnds
  BY <1>1, <1>10, ChipAlone
<1> QED
  BY <1>1, <1>2, <1>3, <1>4, <1>5, <1>6, <1>7, <1>8, <1>9, <1>10 DEF Next, Cpu, Chip, vars
-----------------------------------------------------------------------------
(* The instruction memory of PIO1 *)

\* The program goes to the highest place with room for it.
LEMMA HighestPlace ==
  ASSUME NEW p \in {"spi", "clk"}, NEW taken, NEW m \in Slots,
         Span(p, m) \subseteq Slots \ taken,
         \A at \in Slots : at > m => ~(Span(p, at) \subseteq Slots \ taken)
  PROVE  Places(p, taken) = {m}
<1> DEFINE free == {at \in Slots : Span(p, at) \subseteq Slots \ taken}
<1>1. m \in free /\ \A at \in free : at \in Int /\ m >= at
  BY DEF Slots
<1>2. Max(free) = m
  <2> HIDE DEF free
  <2>1. \A x \in free : (\A y \in free : x >= y) => x = m
    BY <1>1
  <2> QED
    BY <1>1, <2>1 DEF Max
<1>3. Places(p, taken) = IF free = {} THEN {} ELSE {Max(free)}
  BY DEF Places
<1> QED
  BY <1>1, <1>2, <1>3

LEMMA Spans ==
  /\ \A at \in Int : Span("spi", at) = at .. at + 9
  /\ \A at \in Int : Span("cmd_or_dat", at) = at .. at + 18
  /\ \A at \in Int : Span("clk", at) = at .. at + 1
  /\ Span("spi", 20) = 20 .. 29 /\ Span("cmd_or_dat", 0) = 0 .. 18
  /\ Span("clk", 20) = 20 .. 21 /\ Span("clk", 30) = 30 .. 31
<1>1. \A at \in Int : Span("spi", at) = at .. at + 9
  BY DEF Span, Length
<1>2. \A at \in Int : Span("cmd_or_dat", at) = at .. at + 18
  BY DEF Span, Length
<1>6. \A at \in Int : Span("clk", at) = at .. at + 1
  BY DEF Span, Length
<1>3. Span("spi", 20) = 20 .. 29
  BY DEF Span, Length
<1>4. Span("cmd_or_dat", 0) = 0 .. 18
  BY DEF Span, Length
<1>5. Span("clk", 20) = 20 .. 21 /\ Span("clk", 30) = 30 .. 31
  BY DEF Span, Length
<1> QED
  BY <1>1, <1>2, <1>3, <1>4, <1>5, <1>6

LEMMA PlacesOfSpi ==
  /\ \A top \in {12, 22, 32} : Places("spi", top .. 31) = {top - 10}
  /\ Places("spi", 2 .. 31) = {}
  /\ Places("spi", 0 .. 18 \cup 30 .. 31) = {20}
  /\ Places("spi", 0 .. 18 \cup 20 .. 31) = {}
<1>1. ASSUME NEW top \in {12, 22, 32} PROVE Places("spi", top .. 31) = {top - 10}
  <2>1. top - 10 \in Slots
    BY DEF Slots
  <2>2. Span("spi", top - 10) \subseteq Slots \ (top .. 31)
    <3>1. Span("spi", top - 10) = top - 10 .. top - 10 + 9
      BY Spans
    <3>2. top - 10 .. top - 10 + 9 \subseteq Slots \ (top .. 31)
      BY DEF Slots
    <3> QED
      BY <3>1, <3>2
  <2>3. ASSUME NEW at \in Slots, at > top - 10
        PROVE  ~(Span("spi", at) \subseteq Slots \ (top .. 31))
    <3>1. at + 9 \in Span("spi", at) /\ at + 9 \notin Slots \ (top .. 31)
      BY <2>3, Spans DEF Slots
    <3> QED
      BY <3>1
  <2> QED
    BY <2>1, <2>2, <2>3, HighestPlace
<1>2. ASSUME NEW taken, \A at \in Slots : \E i \in 0 .. 9 : at + i \notin Slots \ taken
      PROVE  Places("spi", taken) = {}
  <2>1. ASSUME NEW at \in Slots, NEW i \in 0 .. 9 PROVE at + i \in Span("spi", at)
    <3>1. Span("spi", at) = at .. at + 9
      BY Spans DEF Slots
    <3> QED
      BY <3>1 DEF Slots
  <2>2. \A at \in Slots : ~(Span("spi", at) \subseteq Slots \ taken)
    BY <1>2, <2>1
  <2> QED
    BY <2>2 DEF Places
<1>3. Places("spi", 2 .. 31) = {}
  <2>1. ASSUME NEW at \in Slots PROVE at + 9 \notin Slots \ (2 .. 31)
    BY DEF Slots
  <2> QED
    BY <1>2, <2>1
<1>4. Places("spi", 0 .. 18 \cup 20 .. 31) = {}
  <2>1. ASSUME NEW at \in Slots
        PROVE  \E i \in 0 .. 9 : at + i \notin Slots \ (0 .. 18 \cup 20 .. 31)
    <3>1. at + 0 \notin Slots \ (0 .. 18 \cup 20 .. 31)
          \/ at + 1 \notin Slots \ (0 .. 18 \cup 20 .. 31)
      BY DEF Slots
    <3> QED
      BY <3>1
  <2> QED
    BY <1>2, <2>1
<1>5. Places("spi", 0 .. 18 \cup 30 .. 31) = {20}
  <2>1. 20 \in Slots /\ Span("spi", 20) \subseteq Slots \ (0 .. 18 \cup 30 .. 31)
    <3>1. Span("spi", 20) = 20 .. 29
      BY Spans
    <3>2. 20 .. 29 \subseteq Slots \ (0 .. 18 \cup 30 .. 31)
      BY DEF Slots
    <3> QED
      BY <3>1, <3>2 DEF Slots
  <2>2. ASSUME NEW at \in Slots, at > 20
        PROVE  ~(Span("spi", at) \subseteq Slots \ (0 .. 18 \cup 30 .. 31))
    <3>1. at + 9 \in Span("spi", at) /\ at + 9 \notin Slots \ (0 .. 18 \cup 30 .. 31)
      BY <2>2, Spans DEF Slots
    <3> QED
      BY <3>1
  <2>3. \A at \in Slots : at > 20 => ~(Span("spi", at) \subseteq Slots \ (0 .. 18 \cup 30 .. 31))
    BY ONLY <2>2
  <2>4. ASSUME NEW taken, Span("spi", 20) \subseteq Slots \ taken,
               \A at \in Slots : at > 20 => ~(Span("spi", at) \subseteq Slots \ taken)
        PROVE  Places("spi", taken) = {20}
    BY <2>1, <2>4, HighestPlace
  <2> QED
    BY ONLY Zenon, <2>1, <2>3, <2>4
<1>6. \A top \in {12, 22, 32} : Places("spi", top .. 31) = {top - 10}
  BY ONLY <1>1
<1> QED
  BY <1>3, <1>4, <1>5, <1>6

LEMMA PlacesOfLines ==
  ASSUME NEW top \in {2, 12, 22, 32}
  PROVE  /\ top \in {2, 12} => Places("cmd_or_dat", top .. 31) = {}
         /\ top \in {22, 32} =>
              /\ Places("cmd_or_dat", top .. 31) # {}
              /\ Places("clk", top .. 31 \cup Span("cmd_or_dat", 0)) = {top - 2}
<1>1. ASSUME top \in {2, 12} PROVE Places("cmd_or_dat", top .. 31) = {}
  <2>1. 18 \in Span("cmd_or_dat", 0) /\ 18 \notin Slots \ (top .. 31)
    BY <1>1, Spans DEF Slots
  <2> QED
    BY <2>1 DEF Places
<1>2. ASSUME top \in {22, 32} PROVE Places("cmd_or_dat", top .. 31) # {}
  <2>1. Span("cmd_or_dat", 0) \subseteq Slots \ (top .. 31)
    <3>1. Span("cmd_or_dat", 0) = 0 .. 18
      BY Spans
    <3>2. 0 .. 18 \subseteq Slots \ (top .. 31)
      BY <1>2 DEF Slots
    <3> QED
      BY <3>1, <3>2
  <2> QED
    BY <2>1 DEF Places
<1>3. ASSUME top \in {22, 32}
      PROVE  Places("clk", top .. 31 \cup Span("cmd_or_dat", 0)) = {top - 2}
  <2> DEFINE taken == top .. 31 \cup Span("cmd_or_dat", 0)
  <2>1. taken = top .. 31 \cup 0 .. 18
    BY Spans
  <2>2. top - 2 \in Slots /\ Span("clk", top - 2) \subseteq Slots \ taken
    <3>1. Span("clk", top - 2) = top - 2 .. top - 2 + 1
      BY Spans
    <3>2. top - 2 .. top - 2 + 1 \subseteq Slots \ (top .. 31 \cup 0 .. 18)
      BY <1>3 DEF Slots
    <3>3. top - 2 \in Slots
      BY <1>3 DEF Slots
    <3> QED
      BY <2>1, <3>1, <3>2, <3>3
  <2>3. ASSUME NEW at \in Slots, at > top - 2
        PROVE  ~(Span("clk", at) \subseteq Slots \ taken)
    <3>1. at + 1 \in Span("clk", at) /\ at + 1 \notin Slots \ taken
      BY <1>3, <2>1, <2>3, Spans DEF Slots
    <3> QED
      BY <3>1
  <2> QED
    BY <2>2, <2>3, HighestPlace
<1> QED
  BY <1>1, <1>2, <1>3

\* A program that is loaded is intact, and so is one that lies elsewhere.
LEMMA Loaded ==
  ASSUME NEW p \in {"spi", "cmd_or_dat", "clk"}, NEW at \in Slots, NEW mem,
         NEW m2, m2 = Load(mem, p, at), Span(p, at) \subseteq Slots
  PROVE  /\ \A s \in Span(p, at) : m2[s] = <<p, s - at>>
         /\ \A s \in Slots : s \notin Span(p, at) => m2[s] = mem[s]
  BY DEF Load

LEMMA MemoryKept ==
  ASSUME MemoryInv, UNCHANGED <<prog, used, memory, sm0, clkAt, session>>,
         step' = step \/ step' # "panic"
  PROVE  MemoryInv'
  BY DEF MemoryInv, SpiAlone, ClockUnder, ClockAbove, Intact, PanicOnlyAfterLeak

\* ISD1200_DEINIT: one program less, or none.
LEMMA MemoryFreed ==
  ASSUME MemoryInv, sm0.prog = "spi", Release, UNCHANGED <<prog, memory, sm0, clkAt>>,
         session' = IF session = "open" THEN "closed" ELSE session, step' = "idle"
  PROVE  MemoryInv'
<1>1. PanicOnlyAfterLeak' /\ session' \in {"closed", "open", "leaked"}
  BY DEF PanicOnlyAfterLeak, MemoryInv
<1>2. CASE SpiAlone
  <2>1. PICK top \in {2, 12, 22, 32} :
          /\ used = top .. 31
          /\ prog = NoOffset => top = 32
          /\ prog # NoOffset => prog \in {2, 12, 22} /\ prog \in {top, top - 10}
          /\ session = "closed" => top = 32
          /\ session = "open" => top = 22 /\ prog = 22
    BY <1>2 DEF SpiAlone
  <2>2. prog # NoOffset /\ sm0 = [prog |-> "spi", at |-> prog] /\ Intact("spi", prog)
    BY <1>2 DEF SpiAlone
  <2>3. used' = top .. 31 \ prog .. prog + 9
    <3>1. prog \in Int
      BY <2>1, <2>2
    <3>2. Span("spi", prog) = prog .. prog + 9
      BY <3>1, Spans
    <3> QED
      BY <2>1, <3>2 DEF Release
  <2>4. CASE prog = top
    <3>1. top .. 31 \ top .. top + 9 = top + 10 .. 31
      OBVIOUS
    <3>2. top + 10 \in {2, 12, 22, 32} /\ used' = top + 10 .. 31 /\ prog = (top + 10) - 10
      BY <2>1, <2>2, <2>3, <2>4, <3>1
    <3>3. /\ session' = "closed" => top + 10 = 32
          /\ session' # "open"
      BY <2>1, <2>2, <2>4
    <3>4. Intact("spi", prog)'
      BY <2>2 DEF Intact
    <3> QED
      BY <1>1, <1>2, <2>1, <2>2, <3>2, <3>3, <3>4 DEF MemoryInv, SpiAlone
  <2>5. CASE prog = top - 10
    <3>1. top .. 31 \ top - 10 .. (top - 10) + 9 = top .. 31
      OBVIOUS
    <3>2. used' = top .. 31
      BY <2>3, <2>5, <3>1
    <3>3. session' = session
      BY <2>1, <2>5, <1>1
    <3>4. Intact("spi", prog)'
      BY <2>2 DEF Intact
    <3>5. SpiAlone'
      BY <1>2, <2>1, <2>2, <3>2, <3>3, <3>4 DEF SpiAlone
    <3> QED
      BY <1>1, <3>5 DEF MemoryInv
  <2> QED
    BY <2>1, <2>2, <2>4, <2>5
<1>3. CASE (ClockUnder \/ ClockAbove) /\ Intact("cmd_or_dat", 0) /\ Intact("clk", clkAt)
  <2>1. ClockAbove /\ prog = 20 /\ sm0 = [prog |-> "spi", at |-> 20] /\ Intact("spi", 20)
    BY <1>3 DEF ClockUnder, ClockAbove
  <2>2. used' = used \ 20 .. 29
    BY <2>1, Spans DEF Release
  <2>3. used' = 0 .. 18 \cup 30 .. 31
    <3>1. (0 .. 18 \cup 30 .. 31) \ 20 .. 29 = 0 .. 18 \cup 30 .. 31
      OBVIOUS
    <3>2. (0 .. 18 \cup 20 .. 31) \ 20 .. 29 = 0 .. 18 \cup 30 .. 31
      OBVIOUS
    <3> QED
      BY <2>1, <2>2, <3>1, <3>2 DEF ClockAbove
  <2>4. Intact("cmd_or_dat", 0)' /\ Intact("clk", clkAt)' /\ Intact("spi", 20)'
    BY <1>3, <2>1 DEF Intact
  <2>5. ClockAbove'
    BY <2>1, <2>3, <2>4 DEF ClockAbove
  <2> QED
    BY <1>1, <2>4, <2>5 DEF MemoryInv
<1> QED
  BY <1>2, <1>3 DEF MemoryInv

\* ISD1200_INIT: one more, unless there is no room.
LEMMA MemoryTaken ==
  ASSUME MemoryInv, NEW c \in Calls, BeginInit(c) PROVE MemoryInv'
<1>1. /\ session' = IF session = "closed" THEN "open" ELSE "leaked"
      /\ step = "idle" /\ clkAt' = clkAt
  BY DEF BeginInit
<1>2. /\ session' \in {"closed", "open", "leaked"} /\ session' # "closed"
      /\ session # "closed" => session' = "leaked"
  BY <1>1
<1>3. ASSUME Places("spi", used) = {}, session # "closed" PROVE MemoryInv'
  <2>1. UNCHANGED <<prog, used, memory, sm0, clkAt>> /\ session' = "leaked"
    BY <1>1, <1>3 DEF BeginInit
  <2>2. PanicOnlyAfterLeak'
    BY <2>1 DEF PanicOnlyAfterLeak
  <2> QED
    BY <1>3, <2>1, <2>2 DEF MemoryInv, SpiAlone, ClockUnder, ClockAbove, Intact
<1>4. ASSUME NEW at \in Slots, Places("spi", used) = {at}, at .. at + 9 \subseteq Slots
      PROVE  /\ prog' = at /\ used' = used \cup at .. at + 9
             /\ sm0' = [prog |-> "spi", at |-> at] /\ Intact("spi", at)'
             /\ \A s \in Slots : s \notin at .. at + 9 => memory'[s] = memory[s]
             /\ PanicOnlyAfterLeak'
  <2>1. /\ prog' = at /\ used' = used \cup Span("spi", at)
        /\ memory' = Load(memory, "spi", at)
        /\ sm0' = [prog |-> "spi", at |-> at] /\ step' = "power_up"
    BY <1>4 DEF BeginInit, Enter
  <2>2. Span("spi", at) = at .. at + 9
    BY Spans DEF Slots
  <2>3. \A s \in Span("spi", at) : memory'[s] = <<"spi", s - at>>
    BY <1>4, <2>1, <2>2 DEF Load
  <2>4. \A s \in Slots : s \notin Span("spi", at) => memory'[s] = memory[s]
    BY <2>1 DEF Load
  <2> QED
    BY <2>1, <2>2, <2>3, <2>4 DEF Intact, PanicOnlyAfterLeak
<1>5. CASE SpiAlone
  <2>1. PICK top \in {2, 12, 22, 32} :
          used = top .. 31 /\ (session = "closed" => top = 32)
    BY <1>5 DEF SpiAlone
  <2>2. CASE top = 2
    BY <1>3, <2>1, <2>2, PlacesOfSpi
  <2>3. CASE top # 2
    <3>1. top - 10 \in {2, 12, 22} /\ top - 10 \in Slots
          /\ top - 10 .. (top - 10) + 9 \subseteq Slots
      BY <2>3 DEF Slots
    <3>2. Places("spi", used) = {top - 10}
      BY <2>1, <2>3, PlacesOfSpi
    <3>3. /\ prog' = top - 10 /\ used' = used \cup top - 10 .. (top - 10) + 9
          /\ sm0' = [prog |-> "spi", at |-> top - 10] /\ Intact("spi", top - 10)'
          /\ PanicOnlyAfterLeak'
      BY <1>4, <3>1, <3>2
    <3>4. top .. 31 \cup top - 10 .. (top - 10) + 9 = top - 10 .. 31
      OBVIOUS
    <3>5. used' = top - 10 .. 31
      BY <2>1, <3>3, <3>4
    <3>6. session' = "open" => top - 10 = 22
      <4>1. session' = "open" => session = "closed"
        BY <1>1
      <4> QED
        BY <2>1, <4>1
    <3>9. NoOffset # top - 10
      BY <3>1, ChipAssumption
    <3>7. SpiAlone'
      <4>1. Intact("spi", prog)'
        BY <3>3 DEF Intact
      <4> QED
        BY <1>1, <1>2, <1>5, <3>1, <3>3, <3>5, <3>6, <3>9, <4>1 DEF SpiAlone
    <3>8. prog' \in Slots
      BY <3>1, <3>3
    <3> QED
      BY <1>2, <3>3, <3>7, <3>8 DEF MemoryInv
  <2> QED
    BY <2>2, <2>3
<1>6. CASE ClockUnder
  BY <1>3, <1>6, PlacesOfSpi DEF ClockUnder
<1>7. CASE ClockAbove /\ Intact("cmd_or_dat", 0) /\ Intact("clk", clkAt)
  <2>1. CASE used = 0 .. 18 \cup 20 .. 31 /\ session # "closed"
    BY <1>3, <2>1, PlacesOfSpi
  <2>2. CASE used = 0 .. 18 \cup 30 .. 31
    <3>1. 20 \in Slots /\ 20 .. 20 + 9 \subseteq Slots
      BY DEF Slots
    <3>2. /\ prog' = 20 /\ used' = used \cup 20 .. 20 + 9
          /\ sm0' = [prog |-> "spi", at |-> 20] /\ Intact("spi", 20)'
          /\ \A s \in Slots : s \notin 20 .. 20 + 9 => memory'[s] = memory[s]
          /\ PanicOnlyAfterLeak'
      BY <1>4, <2>2, <3>1, PlacesOfSpi
    <3>3. used' = 0 .. 18 \cup 20 .. 31
      <4>1. (0 .. 18 \cup 30 .. 31) \cup 20 .. 20 + 9 = 0 .. 18 \cup 20 .. 31
        OBVIOUS
      <4> QED
        BY <2>2, <3>2, <4>1
    <3>4. \A s \in Span("cmd_or_dat", 0) \cup Span("clk", 30) : memory'[s] = memory[s]
      <4>1. \A s \in 0 .. 18 \cup 30 .. 31 : s \in Slots /\ s \notin 20 .. 20 + 9
        BY DEF Slots
      <4>2. Span("cmd_or_dat", 0) = 0 .. 18 /\ Span("clk", 30) = 30 .. 31
        BY Spans
      <4> QED
        BY <3>2, <4>1, <4>2
    <3>5. clkAt = 30
      BY <1>7 DEF ClockAbove
    <3>6. Intact("cmd_or_dat", 0)' /\ Intact("clk", clkAt)'
      BY <1>1, <1>7, <3>4, <3>5 DEF Intact
    <3>7. ClockAbove'
      BY <1>1, <1>2, <3>2, <3>3, <3>5 DEF ClockAbove
    <3> QED
      BY <1>2, <3>1, <3>2, <3>6, <3>7 DEF MemoryInv
  <2> QED
    BY <1>7, <2>1, <2>2 DEF ClockAbove
<1> QED
  BY <1>5, <1>6, <1>7 DEF MemoryInv

\* EMMC_INIT: its two programs are added beside one SPI program at most.
LEMMA MemoryShared ==
  ASSUME MemoryInv, EmmcInit PROVE MemoryInv'
<1>1. step = "idle" /\ UNCHANGED <<prog, session>>
  BY DEF EmmcInit, history
<1>2. ASSUME clkAt # NoOffset PROVE MemoryInv'
  <2>1. /\ sm0' = [prog |-> "clk", at |-> clkAt]
        /\ UNCHANGED <<step, used, memory, clkAt>>
    BY <1>2 DEF EmmcInit
  <2>2. (ClockUnder \/ ClockAbove) /\ Intact("cmd_or_dat", 0) /\ Intact("clk", clkAt)
    BY <1>2 DEF MemoryInv, SpiAlone
  <2>3. (ClockUnder \/ ClockAbove)'
    BY <1>1, <2>1, <2>2 DEF ClockUnder, ClockAbove
  <2>4. Intact("cmd_or_dat", 0)' /\ Intact("clk", clkAt)'
    BY <2>1, <2>2 DEF Intact
  <2> QED
    BY <1>1, <2>1, <2>3, <2>4 DEF MemoryInv, PanicOnlyAfterLeak
<1>3. ASSUME clkAt = NoOffset PROVE MemoryInv'
  <2> DEFINE withLines == used \cup Span("cmd_or_dat", 0)
             places == IF Places("cmd_or_dat", used) = {} THEN {} ELSE Places("clk", withLines)
  <2>1. SpiAlone
    BY <1>3, ChipAssumption DEF MemoryInv, ClockUnder, ClockAbove
  <2>2. PICK top \in {2, 12, 22, 32} :
          /\ used = top .. 31
          /\ session = "closed" => top = 32
          /\ session = "open" => top = 22
    BY <2>1 DEF SpiAlone
  <2>3. CASE top \in {2, 12}
    <3>1. places = {} /\ session = "leaked"
      BY <2>2, <2>3, PlacesOfLines DEF MemoryInv
    <3>2. step' = "panic" /\ UNCHANGED <<used, memory, sm0, clkAt>>
      BY <1>3, <3>1 DEF EmmcInit, pioVars
    <3> QED
      BY <1>1, <2>1, <3>1, <3>2 DEF MemoryInv, SpiAlone, PanicOnlyAfterLeak, Intact
  <2>4. CASE top \in {22, 32}
    <3>1. places = {top - 2} /\ top - 2 \in Slots
      <4>1. Places("cmd_or_dat", used) # {} /\ Places("clk", withLines) = {top - 2}
        BY <2>2, <2>4, PlacesOfLines
      <4>2. top - 2 \in Slots
        BY <2>4 DEF Slots
      <4> QED
        BY <4>1, <4>2
    <3>2. /\ used' = withLines \cup Span("clk", top - 2)
          /\ memory' = Load(Load(memory, "cmd_or_dat", 0), "clk", top - 2)
          /\ sm0' = [prog |-> "clk", at |-> top - 2]
          /\ clkAt' = top - 2
          /\ step' = step
      <4>1. PICK at \in places :
             /\ used' = withLines \cup Span("clk", at)
             /\ memory' = Load(Load(memory, "cmd_or_dat", 0), "clk", at)
             /\ sm0' = [prog |-> "clk", at |-> at]
             /\ clkAt' = at
             /\ step' = step
        BY <1>3, <3>1 DEF EmmcInit
      <4> QED
        BY <3>1, <4>1
    <3>3. Span("clk", top - 2) = top - 2 .. top - 1 /\ Span("cmd_or_dat", 0) = 0 .. 18
      BY <2>4, Spans
    <3>4. used' = (top .. 31 \cup 0 .. 18) \cup top - 2 .. top - 1
      BY <2>2, <3>2, <3>3
    <3>5. /\ \A s \in Span("clk", top - 2) : memory'[s] = <<"clk", s - (top - 2)>>
          /\ \A s \in Span("cmd_or_dat", 0) : memory'[s] = <<"cmd_or_dat", s - 0>>
      <4>1. /\ \A s \in 0 .. 18 : s \in Slots /\ s \notin top - 2 .. top - 1
            /\ \A s \in top - 2 .. top - 1 : s \in Slots
        BY <2>4 DEF Slots
      <4> QED
        BY <3>2, <3>3, <4>1 DEF Load
    <3>6. Intact("cmd_or_dat", 0)' /\ Intact("clk", clkAt)'
      BY <3>2, <3>5 DEF Intact
    <3>7. CASE top = 22
      <4>1. (22 .. 31 \cup 0 .. 18) \cup 20 .. 21 = 0 .. 18 \cup 20 .. 31
        OBVIOUS
      <4>2. top - 2 = 20 /\ top - 2 .. top - 1 = 20 .. 21
        BY <3>7
      <4>3. ClockUnder'
        BY <1>1, <2>2, <3>2, <3>4, <3>7, <4>1, <4>2 DEF ClockUnder
      <4> QED
        BY <1>1, <3>2, <3>6, <4>3 DEF MemoryInv, PanicOnlyAfterLeak
    <3>8. CASE top = 32
      <4>1. (32 .. 31 \cup 0 .. 18) \cup 30 .. 31 = 0 .. 18 \cup 30 .. 31
        OBVIOUS
      <4>2. top - 2 = 30 /\ top - 2 .. top - 1 = 30 .. 31
        BY <3>8
      <4>3. ClockAbove'
        BY <1>1, <3>2, <3>4, <3>8, <4>1, <4>2 DEF ClockAbove
      <4> QED
        BY <1>1, <3>2, <3>6, <4>3 DEF MemoryInv, PanicOnlyAfterLeak
    <3> QED
      BY <2>4, <3>7, <3>8
  <2> QED
    BY <2>3, <2>4
<1> QED
  BY <1>2, <1>3

LEMMA MemoryStep ==
  SpiInv /\ CallInv /\ MemoryInv /\ [Next]_vars => MemoryInv'
<1> SUFFICES ASSUME SpiInv, CallInv, MemoryInv, [Next]_vars PROVE MemoryInv'
  OBVIOUS
<1>1. CASE UNCHANGED <<driverVars, pioVars, session>>
  BY <1>1, MemoryKept DEF driverVars, pioVars
<1>2. ASSUME NEW c \in Calls, Begin(c) PROVE MemoryInv'
  <2>1. step' = "dead" \/ (step' = First[c.op] /\ c.op \in DOMAIN First)
    BY <1>2 DEF Begin, Enter
  <2>2. step' # "panic"
    BY <2>1, FirstStepIsOfCall, FrameIsBytes DEF Steps
  <2> QED
    BY <1>2, <2>2, MemoryKept DEF Begin, pioVars
<1>3. CASE Continue
  <2>1. call \in Calls /\ step \in StepsOf[call.op]
    BY <1>3 DEF Continue, CallInv
  <2>2. step' # "panic"
    BY <1>3, <2>1, NextStepIsOfCall, FrameIsBytes DEF Continue, Enter, Steps
  <2> QED
    BY <1>3, <2>2, MemoryKept DEF Continue, pioVars, history
<1>4. CASE Return
  <2>1. /\ step \in Steps /\ call \in Calls /\ frame \in Seq(Byte) \ {<<>>}
        /\ seen # <<>> => sm0.prog = "spi"
    BY <1>4, FrameIsBytes DEF Return, Finish, CallInv
  <2>2. seen # <<>>
    BY <1>4, <2>1, NothingLeft DEF Return
  <2>3. CASE call.op = "deinit"
    <3>1. /\ Release /\ step' = "idle" /\ UNCHANGED <<prog, memory, sm0, clkAt>>
          /\ session' = IF session = "open" THEN "closed" ELSE session
      BY <1>4, <2>3 DEF Return, Finish
    <3> QED
      BY <2>1, <2>2, <3>1, MemoryFreed
  <2>4. CASE call.op # "deinit"
    <3>1. /\ step' # "panic" /\ UNCHANGED <<prog, used, memory, sm0, clkAt, session>>
      BY <1>4, <2>4 DEF Return, Finish
    <3> QED
      BY <3>1, MemoryKept
  <2> QED
    BY <2>3, <2>4
<1>5. CASE (PushByte \/ PopByte) /\ UNCHANGED <<driverVars, pioVars, chipVars, history>>
  BY <1>1, <1>5 DEF history
<1>6. CASE Shift \/ Select
  BY <1>1, <1>6 DEF Shift, Select, history
<1>7. CASE PowersUp \/ MacroEnds \/ Accepts \/ WriteEnds \/ EraseEnds
  BY <1>1, <1>7, ChipAlone DEF history
<1>8. CASE UNCHANGED vars
  BY <1>1, <1>8 DEF vars, history
<1> QED
  BY <1>2, <1>3, <1>4, <1>5, <1>6, <1>7, <1>8, MemoryTaken, MemoryShared DEF Next, Cpu, Chip
-----------------------------------------------------------------------------
(* What the chip answers and does *)

LEMMA Flags ==
  ASSUME TypeInv
  PROVE  /\ macro \in BOOLEAN /\ wrFin \in BOOLEAN /\ refused \in BOOLEAN
         /\ work.accepted = FALSE => CmdBusy(Status)
         /\ WrFin(Interrupts) <=> wrFin = TRUE
<1>1. macro \in BOOLEAN /\ wrFin \in BOOLEAN /\ refused \in BOOLEAN
  BY DEF TypeInv
<1>2. ASSUME work.accepted = FALSE PROVE CmdBusy(Status)
  <2>1. Status \in {1, 5, 65, 69}
    BY <1>2 DEF Status, STATUS_CMD_BSY, STATUS_VM_BSY, STATUS_DBUF_RDY
  <2>2. \A n \in {1, 5, 65, 69} : (n \div 1) % 2 = 1
    OBVIOUS
  <2> QED
    BY <2>1, <2>2 DEF CmdBusy, IsSet, STATUS_CMD_BSY
<1>3. WrFin(Interrupts) <=> wrFin = TRUE
  <2>1. (32 \div 32) % 2 = 1 /\ (0 \div 32) % 2 # 1
    OBVIOUS
  <2> QED
    BY <1>1, <2>1 DEF WrFin, IsSet, Interrupts, INTERRUPT_STATUS_WR_FIN
<1> QED
  BY <1>1, <1>2, <1>3

\* The chip has a whole frame when its last byte has been shifted.
LEMMA LastByte ==
  ASSUME SpiInv, NEW answer \in Byte, ShiftByte(answer)
  PROVE  osr' = <<>> <=> seen' = frame
<1>1. SpiInv' /\ frame' = frame
  BY ShiftStep DEF ShiftByte
<1>0. /\ seen' \in Seq(Byte) /\ frame \in Seq(Byte) /\ osr' \in Seq(Byte) /\ txf' \in Seq(Byte)
      /\ Len(osr') \in 0 .. 1
      /\ Len(seen') + Len(osr') + Len(txf') = pushed' /\ pushed' <= Len(frame)
      /\ \A i \in 1 .. Len(seen') : seen'[i] = frame[i]
  BY <1>1 DEF SpiInv, SpiType, BytesCounted, OutwardInOrder
<1>2. Len(seen') \in Nat /\ Len(osr') \in Nat /\ Len(txf') \in Nat /\ Len(frame) \in Nat
  BY <1>0
<1>3. ASSUME osr' = <<>> PROVE Len(seen') = Len(frame)
  <2>1. txf = <<>> /\ txf' = <<>>
    BY <1>3 DEF ShiftByte
  <2>2. pushed' = Len(frame)
    BY <2>1 DEF ShiftByte, KeepsUp, cpuVars, SpiInv, BytesCounted
  <2> QED
    BY <1>0, <1>2, <1>3, <2>1, <2>2
<1>4. ASSUME Len(seen') = Len(frame) PROVE osr' = <<>>
  <2>1. Len(osr') = 0
    BY <1>0, <1>2, <1>4
  <2> QED
    BY <1>0, <2>1
<1>5. ASSUME Len(seen') = Len(frame) PROVE seen' = frame
  BY <1>0, <1>5, SeqEqual
<1> QED
  BY <1>3, <1>4, <1>5

LEMMA ShiftFacts ==
  ASSUME SpiInv, CallInv, TypeInv, Shift
  PROVE  /\ step \in Steps /\ call \in Calls /\ step \in StepsOf[call.op]
         /\ frame = FrameOf(step, call)
         /\ Len(got) \in Nat /\ Len(seen) = Len(got) /\ Len(got) < Len(frame)
         /\ Len(got') = Len(got) + 1 /\ got'[Len(got) + 1] = Answer
         /\ \A i \in 1 .. Len(got) : got'[i] = got[i] /\ seen[i] = frame[i]
         /\ seen # frame /\ (osr' = <<>> <=> seen' = frame)
         /\ seen' = frame <=> Len(got') = Len(frame)
         /\ UNCHANGED <<step, call, frame, dev_id, chip, flash, image>>
<1>1. Answer \in Byte /\ ShiftByte(Answer)
  BY AnswerIsByte DEF Shift, ShiftByte
<1>2. /\ step \in Steps /\ call \in Calls /\ step \in StepsOf[call.op]
      /\ frame = FrameOf(step, call) /\ Len(seen) \in Nat /\ Len(seen) < Len(frame)
  BY <1>1, ShiftInCall
<1>3. /\ Len(got) \in Nat /\ Len(seen) = Len(got) /\ got \in Seq(Byte)
      /\ \A i \in 1 .. Len(seen) : seen[i] = frame[i]
  BY DEF SpiInv, SpiType, BytesCounted, OutwardInOrder
<1>4. /\ Len(got') = Len(got) + 1 /\ got'[Len(got) + 1] = Answer
      /\ \A i \in 1 .. Len(got) : got'[i] = got[i]
  BY <1>1, <1>3, OneMore DEF ShiftByte
<1>5. seen # frame
  BY <1>2
<1>6. UNCHANGED <<step, call, frame, dev_id, chip, flash, image>>
  BY DEF Shift, ShiftByte, driverVars
<1>7. osr' = <<>> <=> seen' = frame
  BY <1>1, LastByte
<1>8. seen' = frame <=> Len(got') = Len(frame)
  <2>1. SpiInv' /\ frame' = frame
    BY <1>1, ShiftStep DEF ShiftByte
  <2>2. /\ Len(seen') = Len(got') /\ seen' \in Seq(Byte) /\ frame \in Seq(Byte)
        /\ \A i \in 1 .. Len(seen') : seen'[i] = frame[i]
    BY <2>1 DEF SpiInv, SpiType, BytesCounted, OutwardInOrder
  <2>3. ASSUME Len(got') = Len(frame) PROVE seen' = frame
    BY <2>2, <2>3, SeqEqual
  <2> QED
    BY <2>2, <2>3
<1> QED
  BY <1>2, <1>3, <1>4, <1>5, <1>6, <1>7, <1>8

\* Which call the chip has had a digital command of.
LEMMA ExecutedCall ==
  ASSUME CallInv, Executed
  PROVE  /\ step \in Steps /\ call \in Calls /\ call # NoCall
         /\ call.op = "erase" <=> step \in {"erase", "erasing"}
         /\ call.op = "write" <=> step \in {"write", "accepting", "writing"}
         /\ call.op \in {"erase", "write"}
<1>1. step \in {"erase", "erasing", "write", "accepting", "writing"} /\ step \in Steps
  BY DEF Executed, Steps
<1>2. call \in Calls /\ step \in StepsOf[call.op]
  BY <1>1 DEF CallInv
<1> QED
  BY <1>1, <1>2, CallFields, NoCallAssumption DEF StepsOf

\* When a transfer has returned the driver has the chip's answers.
LEMMA Returned ==
  ASSUME SpiInv, CallInv, step \in Steps, ~Transferring
  PROVE  /\ call \in Calls /\ call # NoCall /\ step \in StepsOf[call.op]
         /\ frame = FrameOf(step, call)
         /\ seen = frame /\ buffer = got /\ Len(got) = Len(frame)
         /\ frame # <<>>
<1>1. TransferIsFaithful
  BY InvIsFaithful
<1>2. call \in Calls /\ step \in StepsOf[call.op] /\ frame = FrameOf(step, call)
  BY DEF CallInv
<1>3. frame # <<>>
  BY <1>2, FrameIsBytes
<1>4. Len(got) = Len(seen)
  BY DEF SpiInv, BytesCounted
<1> QED
  BY <1>1, <1>2, <1>3, <1>4, NoCallAssumption DEF TransferIsFaithful

\* What a shifted byte does to the chip, by step.
LEMMA ShiftEffect ==
  ASSUME SpiInv, CallInv, TypeInv, Shift
  PROVE  /\ seen' # frame => UNCHANGED <<work, wrFin>>
         /\ step \notin {"erase", "write", "writing", "reset"} => UNCHANGED <<work, wrFin>>
         /\ step \notin {"erase", "write", "read"} => refused' = refused
         /\ step \in {"erase", "write"} =>
              /\ wrFin' = wrFin
              /\ \/ refused' = refused /\ seen' # frame
                 \/ refused' = TRUE /\ seen' = frame /\ work' = work
                 \/ /\ refused' = refused /\ seen' = frame
                    /\ work' = IF step = "erase" THEN EraseJob ELSE WriteJob(FALSE)
         /\ step = "writing" => work' = work /\ (seen' = frame => wrFin' = FALSE)
         /\ step = "reset" => UNCHANGED <<work, wrFin>> \/ (work' = NoWork /\ wrFin' = FALSE)
         /\ step = "read" /\ refused' = FALSE =>
              refused = FALSE /\ (Len(got) >= 2 => Accessible)
         /\ TypeInv'
<1>1. /\ step \in Steps /\ call \in Calls /\ step \in StepsOf[call.op]
      /\ frame = FrameOf(step, call)
      /\ Len(got) \in Nat /\ Len(seen) = Len(got)
      /\ \A i \in 1 .. Len(got) : seen[i] = frame[i]
      /\ osr' = <<>> <=> seen' = frame
      /\ UNCHANGED <<dev_id, chip, flash, image>>
  BY ShiftFacts
<1>2. macro \in BOOLEAN /\ wrFin \in BOOLEAN /\ refused \in BOOLEAN
  BY Flags
<1>3. /\ frame[1] = CMD_DIG_READ <=> step = "read"
      /\ frame[1] = CMD_DIG_WRITE <=> step = "write"
      /\ frame[1] = CMD_CHIP_ERASE <=> step = "erase"
      /\ frame[1] = CMD_READ_INT <=> step = "writing"
      /\ frame[1] = CMD_RESET <=> step = "reset"
  BY <1>1, CommandOfStep
<1>4. ASSUME Len(seen) > 1 \/ Len(got) >= 2 PROVE Len(seen) > 1 /\ seen[1] = frame[1]
  <2>1. 1 \in 1 .. Len(got)
    BY <1>1, <1>4
  <2> QED
    BY <1>1, <1>4, <2>1
<1>5. CASE seen' # frame
  <2>1. /\ refused' = (refused \/ (Len(seen) > 1 /\ seen[1] = CMD_DIG_READ /\ ~Accessible))
        /\ UNCHANGED <<power, macro, work, wrFin>>
    BY <1>1, <1>5 DEF Shift
  <2>2. refused' \in BOOLEAN
    BY <2>1
  <2>3. step # "read" => refused' = refused
    BY <1>2, <1>3, <1>4, <2>1
  <2>4. step = "read" /\ refused' = FALSE => refused = FALSE /\ (Len(got) >= 2 => Accessible)
    BY <1>2, <1>3, <1>4, <2>1
  <2>5. TypeInv'
    BY <1>1, <2>1, <2>2 DEF TypeInv
  <2>6. step = "writing" => work' = work
    BY <2>1
  <2> QED
    BY <1>5, <2>1, <2>3, <2>4, <2>5
<1>6. CASE seen' = frame
  <2>1. Execute(frame)
    BY <1>1, <1>6 DEF Shift
  <2> DEFINE cmd == frame[1]
  <2>2. CASE step \in {"erase", "write"}
    <3>1. cmd = IF step = "erase" THEN CMD_CHIP_ERASE ELSE CMD_DIG_WRITE
      BY <1>3, <2>2
    <3>2. /\ Start(IF step = "erase" THEN EraseJob
                   ELSE [kind |-> "write", page |-> frame[2], data |-> frame[3], accepted |-> FALSE])
          /\ UNCHANGED <<power, macro, wrFin>>
      BY <2>1, <2>2, <3>1
      DEF Execute, EraseJob, CMD_PWR_UP, CMD_PWR_DN, CMD_RESET, CMD_CHIP_ERASE, CMD_READ_STATUS,
          CMD_READ_INT, CMD_READ_ID, CMD_DIG_WRITE, CMD_DIG_READ, CMD_PLAY_VP
    <3>3. step = "write" => frame[2] = PageAddress(call.lba) /\ frame[3] = call.data
      BY <1>1, FirstOfFrame
    <3>4. /\ \/ refused' = refused /\ work' = IF step = "erase" THEN EraseJob ELSE WriteJob(FALSE)
             \/ refused' = TRUE /\ work' = work
          /\ refused' \in BOOLEAN
      BY <1>2, <2>2, <3>2, <3>3 DEF Start, WriteJob
    <3>5. TypeInv'
      BY <1>1, <3>2, <3>4 DEF TypeInv
    <3> QED
      BY <1>6, <2>2, <3>2, <3>4, <3>5
  <2>3. CASE step = "writing"
    <3>1. cmd = CMD_READ_INT
      BY <1>3, <2>3
    <3>2. wrFin' = FALSE /\ UNCHANGED <<power, macro, work, refused>>
      BY <2>1, <3>1
      DEF Execute, CMD_PWR_UP, CMD_PWR_DN, CMD_RESET, CMD_CHIP_ERASE, CMD_READ_STATUS,
          CMD_READ_INT, CMD_READ_ID, CMD_DIG_WRITE, CMD_DIG_READ, CMD_PLAY_VP
    <3>3. TypeInv'
      BY <1>1, <1>2, <3>2 DEF TypeInv
    <3> QED
      BY <1>6, <2>3, <3>2, <3>3
  <2>4. CASE step \notin {"erase", "write", "writing"}
    <3>1. cmd \notin {CMD_CHIP_ERASE, CMD_DIG_WRITE, CMD_READ_INT}
      BY <1>3, <2>4
    <3>2. /\ UNCHANGED <<work, wrFin>> \/ (cmd = CMD_RESET /\ work' = NoWork /\ wrFin' = FALSE)
          /\ \/ refused' = refused /\ cmd # CMD_DIG_READ
             \/ refused' = (refused \/ (cmd = CMD_DIG_READ /\ ~Accessible))
      BY <2>1, <3>1
      DEF Execute, PowerOff, CMD_PWR_UP, CMD_PWR_DN, CMD_RESET, CMD_CHIP_ERASE, CMD_READ_STATUS,
          CMD_READ_INT, CMD_READ_ID, CMD_DIG_WRITE, CMD_DIG_READ, CMD_PLAY_VP
    <3>3. /\ power' \in {"down", "starting", "up"} /\ macro' \in BOOLEAN
          /\ macro' = TRUE => power' = "up"
      <4>1. \/ power' = power /\ macro' = macro
            \/ power = "down" /\ power' = "starting" /\ macro' = macro
            \/ power' = "down" /\ macro' = FALSE
            \/ power' = power /\ macro' = (power = "up")
        BY <2>1 DEF Execute, Start, PowerOff
      <4>2. power \in {"down", "starting", "up"} /\ (macro = TRUE => power = "up")
        BY DEF TypeInv
      <4> QED
        BY <1>2, <4>1, <4>2
    <3>4. wrFin' \in BOOLEAN /\ refused' \in BOOLEAN
      BY <1>2, <3>2
    <3>5. TypeInv'
      BY <1>1, <3>3, <3>4 DEF TypeInv
    <3>6. step # "read" => refused' = refused
      BY <1>2, <1>3, <3>2
    <3>7. step = "read" /\ refused' = FALSE => refused = FALSE /\ Accessible
      BY <1>2, <1>3, <3>2
    <3>8. step # "reset" => UNCHANGED <<work, wrFin>>
      BY <1>3, <3>2
    <3> QED
      BY <1>6, <2>4, <3>2, <3>5, <3>6, <3>7, <3>8
  <2> QED
    BY <2>2, <2>3, <2>4
<1> QED
  BY <1>5, <1>6
-----------------------------------------------------------------------------
(* The chip's work against the driver's *)

LEMMA ChipKept ==
  ASSUME WorkInv, ImageInv, AnswersInv,
         UNCHANGED <<step, call, frame, seen, got, chip, work, wrFin, flash, refused, image>>
  PROVE  WorkInv' /\ ImageInv' /\ AnswersInv'
<1>1. Executed' = Executed /\ Taken' = Taken
  BY DEF Executed, Taken
<1>2. WorkInv'
  BY <1>1 DEF WorkInv, NothingToDo, Erasing, Writing, WriteJob
<1>3. ImageInv'
  BY <1>1 DEF ImageInv, Changing
<1>4. AnswersInv'
  <2>1. (step = "id" => \A i \in 2 .. Len(got) : got[i] = IdBytes[i - 1])'
    BY DEF AnswersInv, IdBytes
  <2>2. (step = "read" /\ ~refused =>
           \A i \in 3 .. Len(got) : got[i] = flash[(frame[2] + i - 3) % Pages])'
    BY DEF AnswersInv
  <2> QED
    BY <2>1, <2>2 DEF AnswersInv
<1> QED
  BY <1>2, <1>3, <1>4

\* A call begins, or does not.
LEMMA ChipBegin ==
  ASSUME WorkInv, ImageInv, step = "idle",
         UNCHANGED <<work, wrFin, flash, image>>,
         step' \notin {"erasing", "accepting", "writing"},
         step' \in {"erase", "write"} => seen' # frame',
         step' \in {"id", "read"} => got' = <<>>,
         call' = NoCall \/ refused' = FALSE
  PROVE  WorkInv' /\ ImageInv' /\ AnswersInv'
<1>1. ~Executed /\ ~Executed'
  BY DEF Executed
<1>2. ~Taken /\ ~Taken'
  BY <1>1 DEF Taken
<1>3. WorkInv'
  BY <1>1, <1>2 DEF WorkInv, NothingToDo
<1>4. ImageInv'
  BY <1>2 DEF ImageInv, Changing
<1>5. AnswersInv'
  BY DEF AnswersInv
<1> QED
  BY <1>3, <1>4, <1>5

LEMMA Entered ==
  ASSUME NEW c \in Calls, NEW s \in StepsOf[c.op], Enter(s, c)
  PROVE  step' = s /\ s \in Steps /\ seen' = <<>> /\ got' = <<>> /\ seen' # frame'
  BY FrameIsBytes DEF Enter, Transfer

LEMMA ChipBegins ==
  ASSUME CallInv, WorkInv, ImageInv, (\E c \in Calls : Begin(c) \/ BeginInit(c)) \/ EmmcInit
  PROVE  WorkInv' /\ ImageInv' /\ AnswersInv'
<1>1. ASSUME NEW c \in Calls, Begin(c) PROVE WorkInv' /\ ImageInv' /\ AnswersInv'
  <2>1. step = "idle" /\ refused' = FALSE /\ UNCHANGED <<work, wrFin, flash, image>>
    BY <1>1 DEF Begin, chipVars
  <2>2. CASE step' = "dead"
    BY <2>1, <2>2, ChipBegin
  <2>3. CASE Enter(First[c.op], c)
    <3>1. /\ step' = First[c.op] /\ got' = <<>> /\ seen' # frame'
          /\ First[c.op] \in {"power_down", "erase", "play", "reset", "read", "write"}
      BY <1>1, <2>3, FirstStepIsOfCall, Entered DEF Begin, First
    <3> QED
      BY <2>1, <3>1, ChipBegin
  <2> QED
    BY <1>1, <2>2, <2>3 DEF Begin
<1>2. ASSUME NEW c \in Calls, BeginInit(c) PROVE WorkInv' /\ ImageInv' /\ AnswersInv'
  <2>1. step = "idle" /\ refused' = FALSE /\ UNCHANGED <<work, wrFin, flash, image>>
    BY <1>2 DEF BeginInit, chipVars
  <2>2. step' \in {"panic", "power_up"}
    BY <1>2 DEF BeginInit, Enter
  <2> QED
    BY <2>1, <2>2, ChipBegin
<1>3. CASE EmmcInit
  <2>1. /\ step = "idle" /\ step' \in {"idle", "panic"} /\ call' = call
        /\ UNCHANGED <<work, wrFin, flash, image>>
    BY <1>3 DEF EmmcInit, chipVars, history
  <2>2. call = NoCall
    BY <2>1 DEF CallInv
  <2> QED
    BY <2>1, <2>2, ChipBegin
<1> QED
  BY <1>1, <1>2, <1>3

\* The call goes on to its next transfer.
LEMMA ChipContinue ==
  ASSUME SpiInv, CallInv, TypeInv, WorkInv, ImageInv, Continue
  PROVE  WorkInv' /\ ImageInv' /\ AnswersInv'
<1>1. /\ call \in Calls /\ call # NoCall /\ step \in StepsOf[call.op]
      /\ frame = FrameOf(step, call)
      /\ seen = frame /\ buffer = got /\ Len(got) = Len(frame)
      /\ step \in Steps
  BY Returned DEF Continue
<1>2. /\ After(step, got) # "idle" /\ After(step, got) \in StepsOf[call.op]
      /\ Enter(After(step, got), call)
      /\ UNCHANGED <<call, chip, work, wrFin, flash, refused, image>>
  BY <1>1, NextStepIsOfCall DEF Continue, chipVars, history
<1>3. step' = After(step, got) /\ seen' # frame' /\ got' = <<>>
  BY <1>1, <1>2, Entered
<1>4. /\ step \in {"erase", "erasing"} => step' = "erasing"
      /\ step = "write" => step' = "accepting"
      /\ step = "accepting" => \/ step' = "accepting"
                               \/ step' = "writing" /\ ~CmdBusy(got[1])
      /\ step = "writing" => step' = "writing" /\ ~WrFin(got[2])
      /\ step \in {"power_up", "starting", "macro", "id", "power_down", "play", "reset", "read"}
           => step' \in {"starting", "macro", "id", "power_down", "play", "reset", "read"}
  BY <1>2, <1>3 DEF After, Again, Followed, Successor, AfterAccepted, WrFinSeen
<1>5. Executed' <=> Executed
  BY <1>1, <1>3, <1>4 DEF Executed, Steps
<1>6. Taken' <=> Taken
  BY <1>2, <1>5 DEF Taken
<1>7. ImageInv'
  BY <1>2, <1>6 DEF ImageInv, Changing
<1>8. AnswersInv'
  BY <1>3 DEF AnswersInv
<1>9. ASSUME Taken, call.op = "erase" PROVE Erasing'
  BY <1>2, <1>3, <1>9 DEF WorkInv, Erasing
<1>10. ASSUME Taken, call.op # "erase" PROVE Writing'
  <2>1. Writing
    BY <1>10 DEF WorkInv
  <2>2. step \in {"write", "accepting", "writing"}
    BY <1>10, ExecutedCall DEF Taken
  <2>3. ASSUME step \in {"accepting", "writing"} PROVE Len(got) = 2
    <3>1. FrameOf(step, call) \in {<<CMD_READ_STATUS, 0>>, <<CMD_READ_INT, 0>>}
      BY <1>1, <2>3, FirstOfFrame
    <3>2. Len(FrameOf(step, call)) = 2
      BY <3>1
    <3> QED
      BY <1>1, <3>2
  <2>4. WriteJob(TRUE)' = WriteJob(TRUE) /\ WriteJob(FALSE)' = WriteJob(FALSE)
    BY <1>2 DEF WriteJob
  <2>5. step' = "writing" => work # WriteJob(FALSE)
    <3>1. CASE step = "writing"
      BY <2>1, <3>1 DEF Writing
    <3>2. CASE step = "accepting"
      <4>1. got # <<>>
        BY <2>3, <3>2
      <4> QED
        BY <1>4, <2>1, <3>2, <4>1 DEF Writing
    <3>3. CASE step = "write"
      BY <1>4, <3>3
    <3> QED
      BY <2>2, <3>1, <3>2, <3>3
  <2>6. ~(step = "writing" /\ Len(got) = 2 /\ WrFin(got[2]))
    BY <1>4
  <2>7. Len(got') # 2
    BY <1>3
  <2> QED
    BY <1>2, <1>3, <2>1, <2>4, <2>5, <2>6, <2>7 DEF Writing
<1>11. WorkInv'
  <2>1. ~Taken => NothingToDo'
    BY <1>2 DEF WorkInv, NothingToDo
  <2>2. call' # NoCall /\ call'.op \in {"erase", "write"} /\ ~Executed' => refused' = FALSE
    BY <1>2, <1>5 DEF WorkInv
  <2> QED
    BY <1>2, <1>6, <1>9, <1>10, <2>1, <2>2 DEF WorkInv
<1> QED
  BY <1>7, <1>8, <1>11

\* The call returns, when the chip has done what it was told.
LEMMA ChipReturn ==
  ASSUME SpiInv, CallInv, TypeInv, WorkInv, ImageInv, AnswersInv, Return
  PROVE  TypeInv' /\ WorkInv' /\ ImageInv' /\ AnswersInv'
<1>1. /\ call \in Calls /\ call # NoCall /\ step \in StepsOf[call.op]
      /\ frame = FrameOf(step, call)
      /\ seen = frame /\ buffer = got /\ Len(got) = Len(frame)
      /\ step \in Steps
  BY Returned DEF Return, Finish
<1>2. /\ After(step, got) = "idle"
      /\ step' = "idle" /\ call' = NoCall
      /\ dev_id' \in {dev_id, IF step = "id" THEN got[5] ELSE dev_id}
      /\ NoteAnswer
      /\ UNCHANGED <<seen, got, frame, chip, power, macro, work, wrFin, flash, refused>>
  BY <1>1 DEF Return, Finish, chipVars, spiVars
<1>3. ~Executed' /\ ~Taken'
  BY <1>2 DEF Executed, Taken
<1>4. /\ step \notin {"erase", "write"}
      /\ step = "erasing" => ~CmdBusy(got[1])
      /\ step \notin {"accepting"}
      /\ step = "writing" => WrFin(got[2])
  BY <1>2 DEF After, Again, Followed, Successor, AfterAccepted, WrFinSeen
<1>5. Taken => step \in {"erasing", "writing"}
  BY <1>4 DEF Taken, Executed
<1>6. ASSUME step \in {"erasing", "writing"} PROVE Len(got) = 2 /\ got # <<>>
  <2>1. FrameOf(step, call) \in {<<CMD_READ_STATUS, 0>>, <<CMD_READ_INT, 0>>}
    BY <1>1, <1>6, FirstOfFrame
  <2>2. Len(FrameOf(step, call)) = 2
    BY <2>1
  <2> QED
    BY <1>1, <2>2
<1>7. NothingToDo /\ (Taken /\ call.op = "erase" => \A p \in Page : flash[p] = Blank)
  <2>1. CASE ~Taken
    BY <2>1 DEF WorkInv
  <2>2. CASE Taken /\ call.op = "erase"
    <3>1. Erasing /\ step = "erasing" /\ ~CmdBusy(got[1]) /\ got # <<>>
      BY <1>4, <1>6, <2>2, ExecutedCall DEF WorkInv, Taken
    <3>2. work = NoWork /\ wrFin = FALSE
      BY <3>1 DEF Erasing
    <3>3. \A p \in Page : flash[p] = Blank
      BY <3>1, <3>2 DEF Erasing, EraseJob, NoWork
    <3> QED
      BY <3>2, <3>3 DEF NothingToDo
  <2>3. CASE Taken /\ call.op # "erase"
    <3>1. Writing /\ step = "writing" /\ WrFin(got[2]) /\ Len(got) = 2
      BY <1>4, <1>6, <2>3, ExecutedCall DEF WorkInv, Taken
    <3> QED
      BY <2>3, <3>1 DEF Writing
  <2> QED
    BY <2>1, <2>2, <2>3
<1>8. WorkInv'
  BY <1>2, <1>3, <1>7 DEF WorkInv, NothingToDo
<1>9. AnswersInv'
  BY <1>2 DEF AnswersInv
<1>10. Taken <=> refused = FALSE /\ call.op \in {"erase", "write"}
  <2>1. call.op \in {"erase", "write"} => Executed
    BY <1>1, <1>4 DEF StepsOf, Executed
  <2> QED
    BY <2>1, ExecutedCall DEF Taken
<1>11. refused \in BOOLEAN
  BY Flags
<1>12. ASSUME NEW p \in Page
       PROVE  /\ image'[p] \in Data \cup {Blank, Unknown}
              /\ image'[p] # Unknown => flash[p] = image'[p]
  <2>1. image[p] \in Data \cup {Blank, Unknown}
    BY DEF TypeInv
  <2>2. CASE ~Taken
    <3>1. image'[p] = image[p]
      BY <1>2, <1>10, <1>11, <2>2 DEF NoteAnswer
    <3> QED
      BY <2>1, <2>2, <3>1 DEF ImageInv, Changing
  <2>3. CASE Taken /\ call.op = "erase"
    <3>1. image'[p] = Blank
      BY <1>2, <1>10, <1>11, <2>3 DEF NoteAnswer
    <3> QED
      BY <1>7, <2>3, <3>1
  <2>4. CASE Taken /\ call.op = "write" /\ p # PageAddress(call.lba)
    <3>1. image'[p] = image[p]
      BY <1>2, <1>10, <1>11, <2>4 DEF NoteAnswer
    <3> QED
      BY <2>1, <2>4, <3>1 DEF ImageInv, Changing
  <2>5. CASE Taken /\ call.op = "write" /\ p = PageAddress(call.lba)
    <3>1. image'[p] = IF image[p] = Blank THEN call.data ELSE Unknown
      BY <1>2, <1>10, <1>11, <2>5 DEF NoteAnswer
    <3>2. call.data \in Data
      BY <1>1, <2>5, CallFields
    <3>3. Blank # Unknown /\ work = NoWork
      BY <1>7, ChipAssumption DEF Blank, NothingToDo
    <3>4. image[p] = Blank => flash[p] = call.data
      BY <2>5, <3>3 DEF ImageInv, Changing
    <3> QED
      BY <3>1, <3>2, <3>4
  <2> QED
    BY <1>10, <2>2, <2>3, <2>4, <2>5
<1>13. ImageInv'
  BY <1>2, <1>3, <1>12 DEF ImageInv, Changing
<1>14. dev_id' \in {0, DEV_ID}
  <2>1. CASE step = "id"
    <3>1. Len(got) = 5
      <4>1. FrameOf(step, call) = <<CMD_READ_ID, 0, 0, 0, 0>>
        BY <1>1, <2>1, FirstOfFrame
      <4>2. Len(FrameOf(step, call)) = 5
        BY <4>1
      <4> QED
        BY <1>1, <4>2
    <3>2. 5 \in 2 .. Len(got)
      BY <3>1
    <3>3. got[5] = IdBytes[5 - 1]
      BY <2>1, <3>2 DEF AnswersInv
    <3>4. IdBytes[5 - 1] \in {0, DEV_ID}
      BY DEF IdBytes
    <3> QED
      BY <1>2, <3>3, <3>4 DEF TypeInv
  <2>2. CASE step # "id"
    BY <1>2, <2>2 DEF TypeInv
  <2> QED
    BY <2>1, <2>2
<1>15. image' \in [Page -> Data \cup {Blank, Unknown}]
  <2>1. image' = [p \in Page |-> image'[p]]
    BY <1>2 DEF NoteAnswer
  <2> QED
    BY <1>12, <2>1
<1>16. TypeInv'
  BY <1>2, <1>14, <1>15 DEF TypeInv
<1> QED
  BY <1>8, <1>9, <1>13, <1>16

\* The chip receives a byte.
LEMMA ChipShift ==
  ASSUME SpiInv, CallInv, TypeInv, WorkInv, ImageInv, AnswersInv, Shift
  PROVE  WorkInv' /\ ImageInv' /\ AnswersInv'
<1>1. /\ step \in Steps /\ call \in Calls /\ step \in StepsOf[call.op]
      /\ frame = FrameOf(step, call)
      /\ Len(got) \in Nat /\ Len(seen) = Len(got) /\ Len(got) < Len(frame)
      /\ Len(got') = Len(got) + 1 /\ got'[Len(got) + 1] = Answer
      /\ \A i \in 1 .. Len(got) : got'[i] = got[i] /\ seen[i] = frame[i]
      /\ seen # frame
      /\ seen' = frame <=> Len(got') = Len(frame)
      /\ UNCHANGED <<step, call, frame, dev_id, chip, flash, image>>
  BY ShiftFacts
<1>2. /\ seen' # frame => UNCHANGED <<work, wrFin>>
      /\ step \notin {"erase", "write", "writing", "reset"} => UNCHANGED <<work, wrFin>>
      /\ step \notin {"erase", "write", "read"} => refused' = refused
      /\ step \in {"erase", "write"} =>
           /\ wrFin' = wrFin
           /\ \/ refused' = refused /\ seen' # frame
              \/ refused' = TRUE /\ seen' = frame /\ work' = work
              \/ /\ refused' = refused /\ seen' = frame
                 /\ work' = IF step = "erase" THEN EraseJob ELSE WriteJob(FALSE)
      /\ step = "writing" => work' = work /\ (seen' = frame => wrFin' = FALSE)
      /\ step = "reset" => UNCHANGED <<work, wrFin>> \/ (work' = NoWork /\ wrFin' = FALSE)
      /\ step = "read" /\ refused' = FALSE => refused = FALSE /\ (Len(got) >= 2 => Accessible)
  BY ShiftEffect
<1>3. WriteJob(TRUE)' = WriteJob(TRUE) /\ WriteJob(FALSE)' = WriteJob(FALSE)
  BY <1>1 DEF WriteJob
<1>4. got' # <<>>
  BY <1>1
<1>5. CASE step \in {"erase", "write"}
  <2>1. /\ call.op = step /\ call # NoCall
        /\ ~Executed /\ (Executed' <=> seen' = frame)
    BY <1>1, <1>5, CallFields, NoCallAssumption DEF Executed, StepsOf
  <2>2. NothingToDo /\ refused = FALSE /\ ~Taken
    BY <1>5, <2>1 DEF WorkInv, Taken
  <2>3. CASE seen' # frame
    <3>1. ~Executed' /\ ~Taken' /\ NothingToDo' /\ refused' = FALSE
      BY <1>2, <1>5, <2>1, <2>2, <2>3 DEF Taken, NothingToDo
    <3>2. WorkInv'
      BY <3>1 DEF WorkInv
    <3>3. ImageInv'
      BY <1>1, <2>2, <3>1 DEF ImageInv, Changing
    <3> QED
      BY <1>1, <1>5, <3>2, <3>3 DEF AnswersInv
  <2>4. CASE seen' = frame /\ refused' = TRUE /\ work' = work
    <3>1. Executed' /\ ~Taken' /\ NothingToDo'
      BY <1>2, <1>5, <2>1, <2>2, <2>4 DEF Taken, NothingToDo
    <3>2. WorkInv'
      BY <3>1 DEF WorkInv
    <3>3. ImageInv'
      BY <1>1, <2>2, <3>1 DEF ImageInv, Changing
    <3> QED
      BY <1>1, <1>5, <3>2, <3>3 DEF AnswersInv
  <2>5. CASE /\ refused' = refused /\ seen' = frame
             /\ work' = IF step = "erase" THEN EraseJob ELSE WriteJob(FALSE)
    <3>1. Executed' /\ Taken' /\ wrFin' = FALSE
      BY <1>2, <1>5, <2>1, <2>2, <2>5 DEF Taken, NothingToDo
    <3>2. CASE step = "erase"
      <4>1. Erasing'
        BY <1>1, <2>5, <3>1, <3>2 DEF Erasing
      <4>2. WorkInv'
        BY <1>1, <2>1, <3>1, <3>2, <4>1 DEF WorkInv
      <4>3. ImageInv'
        BY <1>1, <2>1, <3>1, <3>2 DEF ImageInv, Changing
      <4> QED
        BY <1>1, <3>2, <4>2, <4>3 DEF AnswersInv
    <3>3. CASE step = "write"
      <4>1. work' = WriteJob(FALSE) /\ work' # NoWork
        BY <2>5, <3>3 DEF WriteJob, NoWork
      <4>2. Writing'
        BY <1>1, <1>3, <3>1, <3>3, <4>1 DEF Writing
      <4>3. WorkInv'
        BY <1>1, <2>1, <3>1, <3>3, <4>2 DEF WorkInv
      <4>4. ImageInv'
        BY <1>1, <2>1, <2>2, <3>1, <3>3, <4>1 DEF ImageInv, Changing
      <4> QED
        BY <1>1, <3>3, <4>3, <4>4 DEF AnswersInv
    <3> QED
      BY <1>5, <3>2, <3>3
  <2> QED
    BY <1>2, <1>5, <2>3, <2>4, <2>5
<1>6. CASE step \in {"erasing", "accepting", "writing"}
  <2>1. Executed /\ Executed' /\ refused' = refused /\ (Taken' <=> Taken)
    BY <1>1, <1>2, <1>6 DEF Executed, Taken
  <2>2. Len(frame) = 2
    <3>1. FrameOf(step, call) \in {<<CMD_READ_STATUS, 0>>, <<CMD_READ_INT, 0>>}
      BY <1>1, <1>6, FirstOfFrame
    <3>2. Len(FrameOf(step, call)) = 2
      BY <3>1
    <3> QED
      BY <1>1, <3>2
  <2>3. Len(got) \in {0, 1} /\ (seen' = frame <=> Len(got) = 1)
    BY <1>1, <2>2
  <2>4. ASSUME ~CmdBusy(got'[1])
        PROVE  work.accepted # FALSE \/ (got # <<>> /\ got'[1] = got[1])
    <3>1. CASE Len(got) = 0
      <4>1. got'[1] = Answer
        BY <1>1, <3>1
      <4>2. Answer = Status
        BY <1>1, <3>1 DEF Answer
      <4> QED
        BY <2>4, <4>1, <4>2, Flags
    <3>2. CASE Len(got) = 1
      <4>1. 1 \in 1 .. Len(got) /\ got # <<>>
        BY <3>2
      <4> QED
        BY <1>1, <4>1
    <3> QED
      BY <2>3, <3>1, <3>2
  <2>5. ASSUME ~Taken PROVE WorkInv'
    <3>1. NothingToDo
      BY <2>5 DEF WorkInv
    <3>2. NothingToDo'
      BY <1>2, <1>6, <3>1 DEF NothingToDo
    <3> QED
      BY <2>1, <2>5, <3>2 DEF WorkInv
  <2>6. ASSUME Taken, call.op = "erase" PROVE WorkInv'
    <3>1. Erasing /\ step = "erasing"
      BY <1>6, <2>6, ExecutedCall DEF WorkInv, Taken
    <3>2. UNCHANGED <<work, wrFin>>
      BY <1>2, <3>1
    <3>3. ASSUME ~CmdBusy(got'[1]) PROVE work = NoWork
      <4>1. CASE work.accepted # FALSE
        <5>1. EraseJob.accepted = FALSE
          BY Zenon DEF EraseJob
        <5> QED
          BY <3>1, <4>1, <5>1 DEF Erasing
      <4>2. CASE got # <<>> /\ got'[1] = got[1]
        <5>1. ~CmdBusy(got[1])
          BY <3>3, <4>2
        <5> QED
          BY <3>1, <4>2, <5>1 DEF Erasing
      <4> QED
        BY <2>4, <3>3, <4>1, <4>2
    <3>4. Erasing'
      BY <1>1, <3>1, <3>2, <3>3 DEF Erasing
    <3> QED
      BY <1>1, <2>1, <2>6, <3>4 DEF WorkInv
  <2>7. ASSUME Taken, call.op # "erase" PROVE WorkInv'
    <3>1. Writing /\ step \in {"accepting", "writing"}
      BY <1>6, <2>7, ExecutedCall DEF WorkInv, Taken
    <3>2. work' = work
      BY <1>2, <3>1
    <3>3. ~(step = "writing" /\ Len(got) = 2 /\ WrFin(got[2]))
      BY <2>3
    <3>4. Writing'
      <4>1. CASE step = "accepting"
        <5>1. wrFin' = wrFin
          BY <1>2, <4>1
        <5>2. ASSUME ~CmdBusy(got'[1]) PROVE work # WriteJob(FALSE)
          <6>1. CASE work.accepted # FALSE
            <7>1. WriteJob(FALSE).accepted = FALSE
              BY Zenon DEF WriteJob
            <7> QED
              BY <6>1, <7>1
          <6>2. CASE got # <<>> /\ got'[1] = got[1]
            <7>1. ~CmdBusy(got[1])
              BY <5>2, <6>2
            <7> QED
              BY <3>1, <4>1, <6>2, <7>1 DEF Writing
          <6> QED
            BY <2>4, <5>2, <6>1, <6>2
        <5> QED
          BY <1>1, <1>3, <3>1, <3>2, <3>3, <4>1, <5>1, <5>2 DEF Writing
      <4>2. CASE step = "writing" /\ Len(got) = 0
        <5>1. wrFin' = wrFin /\ Len(got') # 2
          BY <1>1, <1>2, <2>3, <4>2
        <5> QED
          BY <1>1, <1>3, <3>1, <3>2, <3>3, <4>2, <5>1 DEF Writing
      <4>3. CASE step = "writing" /\ Len(got) = 1
        <5>1. wrFin' = FALSE /\ Len(got') = 2 /\ got'[2] = Answer
          BY <1>1, <1>2, <2>3, <4>3
        <5>2. Answer = Interrupts
          <6>1. seen[1] = CMD_READ_INT
            BY <1>1, <4>3, CommandOfStep
          <6> QED
            BY <1>1, <4>3, <6>1 DEF Answer, CMD_READ_INT, CMD_READ_ID, CMD_DIG_READ
        <5>3. WrFin(got'[2]) <=> wrFin = TRUE
          BY <5>1, <5>2, Flags
        <5>4. wrFin \in BOOLEAN
          BY Flags
        <5>5. IF WrFin(got'[2]) THEN work = NoWork ELSE work # NoWork
          BY <3>1, <3>3, <5>3, <5>4 DEF Writing
        <5>6. work' = work /\ step' = "writing" /\ work # WriteJob(FALSE)
              /\ work \in {WriteJob(TRUE), WriteJob(FALSE), NoWork}
          BY <1>1, <3>1, <3>2, <4>3 DEF Writing
        <5> QED
          BY <1>3, <5>1, <5>5, <5>6 DEF Writing, NothingToDo
      <4> QED
        BY <2>3, <3>1, <4>1, <4>2, <4>3
    <3> QED
      BY <1>1, <2>1, <2>7, <3>4 DEF WorkInv
  <2>8. ImageInv'
    <3>1. work' = work
      BY <1>2, <1>6
    <3> QED
      BY <1>1, <2>1, <3>1 DEF ImageInv, Changing
  <2> QED
    BY <1>1, <1>6, <2>5, <2>6, <2>7, <2>8 DEF AnswersInv
<1>7. CASE step \notin {"erase", "write", "erasing", "accepting", "writing"}
  <2>1. ~Executed /\ ~Executed' /\ ~Taken /\ ~Taken'
    BY <1>1, <1>7 DEF Executed, Taken
  <2>2. NothingToDo'
    BY <1>2, <1>7, <2>1 DEF WorkInv, NothingToDo
  <2>3. call.op \notin {"erase", "write"}
    BY <1>1, <1>7, CallFields DEF StepsOf
  <2>4. WorkInv'
    BY <1>1, <2>1, <2>2, <2>3 DEF WorkInv
  <2>5. ImageInv'
    BY <1>1, <2>1 DEF ImageInv, Changing
  <2>6. ASSUME step = "id", NEW i \in 2 .. Len(got') PROVE got'[i] = IdBytes[i - 1]
    <3>1. CASE i \in 2 .. Len(got)
      BY <1>1, <2>6, <3>1 DEF AnswersInv
    <3>2. CASE i = Len(got) + 1
      <4>1. 1 \in 1 .. Len(got)
        BY <1>1, <3>2
      <4>2. seen[1] = CMD_READ_ID
        BY <1>1, <2>6, <4>1, CommandOfStep
      <4> QED
        BY <1>1, <3>2, <4>2 DEF Answer
    <3> QED
      BY <1>1, <3>1, <3>2
  <2>7. ASSUME step = "read", refused' = FALSE, NEW i \in 3 .. Len(got')
        PROVE  got'[i] = flash[(frame[2] + i - 3) % Pages]
    <3>1. CASE i \in 3 .. Len(got)
      BY <1>1, <1>2, <2>7, <3>1 DEF AnswersInv
    <3>2. CASE i = Len(got) + 1
      <4>1. 1 \in 1 .. Len(got) /\ 2 \in 1 .. Len(got) /\ Len(got) >= 2
        BY <1>1, <3>2
      <4>2. seen[1] = CMD_DIG_READ /\ seen[2] = frame[2] /\ Accessible
        BY <1>1, <1>2, <2>7, <4>1, CommandOfStep
      <4>3. Answer = flash[(seen[2] + i - 3) % Pages]
        BY <1>1, <3>2, <4>1, <4>2 DEF Answer, CMD_READ_ID, CMD_DIG_READ
      <4> QED
        BY <1>1, <3>2, <4>2, <4>3
    <3> QED
      BY <1>1, <3>1, <3>2
  <2>8. AnswersInv'
    <3>1. refused' \in BOOLEAN
      BY ShiftEffect DEF TypeInv
    <3>2. IdBytes' = IdBytes
      BY <1>1 DEF IdBytes
    <3> QED
      BY <1>1, <2>6, <2>7, <3>1, <3>2 DEF AnswersInv
  <2> QED
    BY <2>4, <2>5, <2>8
<1> QED
  BY <1>5, <1>6, <1>7

\* The chip only works on what the call in progress told it.
LEMMA Working ==
  ASSUME CallInv, WorkInv
  PROVE  /\ work.kind = "write" =>
              Taken /\ call.op = "write" /\ call \in Calls /\ Writing
              /\ work \in {WriteJob(TRUE), WriteJob(FALSE)}
         /\ work.kind = "erase" =>
              Taken /\ call.op = "erase" /\ call \in Calls /\ Erasing /\ work = EraseJob
<1>1. NoWork.kind = "none" /\ EraseJob.kind = "erase"
      /\ WriteJob(TRUE).kind = "write" /\ WriteJob(FALSE).kind = "write"
  BY DEF NoWork, EraseJob, WriteJob
<1>2. CASE ~Taken
  BY <1>1, <1>2 DEF WorkInv, NothingToDo
<1>3. CASE Taken
  <2>1. call \in Calls /\ call.op \in {"erase", "write"}
    BY <1>3, ExecutedCall DEF Taken
  <2>2. call.op = "erase" => Erasing /\ work \in {EraseJob, NoWork}
    BY <1>3 DEF WorkInv, Erasing
  <2>3. call.op = "write" => Writing /\ work \in {WriteJob(TRUE), WriteJob(FALSE), NoWork}
    BY <1>3 DEF WorkInv, Writing
  <2> QED
    BY <1>1, <1>3, <2>1, <2>2, <2>3
<1> QED
  BY <1>2, <1>3

LEMMA ChipAccepts ==
  ASSUME CallInv, WorkInv, ImageInv, AnswersInv, Accepts
  PROVE  WorkInv' /\ ImageInv' /\ AnswersInv'
<1>1. /\ work.kind = "write" /\ work.accepted = FALSE
      /\ work' = [work EXCEPT !.accepted = TRUE]
      /\ UNCHANGED <<step, call, frame, seen, got, chip, wrFin, flash, refused, image>>
  BY DEF Accepts, spiVars, driverVars, history
<1>2. Taken /\ call.op = "write" /\ Writing /\ work \in {WriteJob(TRUE), WriteJob(FALSE)}
  BY <1>1, Working
<1>3. Taken' /\ (Executed' <=> Executed)
  BY <1>1, <1>2 DEF Taken, Executed
<1>4. work' = WriteJob(TRUE)
  <2>1. \A a, b : [WriteJob(a) EXCEPT !.accepted = b] = WriteJob(b)
    BY DEF WriteJob
  <2>2. \A a : [WriteJob(a) EXCEPT !.accepted = TRUE] = WriteJob(TRUE)
    BY <2>1, Zenon
  <2> QED
    BY <1>1, <1>2, <2>2, Zenon
<1>5. WriteJob(TRUE)' = WriteJob(TRUE) /\ WriteJob(FALSE)' = WriteJob(FALSE)
  BY <1>1 DEF WriteJob
<1>6. /\ WriteJob(TRUE) # WriteJob(FALSE)
      /\ WriteJob(TRUE) # NoWork /\ WriteJob(FALSE) # NoWork
  <2>1. WriteJob(TRUE).accepted = TRUE /\ WriteJob(FALSE).accepted = FALSE
    BY Zenon DEF WriteJob
  <2>2. WriteJob(TRUE).kind # NoWork.kind /\ WriteJob(FALSE).kind # NoWork.kind
    BY DEF WriteJob, NoWork
  <2> QED
    BY <2>1, <2>2
<1>7. Writing'
  <2>1. wrFin = FALSE /\ ~(step = "writing" /\ Len(got) = 2 /\ WrFin(got[2]))
    BY <1>2, <1>6 DEF Writing, NothingToDo
  <2> QED
    BY <1>1, <1>4, <1>5, <1>6, <2>1 DEF Writing
<1>8. WorkInv'
  BY <1>1, <1>2, <1>3, <1>7 DEF WorkInv
<1>9. ImageInv'
  BY <1>1, <1>2, <1>3, <1>4, <1>6 DEF ImageInv, Changing
<1> QED
  BY <1>1, <1>8, <1>9 DEF AnswersInv, IdBytes

LEMMA ChipWriteEnds ==
  ASSUME CallInv, TypeInv, WorkInv, ImageInv, WriteEnds
  PROVE  TypeInv' /\ WorkInv' /\ ImageInv' /\ AnswersInv'
<1>1. /\ work.kind = "write"
      /\ flash' = [flash EXCEPT ![work.page] = IF flash[work.page] = Blank THEN work.data ELSE Mixed]
      /\ work' = NoWork /\ wrFin' = TRUE
      /\ UNCHANGED <<step, call, frame, seen, got, chip, power, macro, dev_id, refused, image>>
  BY DEF WriteEnds, spiVars, driverVars, history
<1>2. /\ Taken /\ call.op = "write" /\ call \in Calls /\ Writing
      /\ work \in {WriteJob(TRUE), WriteJob(FALSE)}
  BY <1>1, Working
<1>3. Taken' /\ (Executed' <=> Executed) /\ step \in {"write", "accepting", "writing"}
  BY <1>1, <1>2, ExecutedCall DEF Taken, Executed
<1>4. work.page = PageAddress(call.lba) /\ work.data = call.data /\ work # NoWork
  BY <1>1, <1>2 DEF WriteJob, NoWork
<1>5. WriteJob(FALSE)' # NoWork
  BY DEF WriteJob, NoWork
<1>6. Writing'
  <2>1. ~(step = "writing" /\ Len(got) = 2 /\ WrFin(got[2]))
    BY <1>2, <1>4 DEF Writing, NothingToDo
  <2> QED
    BY <1>1, <1>5, <2>1 DEF Writing
<1>7. WorkInv'
  BY <1>1, <1>2, <1>3, <1>6 DEF WorkInv
<1>8. flash \in [Page -> Data \cup {Blank, Mixed}] /\ call.data \in Data
  BY <1>2, CallFields DEF TypeInv
<1>9. ImageInv'
  <2> SUFFICES ASSUME NEW p \in Page, image[p] # Unknown
               PROVE  /\ ~Changing(p) => flash'[p] = image[p]
                      /\ Changing(p) /\ image[p] = Blank => flash'[p] = call.data
    BY <1>1, <1>2, <1>3 DEF ImageInv, Changing
  <2>1. CASE p = work.page
    <3>1. flash'[p] = IF flash[p] = Blank THEN call.data ELSE Mixed
      BY <1>1, <1>4, <1>8, <2>1
    <3>2. image[p] = Blank => flash[p] = Blank
      BY <1>2, <1>4, <2>1 DEF ImageInv, Changing
    <3> QED
      BY <1>2, <1>4, <2>1, <3>1, <3>2 DEF Changing
  <2>2. CASE p # work.page
    <3>1. flash'[p] = flash[p]
      BY <1>1, <1>8, <2>2
    <3> QED
      BY <1>2, <1>4, <2>2, <3>1 DEF ImageInv, Changing
  <2> QED
    BY <2>1, <2>2
<1>10. flash' \in [Page -> Data \cup {Blank, Mixed}]
  BY <1>1, <1>4, <1>8
<1>11. TypeInv'
  BY <1>1, <1>10 DEF TypeInv
<1> QED
  BY <1>1, <1>3, <1>7, <1>9, <1>11 DEF AnswersInv

LEMMA ChipEraseEnds ==
  ASSUME CallInv, TypeInv, WorkInv, ImageInv, EraseEnds
  PROVE  TypeInv' /\ WorkInv' /\ ImageInv' /\ AnswersInv'
<1>1. /\ work.kind = "erase"
      /\ flash' = [p \in Page |-> Blank] /\ work' = NoWork
      /\ UNCHANGED <<step, call, frame, seen, got, chip, power, macro, dev_id, wrFin, refused, image>>
  BY DEF EraseEnds, spiVars, driverVars, history
<1>2. Taken /\ call.op = "erase" /\ Erasing
  BY <1>1, Working
<1>3. Taken' /\ (Executed' <=> Executed) /\ step \in {"erase", "erasing"}
  BY <1>1, <1>2, ExecutedCall DEF Taken, Executed
<1>4. Erasing'
  BY <1>1, <1>2 DEF Erasing
<1>5. WorkInv'
  BY <1>1, <1>2, <1>3, <1>4 DEF WorkInv
<1>6. ImageInv'
  BY <1>1, <1>2, <1>3 DEF ImageInv, Changing
<1>7. TypeInv'
  BY <1>1 DEF TypeInv
<1> QED
  BY <1>1, <1>3, <1>5, <1>6, <1>7 DEF AnswersInv

\* The type of what the other steps change.
LEMMA TypeKept ==
  ASSUME TypeInv, UNCHANGED <<chip, dev_id, power, macro, wrFin, flash, image>>,
         refused' \in {refused, FALSE}
  PROVE  TypeInv'
<1>1. refused' \in BOOLEAN
  BY Flags
<1> QED
  BY <1>1 DEF TypeInv

LEMMA ChipStep ==
  SpiInv /\ CallInv /\ TypeInv /\ WorkInv /\ ImageInv /\ AnswersInv /\ [Next]_vars =>
    TypeInv' /\ WorkInv' /\ ImageInv' /\ AnswersInv'
<1> SUFFICES ASSUME SpiInv, CallInv, TypeInv, WorkInv, ImageInv, AnswersInv, [Next]_vars
             PROVE  TypeInv' /\ WorkInv' /\ ImageInv' /\ AnswersInv'
  OBVIOUS
<1>1. ASSUME UNCHANGED <<driverVars, frame, seen, got, chip, work, wrFin, flash, history>>
      PROVE  WorkInv' /\ ImageInv' /\ AnswersInv'
  BY <1>1, ChipKept DEF driverVars, history
<1>2. CASE (\E c \in Calls : Begin(c) \/ BeginInit(c)) \/ EmmcInit
  <2>1. /\ UNCHANGED <<dev_id, chip, power, macro, wrFin, flash, image>>
        /\ refused' \in {refused, FALSE}
    BY <1>2 DEF Begin, BeginInit, EmmcInit, chipVars, history
  <2> QED
    BY <1>2, <2>1, TypeKept, ChipBegins
<1>3. CASE Continue
  <2>1. UNCHANGED <<dev_id, chip, power, macro, wrFin, flash, image, refused>>
    BY <1>3 DEF Continue, chipVars, history
  <2> QED
    BY <1>3, <2>1, TypeKept, ChipContinue
<1>4. CASE (PushByte \/ PopByte) /\ UNCHANGED <<driverVars, pioVars, chipVars, history>>
  <2>1. UNCHANGED <<frame, seen, got, driverVars, chipVars, history>>
    BY <1>4 DEF PushByte, PopByte
  <2> QED
    BY <1>1, <2>1, TypeKept DEF driverVars, chipVars, history
<1>5. CASE Select \/ UNCHANGED vars
  <2>1. UNCHANGED <<frame, seen, got, driverVars, chipVars, history>>
    BY <1>5 DEF Select, SelectChip, vars, spiVars
  <2> QED
    BY <1>1, <2>1, TypeKept DEF driverVars, chipVars, history
<1>6. CASE Shift
  BY <1>6, ChipShift, ShiftEffect
<1>7. CASE PowersUp \/ MacroEnds
  <2>1. UNCHANGED <<driverVars, frame, seen, got, chip, work, wrFin, flash, history>>
    BY <1>7 DEF PowersUp, MacroEnds, spiVars
  <2>2. macro' \in BOOLEAN /\ power' \in {"down", "starting", "up"} /\ (macro' => power' = "up")
    <3>1. CASE PowersUp
      BY <3>1 DEF PowersUp
    <3>2. CASE MacroEnds
      BY <3>2 DEF MacroEnds, TypeInv
    <3> QED
      BY <1>7, <3>1, <3>2
  <2>3. TypeInv'
    BY <2>1, <2>2 DEF TypeInv, driverVars, history
  <2> QED
    BY <1>1, <2>1, <2>3
<1>8. CASE Accepts
  <2>1. UNCHANGED <<dev_id, chip, power, macro, wrFin, flash, image, refused>>
    BY <1>8 DEF Accepts, driverVars, history
  <2> QED
    BY <1>8, <2>1, TypeKept, ChipAccepts
<1> QED
  BY <1>2, <1>3, <1>4, <1>5, <1>6, <1>7, <1>8, ChipReturn, ChipWriteEnds, ChipEraseEnds
  DEF Next, Cpu, Chip
-----------------------------------------------------------------------------
(* Remainders *)

LEMMA Division ==
  ASSUME NEW x \in Nat, NEW m \in Nat \ {0}
  PROVE  /\ x \div m \in Nat /\ x % m \in 0 .. m - 1
         /\ x = m * (x \div m) + (x % m)
  OBVIOUS

\* Remainders are unique: the next multiple of m is m away.
LEMMA Larger ==
  ASSUME NEW m \in Nat \ {0}, NEW p \in Nat, NEW q \in Nat, p < q
  PROVE  m * p + m <= m * q
<1>1. PICK d \in Nat : q = p + 1 + d
  <2>1. q - p - 1 \in Nat /\ q = p + 1 + (q - p - 1)
    OBVIOUS
  <2> QED
    BY <2>1
<1>2. m * (p + 1 + d) = m * p + m + m * d
  OBVIOUS
<1>3. m * d \in Nat /\ m * p \in Nat
  OBVIOUS
<1> QED
  BY <1>1, <1>2, <1>3

LEMMA SameRemainder ==
  ASSUME NEW m \in Nat \ {0}, NEW p \in Nat, NEW q \in Nat,
         NEW r \in 0 .. m - 1, NEW s \in 0 .. m - 1, m * p + r = m * q + s
  PROVE  r = s
<1>0. m * p \in Nat /\ m * q \in Nat
  OBVIOUS
<1>1. ~(p < q)
  <2> SUFFICES ASSUME p < q PROVE FALSE
    OBVIOUS
  <2>1. m * p + m <= m * q
    BY Larger
  <2> QED
    BY <1>0, <2>1
<1>2. ~(q < p)
  <2> SUFFICES ASSUME q < p PROVE FALSE
    OBVIOUS
  <2>1. m * q + m <= m * p
    BY Larger
  <2> QED
    BY <1>0, <2>1
<1>3. p = q
  BY <1>1, <1>2
<1> QED
  BY <1>0, <1>3

LEMMA RemainderOfSum ==
  ASSUME NEW a \in Nat, NEW b \in Nat, NEW m \in Nat \ {0}
  PROVE  ((a % m) + b) % m = (a + b) % m
<1> DEFINE q == a \div m
           r == a % m
           u == (r + b) \div m
           v == (r + b) % m
           w == (a + b) \div m
           x == (a + b) % m
<1>1. q \in Nat /\ r \in 0 .. m - 1 /\ a = m * q + r
  BY Division
<1>2. r + b \in Nat /\ a + b \in Nat
  BY <1>1
<1>3. u \in Nat /\ v \in 0 .. m - 1 /\ r + b = m * u + v
  BY <1>2, Division
<1>4. w \in Nat /\ x \in 0 .. m - 1 /\ a + b = m * w + x
  BY <1>2, Division
<1> HIDE DEF q, r, u, v, w, x
<1>5. m * q \in Nat /\ m * u \in Nat /\ m * w \in Nat /\ m * (q + u) = m * q + m * u
  BY <1>1, <1>3, <1>4
<1>6. m * (q + u) + v = m * w + x
  BY <1>1, <1>3, <1>4, <1>5
<1>7. q + u \in Nat
  BY <1>1, <1>3
<1>8. v = x
  BY ONLY <1>3, <1>4, <1>6, <1>7, SameRemainder, m \in Nat \ {0}
<1> QED
  BY <1>8 DEF v, x, r
-----------------------------------------------------------------------------
(* The theorems *)

FifoInv == Len(txf) <= FifoDepth /\ Len(rxf) <= FifoDepth

Inv ==
  /\ SpiInv /\ FifoInv /\ CallInv /\ MemoryInv
  /\ TypeInv /\ WorkInv /\ ImageInv /\ AnswersInv

LEMMA FifoStep == SpiInv /\ FifoInv /\ [NextSpi]_spiVars => FifoInv'
<1> SUFFICES ASSUME SpiInv, FifoInv, [NextSpi]_spiVars PROVE FifoInv'
  OBVIOUS
<1>1. txf \in Seq(Byte) /\ rxf \in Seq(Byte) /\ FifoDepth \in Nat \ {0}
  BY FifoAssumption DEF SpiInv, SpiType
<1>2. CASE UNCHANGED smVars
  BY <1>2 DEF smVars, FifoInv
<1>3. CASE PushByte
  <2>1. Len(txf) < FifoDepth /\ txf' = Append(txf, buffer[pushed + 1]) /\ rxf' = rxf
    BY <1>3 DEF PushByte
  <2>2. Len(txf') = Len(txf) + 1
    BY <1>1, <2>1
  <2> QED
    BY <1>1, <2>1, <2>2 DEF FifoInv
<1>4. CASE PopByte
  <2>1. rxf # <<>> /\ rxf' = Tail(rxf) /\ txf' = txf
    BY <1>4 DEF PopByte
  <2>2. Len(rxf') <= Len(rxf)
    BY <1>1, <2>1
  <2> QED
    BY <1>1, <2>1, <2>2 DEF FifoInv
<1>5. CASE SelectChip
  <2>1. txf # <<>> /\ txf' = Tail(txf) /\ rxf' = rxf
    BY <1>5 DEF SelectChip
  <2>2. Len(txf') <= Len(txf)
    BY <1>1, <2>1
  <2> QED
    BY <1>1, <2>1, <2>2 DEF FifoInv
<1>6. ASSUME NEW answer \in Byte, ShiftByte(answer) PROVE FifoInv'
  <2>1. /\ Len(rxf) < FifoDepth /\ rxf' = Append(rxf, answer)
        /\ txf' = txf \/ (txf # <<>> /\ txf' = Tail(txf))
    BY <1>6 DEF ShiftByte
  <2>2. Len(txf') <= Len(txf) /\ Len(rxf') = Len(rxf) + 1
    BY <1>1, <2>1
  <2> QED
    BY <1>1, <2>1, <2>2 DEF FifoInv
<1>7. ASSUME NEW bytes \in Seq(Byte) \ {<<>>}, Transfer(bytes) PROVE FifoInv'
  BY <1>2, <1>7 DEF Transfer
<1>8. CASE UNCHANGED spiVars
  BY <1>2, <1>8 DEF spiVars
<1> QED
  BY <1>3, <1>4, <1>5, <1>6, <1>7, <1>8 DEF NextSpi

LEMMA InitInv == Init => Inv
<1> SUFFICES ASSUME Init PROVE Inv
  OBVIOUS
<1>1. InitSpi
  BY DEF Init
<1>2. SpiInv
  BY <1>1, SpiInit
<1>3. FifoInv /\ ~Transferring
  BY <1>1, FifoAssumption DEF InitSpi, FifoInv, Transferring
<1>4. CallInv
  BY <1>3 DEF Init, CallInv, Steps
<1>5. MemoryInv
  <2>1. 32 .. 31 = {}
    OBVIOUS
  <2>2. SpiAlone
    BY <2>1 DEF Init, SpiAlone
  <2> QED
    BY <2>2 DEF Init, MemoryInv, PanicOnlyAfterLeak
<1>6. TypeInv
  <2>1. flash \in [Page -> Data \cup {Blank, Mixed}] /\ image \in [Page -> Data \cup {Blank, Unknown}]
    BY DEF Init
  <2>2. macro \in BOOLEAN /\ wrFin \in BOOLEAN /\ refused \in BOOLEAN /\ macro = FALSE
    BY DEF Init
  <2>3. {macro, wrFin, refused} \subseteq BOOLEAN
    BY <2>2
  <2>4. /\ chip \in {"isd2100", "other", "absent"} /\ dev_id = 0 /\ power = "down"
    BY DEF Init
  <2> QED
    BY <2>1, <2>2, <2>3, <2>4 DEF TypeInv
<1>7. ~Executed /\ ~Taken
  BY DEF Init, Executed, Taken
<1>8. WorkInv
  BY <1>7 DEF Init, WorkInv, NothingToDo
<1>9. ImageInv
  BY DEF Init, ImageInv
<1>10. AnswersInv
  BY DEF Init, AnswersInv
<1> QED
  BY <1>2, <1>3, <1>4, <1>5, <1>6, <1>8, <1>9, <1>10 DEF Inv

LEMMA InvStep == Inv /\ [Next]_vars => Inv'
<1> SUFFICES ASSUME Inv, [Next]_vars PROVE Inv'
  OBVIOUS
<1>1. /\ SpiInv /\ FifoInv /\ CallInv /\ MemoryInv
      /\ TypeInv /\ WorkInv /\ ImageInv /\ AnswersInv
  BY DEF Inv
<1>2. [NextSpi]_spiVars
  BY <1>1, NextIsSpi
<1> QED
  BY <1>1, <1>2, SpiStep, FifoStep, CallStep, MemoryStep, ChipStep DEF Inv

LEMMA InvIsTypeOK == Inv => TypeOK
<1> SUFFICES ASSUME Inv PROVE TypeOK
  OBVIOUS
<1>1. /\ step \in Steps \cup {"idle", "panic", "dead"}
      /\ call \in Calls \cup {NoCall}
      /\ step \in Steps => call # NoCall
      /\ step = "idle" => call = NoCall /\ ~Transferring
  BY NoCallAssumption DEF Inv, CallInv, Steps
<1>2. 0 <= popped /\ popped <= pushed /\ pushed <= Len(buffer) /\ Len(osr) <= 1
  <2>1. SpiType /\ BytesCounted
    BY DEF Inv, SpiInv
  <2>2. \A s, o, t, p, r \in Nat : p + r = s => p <= s + o + t
    OBVIOUS
  <2>3. popped \in Nat /\ pushed \in Nat
    BY <2>1 DEF SpiType
  <2>4. popped <= Len(seen) + Len(osr) + Len(txf)
    <3>1. popped + Len(rxf) = Len(seen)
      BY <2>1 DEF BytesCounted
    <3> QED
      BY <2>1, <2>2, <2>3, <3>1, Lengths
  <2>5. popped <= pushed
    BY <2>1, <2>4 DEF BytesCounted
  <2>6. pushed <= Len(buffer)
    BY <2>1 DEF BytesCounted
  <2>7. Len(osr) <= 1
    <3>1. Len(osr) \in 0 .. 1
      BY <2>1 DEF BytesCounted
    <3> QED
      BY <3>1
  <2>8. 0 <= popped
    BY <2>3
  <2> QED
    BY <2>5, <2>6, <2>7, <2>8
<1>3. prog \in Slots \cup {NoOffset} /\ session \in {"closed", "open", "leaked"}
  BY DEF Inv, MemoryInv
<1>4. clkAt \in Slots \cup {NoOffset} /\ used \subseteq Slots
  <2>1. CASE SpiAlone
    BY <2>1 DEF SpiAlone, Slots
  <2>2. CASE ClockUnder \/ ClockAbove
    BY <2>2 DEF ClockUnder, ClockAbove, Slots
  <2> QED
    BY <2>1, <2>2 DEF Inv, MemoryInv
<1> QED
  BY <1>1, <1>2, <1>3, <1>4 DEF TypeOK, Inv, FifoInv, TypeInv

\* isd1200.c, nuvoton_spi.c and pio_spi.c: every variable keeps its type, the cursors of a
\* transfer and the FIFOs their bounds.
THEOREM TypesHold == Spec => []TypeOK
<1> QED
  BY InitInv, InvStep, InvIsTypeOK, PTL DEF Spec

\* The calls of isd1200.c make transfers of pio_spi.c, and nothing but transfers.
LEMMA CallsAreTransfers == Spec => SpecSpi
<1>1. Init => InitSpi
  BY DEF Init
<1>2. Inv /\ [Next]_vars => [NextSpi]_spiVars
  BY NextIsSpi DEF Inv
<1> QED
  BY <1>1, <1>2, InitInv, InvStep, PTL DEF Spec, SpecSpi

\* Every frame of isd1200.c reaches the chip as it was given, and its buffer holds the
\* chip's answers when nuvoton_spi_transfer returns.
THEOREM FramesAreFaithful == Spec => []TransferIsFaithful
<1> QED
  BY CallsAreTransfers, TransfersAreFaithful, PTL

\* Under the calls of main.c too, the loop of pio_spi.c and the state machine implement a
\* plain exchange of bytes.
THEOREM CallsExchange == Spec => ImplementsExchange
<1> QED
  BY CallsAreTransfers, TransfersExchange, PTL

\* No order of ISD1200_INIT, ISD1200_DEINIT and EMMC_INIT loads one program over another
\* that is in use (pio_add_program, pio_remove_program).
THEOREM ProgramsStayIntact == Spec => []ProgramsIntact
<1>1. Inv => ProgramsIntact
  <2> SUFFICES ASSUME Inv PROVE ProgramsIntact
    OBVIOUS
  <2>1. CASE SpiAlone
    BY <2>1, ChipAssumption DEF SpiAlone, ProgramsIntact
  <2>2. CASE (ClockUnder \/ ClockAbove) /\ Intact("cmd_or_dat", 0) /\ Intact("clk", clkAt)
    BY <2>2 DEF ClockUnder, ClockAbove, ProgramsIntact
  <2> QED
    BY <2>1, <2>2 DEF Inv, MemoryInv
<1> QED
  BY <1>1, InitInv, InvStep, PTL DEF Spec

\* pio_add_program finds no room only after an ISD1200_INIT that no ISD1200_DEINIT followed.
THEOREM PanicsOnlyAfterLeak == Spec => []PanicOnlyAfterLeak
<1>1. Inv => PanicOnlyAfterLeak
  BY DEF Inv, MemoryInv
<1> QED
  BY <1>1, InitInv, InvStep, PTL DEF Spec

\* An erase or a write that the chip took has happened when main.c answers it.
THEOREM AcknowledgedIsStored == Spec => []ChipHoldsWhatWasAcknowledged
<1>1. Inv => ChipHoldsWhatWasAcknowledged
  <2> SUFFICES ASSUME Inv, step = "idle" PROVE \A p \in Page : image[p] # Unknown => flash[p] = image[p]
    BY DEF ChipHoldsWhatWasAcknowledged
  <2>1. ImageInv /\ ~Taken
    BY DEF Inv, Taken, Executed
  <2> QED
    BY <2>1 DEF ImageInv, Changing
<1> QED
  BY <1>1, InitInv, InvStep, PTL DEF Spec

\* A call that returns has had its last transfer: only Return ends one.
LEMMA OnlyReturnEnds ==
  ASSUME Inv, [Next]_vars, call # NoCall, call' = NoCall
  PROVE  Return
<1>1. step # "idle"
  BY DEF Inv, CallInv
<1>2. call' # call
  OBVIOUS
<1>3. ~(\E c \in Calls : Begin(c) \/ BeginInit(c))
  BY <1>1 DEF Begin, BeginInit
<1>4. ~EmmcInit
  BY <1>1 DEF EmmcInit
<1>5. ~((PushByte \/ PopByte) /\ UNCHANGED <<driverVars, pioVars, chipVars, history>>)
  BY <1>2 DEF driverVars
<1>6. ~Continue
  BY <1>2 DEF Continue
<1>7. ~(Shift \/ Select)
  BY <1>2 DEF Shift, Select, driverVars
<1>8. ~(PowersUp \/ MacroEnds \/ Accepts \/ WriteEnds \/ EraseEnds)
  BY <1>2, ChipAlone DEF driverVars
<1>9. ~UNCHANGED vars
  BY <1>2 DEF vars, driverVars
<1> QED
  BY <1>3, <1>4, <1>5, <1>6, <1>7, <1>8, <1>9 DEF Next, Cpu, Chip

\* The byte of page i of a block read at address a.
LEMMA PageOfBlock ==
  ASSUME NEW lba \in Nat, NEW i \in 1 .. BlockPages
  PROVE  (BlockAddress(lba) + (i + 2) - 3) % Pages = (lba * BlockPages + i - 1) % Pages
<1>1. Pages \in Nat \ {0} /\ BlockPages \in Nat
  BY ChipAssumption
<1>2. lba * BlockPages \in Nat
  BY <1>1
<1>3. i - 1 \in Nat
  BY <1>1
<1>4. (((lba * BlockPages) % Pages) + (i - 1)) % Pages = (lba * BlockPages + (i - 1)) % Pages
  BY <1>1, <1>2, <1>3, RemainderOfSum
<1>5. BlockAddress(lba) \in Nat /\ BlockAddress(lba) = (lba * BlockPages) % Pages
  BY <1>1, <1>2 DEF BlockAddress
<1>6. \A a, n \in Nat : a + (n + 2) - 3 = a + (n - 1)
  OBVIOUS
<1> QED
  BY <1>1, <1>2, <1>3, <1>4, <1>5, <1>6

\* READ_FLASH of a block answers with the pages that writes of its page numbers reach,
\* whatever the calls before it were (isd1200_flash_read, isd1200_flash_write).
THEOREM ReadsReturnTheBlock == Spec => ReadReturnsBlock
<1>1. ASSUME Inv, [Next]_vars, call # NoCall, call' = NoCall, call.op = "read", ~refused,
             NEW i \in 1 .. BlockPages
      PROVE  buffer[i + 2] = flash[(call.lba * BlockPages + i - 1) % Pages]
  <2>1. Return
    BY <1>1, OnlyReturnEnds
  <2>2. step \in Steps /\ ~Transferring
    BY <2>1 DEF Return, Finish
  <2>3. /\ call \in Calls /\ step \in StepsOf[call.op] /\ frame = FrameOf(step, call)
        /\ buffer = got /\ Len(got) = Len(frame)
    BY <1>1, <2>2, Returned DEF Inv
  <2>4. step = "read" /\ call.lba \in Nat
    BY <1>1, <2>3, CallFields DEF StepsOf
  <2>5. Len(got) = BlockPages + 2 /\ frame[2] = BlockAddress(call.lba)
    BY <2>3, <2>4, ReadFrame
  <2>6. i + 2 \in 3 .. Len(got)
    BY <2>5, ChipAssumption
  <2>7. got[i + 2] = flash[(frame[2] + (i + 2) - 3) % Pages]
    BY <1>1, <2>4, <2>6 DEF Inv, AnswersInv
  <2> QED
    BY <2>3, <2>4, <2>5, <2>7, PageOfBlock
<1>2. Inv /\ [Next]_vars =>
        [call # NoCall /\ call' = NoCall /\ call.op = "read" /\ ~refused =>
           \A i \in 1 .. BlockPages :
             buffer[i + 2] = flash[(call.lba * BlockPages + i - 1) % Pages]]_vars
  BY <1>1
<1> QED
  BY <1>2, InitInv, InvStep, PTL DEF Spec, ReadReturnsBlock
=============================================================================
