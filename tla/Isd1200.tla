------------------------------- MODULE Isd1200 -------------------------------
(***************************************************************************)
(* isd1200.c and nuvoton_spi.c: the ISD2100 voice chip, driven through a      *)
(* program in PIO1, whose 32 instructions and state machine 0 the driver of   *)
(* the eMMC uses too.                                                       *)
(*                                                                         *)
(* A call of main.c is a sequence of transfers (PioSpi); `step` names the one *)
(* in progress.  The chip acts on a command at the end of its frame and then   *)
(* works at its own pace, which the driver learns by polling.  Addresses and   *)
(* pages of data are one byte each here.                                      *)
(***************************************************************************)
EXTENDS PioSpi, FiniteSetsExt

CONSTANTS
  Pages,       \* 16-byte pages in the memory the address reaches: 2^20
  BlockPages,  \* pages in a 512-byte block of READ_FLASH: 32
  PageLbas, BlockLbas,  \* page and block numbers callers pass
  Data,        \* pages callers write
  Mixed,       \* a page that was programmed without having been erased
  NoCall,      \* no call is in progress
  NoOffset,    \* not loaded
  Unknown      \* the host cannot tell what a page holds

ASSUME ChipAssumption ==
  /\ Pages \in Nat \ {0} /\ BlockPages \in Nat \ {0}
  /\ PageLbas \cup BlockLbas \subseteq Nat
  /\ Byte \subseteq Nat /\ 0 .. 255 \cup 0 .. Pages - 1 \subseteq Byte
  /\ Data \subseteq Byte /\ Mixed \in Byte \ Data
  /\ Unknown \notin Byte /\ NoOffset \notin Nat

VARIABLES
  \* main.c and isd1200.c
  call,      \* the call in progress, or NoCall
  step,      \* its transfer, "idle", "panic", or "dead" in undefined behaviour
  prog,      \* nuvoton_spi.prog, or NoOffset while nuvoton_spi.pio is still NULL
  dev_id,
  \* PIO1
  used,      \* the instructions allocated
  memory,    \* what its instruction memory holds: an instruction of a program
  sm0,       \* what state machine 0 was set up to run, and where
  clkAt,     \* clk_program_offset of sd_init, NoOffset until `added`
  \* the chip
  chip,      \* "isd2100", "other" (of another id) or "absent"
  power,     \* "down", "starting" or "up"
  macro,     \* a voice prompt or macro is being played
  work,      \* the digital command it carries out, or NoWork
  wrFin,     \* WR_FIN of its interrupt status
  flash,
  \* history
  session,   \* "open" from ISD1200_INIT to the end of ISD1200_DEINIT, "closed" before and
             \* after, and "leaked" once an ISD1200_INIT has come while it was open
  refused,   \* the chip ignored a command of this call
  image      \* what the host has been told each page holds, or Unknown

driverVars == <<call, step, prog, dev_id>>
pioVars == <<used, memory, sm0, clkAt>>
chipVars == <<chip, power, macro, work, wrFin, flash>>
history == <<session, refused, image>>
vars == <<spiVars, driverVars, pioVars, chipVars, history>>

Page == 0 .. Pages - 1
Blank == 255
NoWork == [kind |-> "none", page |-> 0, data |-> 0, accepted |-> TRUE]

Calls ==
  [op : {"init", "deinit", "erase", "play", "reset", "emmc_init"}, lba : {0}, data : {0}]
    \cup [op : {"read"}, lba : BlockLbas, data : {0}]
    \cup [op : {"write"}, lba : PageLbas, data : Data]

ASSUME NoCallAssumption == NoCall \notin Calls
-----------------------------------------------------------------------------
(* The instruction memory of PIO1 *)

Slots == 0 .. 31
Length == [spi |-> 10, cmd_or_dat |-> 19, clk |-> 2]
Span(p, at) == at .. at + Length[p] - 1

\* pio_add_program looks for room from the top down; the program of the eMMC's
\* command and data lines has to be at 0.  Without room the firmware panics.
Places(p, taken) ==
  LET free == {at \in IF p = "cmd_or_dat" THEN {0} ELSE Slots :
                 Span(p, at) \subseteq Slots \ taken}
  IN  IF free = {} THEN {} ELSE {Max(free)}

Load(mem, p, at) ==
  [s \in Slots |-> IF s \in Span(p, at) THEN <<p, s - at>> ELSE mem[s]]

Intact(p, at) == \A s \in Span(p, at) : memory[s] = <<p, s - at>>

\* State machine 0 runs the SPI program.
SpiRuns == sm0.prog = "spi" /\ Intact("spi", sm0.at)
-----------------------------------------------------------------------------
(* Commands and registers *)

CMD_PWR_UP == 16
CMD_PWR_DN == 18
CMD_RESET == 20
CMD_CHIP_ERASE == 38
CMD_READ_STATUS == 64
CMD_READ_INT == 70
CMD_READ_ID == 72
CMD_DIG_WRITE == 160
CMD_DIG_READ == 162
CMD_PLAY_VP == 166
DEV_ID == 16

STATUS_CMD_BSY == 1
STATUS_VM_BSY == 4
STATUS_DBUF_RDY == 64
INTERRUPT_STATUS_WR_FIN == 32

IsSet(flag, byte) == (byte \div flag) % 2 = 1
CmdBusy(status) == IsSet(STATUS_CMD_BSY, status)
VmBusy(status) == IsSet(STATUS_VM_BSY, status)
DbufReady(status) == IsSet(STATUS_DBUF_RDY, status)
WrFin(interrupts) == IsSet(INTERRUPT_STATUS_WR_FIN, interrupts)

BlockAddressInPages(lba) == lba % Pages  \* Seeded fault: page * 16 for a block too

\* page * 16 and page * 512 are cut to the 24 bits of an address.
PageAddress(lba) == lba % Pages
BlockAddress(lba) == (lba * BlockPages) % Pages

Zeros(n) == [i \in 1 .. n |-> 0]

Steps == {"power_up", "starting", "macro", "id", "power_down", "reset", "play", "read",
          "erase", "erasing", "write", "accepting", "writing"}

\* The frame of a step.
FrameOf(s, c) ==
  IF s = "read" THEN <<CMD_DIG_READ, BlockAddress(c.lba)>> \o Zeros(BlockPages)
  ELSE IF s = "write" THEN <<CMD_DIG_WRITE, PageAddress(c.lba), c.data>>
  ELSE IF s \in {"starting", "macro", "erasing", "accepting"} THEN <<CMD_READ_STATUS, 0>>
  ELSE [power_up |-> <<CMD_PWR_UP>>, id |-> <<CMD_READ_ID, 0, 0, 0, 0>>,
        power_down |-> <<CMD_PWR_DN>>, reset |-> <<CMD_RESET>>,
        play |-> <<CMD_PLAY_VP, 0, 0>>, erase |-> <<CMD_CHIP_ERASE, 1>>,
        writing |-> <<CMD_READ_INT, 0>>][s]

Init ==
  /\ InitSpi
  /\ call = NoCall /\ step = "idle" /\ prog = NoOffset /\ dev_id = 0
  /\ used = {} /\ memory = [s \in Slots |-> <<"none", 0>>]
  /\ sm0 = [prog |-> "none", at |-> 0] /\ clkAt = NoOffset
  /\ chip \in {"isd2100", "other", "absent"}
  /\ power = "down" /\ macro = FALSE /\ work = NoWork /\ wrFin = FALSE
  /\ flash = [p \in Page |-> Mixed]
  /\ session = "closed" /\ refused = FALSE /\ image = [p \in Page |-> Unknown]
-----------------------------------------------------------------------------
(* The driver *)

Enter(s, c) == step' = s /\ Transfer(FrameOf(s, c))

\* Seeded fault: the instructions are not freed.
ReleaseForgotten == UNCHANGED used

\* nuvoton_spi_deinit; state machine 0 is not stopped.
Release == used' = used \ Span("spi", prog)

\* What main.c's handler starts with.  nuvoton_spi_transfer before any init goes
\* through a NULL pointer.
First == [deinit |-> "power_down", erase |-> "erase", play |-> "play", reset |-> "reset",
          read |-> "read", write |-> "write"]

\* Seeded fault: isd1200_deinit frees the program without powering the chip down.
BeginWithoutPowerDown(c) ==
  /\ step = "idle" /\ c.op \in DOMAIN First
  /\ refused' = FALSE
  /\ IF c.op = "deinit" /\ prog # NoOffset
     THEN /\ Release /\ session' = IF session = "open" THEN "closed" ELSE session
          /\ UNCHANGED <<call, step, spiVars>>
     ELSE /\ call' = c /\ UNCHANGED <<used, session>>
          /\ IF prog = NoOffset THEN step' = "dead" /\ UNCHANGED spiVars
                                ELSE Enter(First[c.op], c)
  /\ UNCHANGED <<prog, dev_id, memory, sm0, clkAt, chipVars, image>>

Begin(c) ==
  /\ step = "idle" /\ c.op \in DOMAIN First
  /\ call' = c
  /\ refused' = FALSE
  /\ IF prog = NoOffset THEN step' = "dead" /\ UNCHANGED spiVars
                        ELSE Enter(First[c.op], c)
  /\ UNCHANGED <<prog, dev_id, pioVars, chipVars, session, image>>

\* isd1200_init: nuvoton_spi_init adds the program and sets state machine 0 up, which
\* empties its FIFOs; then power_up.
BeginInit(c) ==
  /\ step = "idle" /\ c.op = "init"
  /\ call' = c
  /\ refused' = FALSE
  /\ session' = IF session = "closed" THEN "open" ELSE "leaked"
  /\ \/ /\ Places("spi", used) = {}
        /\ step' = "panic"
        /\ UNCHANGED <<prog, used, memory, sm0, spiVars>>
     \/ \E at \in Places("spi", used) :
          /\ prog' = at
          /\ used' = used \cup Span("spi", at)
          /\ memory' = Load(memory, "spi", at)
          /\ sm0' = [prog |-> "spi", at |-> at]
          /\ Enter("power_up", c)
  /\ UNCHANGED <<dev_id, clkAt, chipVars, image>>

\* The part of sd_init that is about PIO1: it adds its two programs once, and sets up
\* state machine 0 for the clock each time.
EmmcInit ==
  LET withLines == used \cup Span("cmd_or_dat", 0)
      places == IF Places("cmd_or_dat", used) = {} THEN {} ELSE Places("clk", withLines)
  IN
  /\ step = "idle"
  /\ \/ /\ clkAt = NoOffset /\ places = {}
        /\ step' = "panic"
        /\ UNCHANGED pioVars
     \/ /\ clkAt = NoOffset
        /\ \E at \in places :
             /\ used' = withLines \cup Span("clk", at)
             /\ memory' = Load(Load(memory, "cmd_or_dat", 0), "clk", at)
             /\ sm0' = [prog |-> "clk", at |-> at]
             /\ clkAt' = at
        /\ UNCHANGED step
     \/ /\ clkAt # NoOffset
        /\ sm0' = [prog |-> "clk", at |-> clkAt]
        /\ UNCHANGED <<step, used, memory, clkAt>>
  /\ UNCHANGED <<spiVars, call, prog, dev_id, chipVars, history>>

\* Seeded faults: WR_FIN is looked for in the wrong byte; it is not waited for.
WrFinInStatus(answers) == WrFin(answers[1])
AfterAcceptedIdle == "idle"

\* isd1200_read_interrupt_status returns buf[1], isd1200_read_status buf[0].
WrFinSeen(answers) == WrFin(answers[2])

\* A page has been taken in; it is programmed when WR_FIN is set.
AfterAccepted == "writing"

\* The answers a step is repeated for.
Again(s, answers) ==
  \/ s = "starting" /\ ~DbufReady(answers[1])
  \/ s = "macro" /\ VmBusy(answers[1])
  \/ s \in {"erasing", "accepting"} /\ CmdBusy(answers[1])
  \/ s = "writing" /\ ~WrFinSeen(answers)

\* The steps that are not the last of their call, and the ones that follow.
Followed == {"power_up", "starting", "macro", "erase", "write", "accepting"}
Successor == [power_up |-> "starting", starting |-> "macro", macro |-> "id",
              erase |-> "erasing", write |-> "accepting", accepting |-> AfterAccepted]

\* What a step's answers lead to: the next step, or "idle", the end of the call.
After(s, answers) ==
  IF Again(s, answers) THEN s ELSE IF s \in Followed THEN Successor[s] ELSE "idle"

\* The transfer of a step has returned and the call goes on.
Continue ==
  /\ step \in Steps /\ ~Transferring
  /\ After(step, buffer) # "idle"
  /\ Enter(After(step, buffer), call)
  /\ UNCHANGED <<call, prog, dev_id, pioVars, chipVars, history>>

\* What the host may conclude from the answer.
NoteAnswer ==
  image' = [p \in Page |->
    IF refused \/ call.op \notin {"erase", "write"} THEN image[p]
    ELSE IF call.op = "erase" THEN Blank
    ELSE IF p # PageAddress(call.lba) THEN image[p]
    ELSE IF image[p] = Blank THEN call.data ELSE Unknown]

\* The call returns and the host is answered.
Finish ==
  /\ step \in Steps
  /\ After(step, buffer) = "idle"
  /\ step' = "idle" /\ call' = NoCall
  /\ dev_id' = IF step = "id" /\ SubSeq(buffer, 2, 4) = <<3, 239, 32>> THEN buffer[5] ELSE dev_id
  /\ \/ call.op = "deinit" /\ Release
        /\ session' = IF session = "open" THEN "closed" ELSE session
     \/ call.op # "deinit" /\ UNCHANGED <<used, session>>
  /\ NoteAnswer
  /\ UNCHANGED <<spiVars, prog, memory, sm0, clkAt, chipVars, refused>>

ReturnEarly == Finish   \* Seeded fault: the last transfer of a call is not waited for

Return == ~Transferring /\ Finish

Cpu ==
  \/ (PushByte \/ PopByte) /\ UNCHANGED <<driverVars, pioVars, chipVars, history>>
  \/ Continue \/ Return
-----------------------------------------------------------------------------
(* The chip *)

Status ==
  (IF work.accepted THEN 0 ELSE STATUS_CMD_BSY) + (IF macro THEN STATUS_VM_BSY ELSE 0)
    + (IF power = "up" THEN STATUS_DBUF_RDY ELSE 0)

Interrupts == IF wrFin THEN INTERRUPT_STATUS_WR_FIN ELSE 0

IdBytes == IF chip = "isd2100" THEN <<3, 239, 32, DEV_ID>> ELSE <<3, 200, 32, 0>>

\* Digital commands are taken for sure only while it is up and plays nothing.
Accessible == power = "up" /\ ~macro

\* The byte it answers while it receives the next one: its status, then its interrupt
\* status, its id, or the pages of a block.
Answer ==
  LET n == Len(seen) + 1 IN
  IF n = 1 THEN Status
  ELSE IF seen[1] = CMD_READ_ID THEN IdBytes[n - 1]
  ELSE IF seen[1] = CMD_DIG_READ /\ n > 2
       THEN IF Accessible THEN flash[(seen[2] + n - 3) % Pages] ELSE 0
  ELSE Interrupts

\* A digital command comes; the driver never looks at CMD_ERR.
Start(job) ==
  \E takes \in IF Accessible THEN {TRUE} ELSE IF power = "up" THEN BOOLEAN ELSE {FALSE} :
    IF takes THEN work' = job /\ UNCHANGED refused
             ELSE refused' = TRUE /\ UNCHANGED work

PowerOff == power' = "down" /\ macro' = FALSE

\* What it does at the end of a frame.
Execute(bytes) ==
  LET cmd == bytes[1] IN
  \/ /\ cmd = CMD_PWR_UP
     /\ power' = IF power = "down" THEN "starting" ELSE power
     /\ UNCHANGED <<macro, work, wrFin, refused>>
  \/ /\ cmd = CMD_PWR_DN
     /\ PowerOff /\ UNCHANGED <<work, wrFin, refused>>
  \/ /\ cmd = CMD_RESET
     /\ PowerOff /\ work' = NoWork /\ wrFin' = FALSE /\ UNCHANGED refused
  \/ /\ cmd = CMD_READ_INT
     /\ wrFin' = FALSE /\ UNCHANGED <<power, macro, work, refused>>
  \/ /\ cmd = CMD_PLAY_VP
     /\ macro' = (power = "up") /\ UNCHANGED <<power, work, wrFin, refused>>
  \/ /\ cmd = CMD_CHIP_ERASE
     /\ Start([kind |-> "erase", page |-> 0, data |-> 0, accepted |-> FALSE])
     /\ UNCHANGED <<power, macro, wrFin>>
  \/ /\ cmd = CMD_DIG_WRITE
     /\ Start([kind |-> "write", page |-> bytes[2], data |-> bytes[3], accepted |-> FALSE])
     /\ UNCHANGED <<power, macro, wrFin>>
  \/ /\ cmd \in {CMD_READ_STATUS, CMD_READ_ID, CMD_DIG_READ}
     /\ refused' = (refused \/ (cmd = CMD_DIG_READ /\ ~Accessible))
     /\ UNCHANGED <<power, macro, work, wrFin>>

\* A byte is shifted while the SPI program runs and the chip holds its RDY line high;
\* with no chip there the line stays low.
Shift ==
  /\ SpiRuns /\ chip # "absent"
  /\ ShiftByte(Answer)
  /\ IF osr' = <<>>
     THEN Execute(seen')
     ELSE /\ refused' = (refused \/ (Len(seen) > 1 /\ seen[1] = CMD_DIG_READ /\ ~Accessible))
          /\ UNCHANGED <<power, macro, work, wrFin>>
  /\ UNCHANGED <<driverVars, pioVars, chip, flash, session, image>>

Select ==
  /\ SpiRuns
  /\ SelectChip
  /\ UNCHANGED <<driverVars, pioVars, chipVars, history>>

\* It has powered up, and perhaps plays its power-up macro.
PowersUp ==
  /\ power = "starting"
  /\ power' = "up" /\ macro' \in BOOLEAN
  /\ UNCHANGED <<spiVars, driverVars, pioVars, chip, work, wrFin, flash, history>>

MacroEnds ==
  /\ macro
  /\ macro' = FALSE
  /\ UNCHANGED <<spiVars, driverVars, pioVars, chip, power, work, wrFin, flash, history>>

\* A page to be written is taken in before it is programmed.
Accepts ==
  /\ work.kind = "write" /\ ~work.accepted
  /\ work' = [work EXCEPT !.accepted = TRUE]
  /\ UNCHANGED <<spiVars, driverVars, pioVars, chip, power, macro, wrFin, flash, history>>

WriteEnds ==
  /\ work.kind = "write" /\ work.accepted
  /\ flash' = [flash EXCEPT ![work.page] = IF flash[work.page] = Blank THEN work.data ELSE Mixed]
  /\ work' = NoWork /\ wrFin' = TRUE
  /\ UNCHANGED <<spiVars, driverVars, pioVars, chip, power, macro, history>>

EraseEnds ==
  /\ work.kind = "erase"
  /\ flash' = [p \in Page |-> Blank]
  /\ work' = NoWork
  /\ UNCHANGED <<spiVars, driverVars, pioVars, chip, power, macro, wrFin, history>>

Chip == Select \/ Shift \/ PowersUp \/ MacroEnds \/ Accepts \/ WriteEnds \/ EraseEnds
-----------------------------------------------------------------------------
Next == (\E c \in Calls : Begin(c) \/ BeginInit(c)) \/ EmmcInit \/ Cpu \/ Chip

Spec == Init /\ [][Next]_vars

\* The CPU and the state machine keep going, and a chip that is there ends what it does.
FairSpec ==
  /\ Spec
  /\ WF_vars(Cpu) /\ WF_vars(Select) /\ WF_vars(Shift)
  /\ WF_vars(PowersUp) /\ WF_vars(MacroEnds) /\ WF_vars(Accepts)
  /\ WF_vars(WriteEnds) /\ WF_vars(EraseEnds)
-----------------------------------------------------------------------------
(* Properties *)

\* Every variable keeps its type, the cursors and FIFOs their bounds.
TypeOK ==
  /\ step \in Steps \cup {"idle", "panic", "dead"}
  /\ call \in Calls \cup {NoCall}
  /\ step \in Steps => call # NoCall
  /\ step = "idle" => call = NoCall /\ ~Transferring
  /\ 0 <= popped /\ popped <= pushed /\ pushed <= Len(buffer)
  /\ Len(txf) <= FifoDepth /\ Len(rxf) <= FifoDepth /\ Len(osr) <= 1
  /\ prog \in Slots \cup {NoOffset} /\ clkAt \in Slots \cup {NoOffset}
  /\ dev_id \in {0, DEV_ID}
  /\ used \subseteq Slots
  /\ power \in {"down", "starting", "up"} /\ (macro => power = "up")
  /\ flash \in [Page -> Data \cup {Blank, Mixed}]
  /\ image \in [Page -> Data \cup {Blank, Unknown}]
  /\ {macro, wrFin, refused} \subseteq BOOLEAN /\ session \in {"closed", "open", "leaked"}

\* No order of ISD1200_INIT, ISD1200_DEINIT (repeated ones too, which free memory that
\* may be somebody else's by then) and EMMC_INIT lets one driver's program be loaded over
\* the other's, or over the one a state machine is running.
ProgramsIntact ==
  /\ clkAt # NoOffset => Intact("cmd_or_dat", 0) /\ Intact("clk", clkAt)
  /\ sm0.prog # "none" => Intact(sm0.prog, sm0.at)

\* PIO1 runs out of room only if an ISD1200_INIT, also one that answered 1, was not
\* followed by an ISD1200_DEINIT before the next.
PanicOnlyAfterLeak == step = "panic" => session = "leaked"

\* Between calls each page holds what the host was told: an erase or a write that the
\* chip took has happened, not just begun, when it is acknowledged.
ChipHoldsWhatWasAcknowledged ==
  step = "idle" => \A p \in Page : image[p] # Unknown => flash[p] = image[p]

\* READ_FLASH of a block returns the pages that writes of its page numbers reach.
ReadReturnsBlock ==
  [][call # NoCall /\ call' = NoCall /\ call.op = "read" /\ ~refused =>
       \A i \in 1 .. BlockPages :
         buffer[i + 2] = flash[(call.lba * BlockPages + i - 1) % Pages]]_vars

\* Every call returns, unless there is no chip, or EMMC_INIT has taken the state machine
\* (or ISD1200_INIT never set it up), or the chip refused a page, or PIO1 is full.
EveryCallReturns ==
  call # NoCall ~>
    \/ call = NoCall
    \/ chip = "absent" \/ ~SpiRuns
    \/ refused /\ call.op = "write"
    \/ step = "panic"
=============================================================================
