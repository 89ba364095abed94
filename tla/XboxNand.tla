------------------------------ MODULE XboxNand ------------------------------
(***************************************************************************)
(* xbox.c: reading and writing NAND sectors through the registers of the    *)
(* console's flash controller, which both firmwares share line for line.    *)
(*                                                                         *)
(* The driver is one thread; every step of it is one call that reaches the  *)
(* controller (a register access, or the status poll of                     *)
(* xbox_nand_wait_ready), named by `pc`.  Between any two of them the       *)
(* controller may finish, or refuse, the job it was given.  A wait that     *)
(* runs out of polls answers an error and ABANDONS the job: it is still     *)
(* running when the caller's next request begins.                           *)
(***************************************************************************)
EXTENDS NandGeometry

CONSTANTS
  Timeout,   \* the poll budget passed to xbox_nand_wait_ready (0x1000)
  Lbas,      \* the sector numbers callers ask for
  Payloads,  \* the pages callers write
  Configs,   \* configuration words of the consoles that may be attached
  Probed,    \* what the cache may hold when the first request comes: {} if it
             \* was never filled, a configuration word, or FloatingBus if it was
             \* filled while no controller answered
  NoJob,     \* the controller is idle
  NoRequest, \* the driver is idle
  Unknown    \* the caller cannot tell what a sector holds

JobType == [kind : {"read", "erase", "program"}, sector : Sectors, image : Page]

ASSUME NoJobAssumption == NoJob \notin JobType

ASSUME DriverAssumption ==
  /\ Timeout \in Nat
  /\ Lbas \subseteq Nat
  /\ Payloads \subseteq Page
  /\ Configs \subseteq ConfigWord
  /\ Probed \subseteq ConfigWord

\* The erase block of every console divides the 2^23 sectors register 0x0C reaches.
ASSUME GeometryAssumption == \A c \in Configs : NSectors % SectorsInBlock(c) = 0

ASSUME NoRequestAssumption ==
  NoRequest \notin [op : {"read", "write"}, lba : Nat, data : Page]

ASSUME UnknownAssumption == Unknown \notin Page

VARIABLES
  \* the flash controller
  config,        \* register 0x00: the real geometry, and the write-enable bit
  job,           \* what it is busy with, or NoJob (register 0x04, bit 0)
  failed,        \* the error bits of register 0x04 are set
  address,       \* register 0x0C, as a page address and as a buffer pointer
  pageBuf,       \* its page buffer, reached word by word through register 0x10
  flash,         \* the NAND array
  \* the driver
  flash_config,  \* the static cache of xbox_get_flash_config
  pc,            \* the driver's next register access
  stage,         \* "read", "erase" or "program": which sequence pc belongs to
  req,           \* the request: op, lba and the page to write
  word,          \* how far `buffer` and `spare` have been walked
  timeout,       \* the polls left in the current wait, Timeout outside a wait
  got,           \* the words fetched so far, Blank outside the fetch loop
  reply,         \* the value returned for the last request
  \* history
  clean,         \* the request began on an idle controller
  refused,       \* the controller refused a job of this request
  image,         \* what the caller has been told each sector holds, or Unknown
  exact          \* the request writes the first sector of a block, or a blank one

ctlVars == <<config, job, failed, address, pageBuf, flash>>
drvVars == <<flash_config, pc, stage, req, word, timeout, got, reply>>
history == <<clean, refused, image, exact>>
vars == <<ctlVars, drvVars, history>>

Requests ==
  [op : {"read"}, lba : Lbas, data : {Blank}] \cup
  [op : {"write"}, lba : Lbas, data : Payloads]

NoReply == [ret |-> "none", data |-> Blank]
Error == [ret |-> "error", data |-> Blank]
Ok(data) == [ret |-> "ok", data |-> data]

Polls == {"filled", "addressed", "wait"}

\* `lba << 9` in register 0x0C is a page address; as a buffer pointer it is past
\* the buffer unless it is 0.
PageAddress(lba) ==
  [page |-> SectorOf(lba), ptr |-> IF SectorOf(lba) = 0 THEN 1 ELSE PageWords + 1]
BufferStart == [page |-> 0, ptr |-> 1]
PointAtNext ==
  [page |-> address.page, ptr |-> IF address.ptr \in Words THEN address.ptr + 1 ELSE address.ptr]

BlockLen == SectorsInBlock(config)

Init ==
  /\ config \in Configs
  /\ job = NoJob
  /\ failed = FALSE
  /\ address = BufferStart
  /\ pageBuf = Blank
  /\ flash = [s \in Sectors |-> Blank]
  /\ flash_config \in Probed
  /\ pc = "idle"
  /\ stage = "read"
  /\ req = [op |-> "read", lba |-> 0, data |-> Blank]
  /\ word = 1
  /\ timeout = Timeout
  /\ got = Blank
  /\ reply = NoReply
  /\ clean = TRUE
  /\ refused = FALSE
  /\ image = [s \in Sectors |-> Unknown]
  /\ exact = FALSE
-----------------------------------------------------------------------------
(* The driver *)

CachedConfig == IF flash_config = {} THEN config ELSE flash_config

\* xbox_get_flash_config on its own: the mount callbacks and GET_FLASH_CONFIG.
GetFlashConfig ==
  /\ pc = "idle"
  /\ flash_config' = CachedConfig
  /\ UNCHANGED <<ctlVars, pc, stage, req, word, timeout, got, reply, history>>

\* While a write is served the caller can count on nothing about the sectors it
\* is to change: the whole block for a first sector, else the sector itself.
NoteRequest(r) ==
  LET s == SectorOf(r.lba)
      first == FirstOfBlock(s, BlockLen)
      touched == IF first THEN BlockOf(s, BlockLen) ELSE {s}
  IN
  /\ clean' = (job = NoJob)
  /\ refused' = FALSE
  /\ exact' = (r.op = "write" /\ (first \/ image[s] = Blank))
  /\ image' = [t \in Sectors |-> IF r.op = "write" /\ t \in touched THEN Unknown
                                                                ELSE image[t]]

\* A write was acknowledged.  If it was clean and refused nothing, a first sector
\* leaves the rest of its block blank, and a blank sector takes the page as it is.
NoteWritten ==
  LET s == SectorOf(req.lba) IN
  image' = IF clean /\ ~refused /\ exact
           THEN [t \in Sectors |->
                   IF t = s THEN req.data
                   ELSE IF FirstOfBlock(s, BlockLen) /\ t \in BlockOf(s, BlockLen) THEN Blank
                   ELSE image[t]]
           ELSE image

Call(r) ==
  /\ pc = "idle"
  /\ req' = r
  /\ reply' = NoReply
  /\ IF r.op = "read" THEN stage' = "read" /\ pc' = "clear"
                      ELSE stage' = stage /\ pc' = "config"
  /\ NoteRequest(r)
  /\ UNCHANGED <<ctlVars, flash_config, word, timeout, got>>

\* Seeded faults: no block is ever erased; the geometry is ignored and 0x4000-byte
\* blocks are assumed.
ChooseStageNoErase ==
  /\ pc = "config"
  /\ flash_config' = CachedConfig
  /\ stage' = "program"
  /\ pc' = "clear"
  /\ UNCHANGED <<ctlVars, req, word, timeout, got, reply, history>>

ChooseStageSmallBlocks ==
  /\ pc = "config"
  /\ flash_config' = CachedConfig
  /\ stage' = IF FirstOfBlock(req.lba, SmallBlock) THEN "erase" ELSE "program"
  /\ pc' = "clear"
  /\ UNCHANGED <<ctlVars, req, word, timeout, got, reply, history>>

\* xbox_nand_write_block: the geometry decides whether the block is erased first.
ChooseStage ==
  /\ pc = "config"
  /\ flash_config' = CachedConfig
  /\ stage' = IF FirstOfBlock(req.lba, SectorsInBlock(CachedConfig))
              THEN "erase" ELSE "program"
  /\ pc' = "clear"
  /\ UNCHANGED <<ctlVars, req, word, timeout, got, reply, history>>

\* xbox_nand_clear_status writes the status it read back: the bits are
\* write-one-to-clear.  Nothing in the driver ever tests the error bits.
ClearStatus ==
  /\ pc = "clear"
  /\ failed' = FALSE
  /\ \/ stage = "read" /\ pc' = "address"
     \/ stage = "erase" /\ pc' = "enable"
     \/ stage = "program" /\ pc' = "rewind"
  /\ UNCHANGED <<config, job, address, pageBuf, flash, flash_config, stage, req, word, timeout, got, reply, history>>

\* Seeded fault: the erase is not enabled in register 0x00.
EnableEraseForgotten ==
  /\ pc = "enable"
  /\ pc' = "address"
  /\ UNCHANGED <<ctlVars, flash_config, stage, req, word, timeout, got, reply, history>>

EnableErase ==
  /\ pc = "enable"
  /\ config' = config \cup {WriteEnable}
  /\ pc' = "address"
  /\ UNCHANGED <<job, failed, address, pageBuf, flash, flash_config, stage, req, word,
                 timeout, got, reply, history>>

\* Seeded fault: register 0x0C is not set again before the program command.
WriteAddressOnlyOnce ==
  /\ pc = "address"
  /\ address' = IF stage = "program" THEN address ELSE PageAddress(req.lba)
  /\ pc' = IF stage = "program" THEN "addressed" ELSE "command"
  /\ UNCHANGED <<config, job, failed, pageBuf, flash, flash_config, stage, req, word,
                 timeout, got, reply, history>>

WriteAddress ==
  /\ pc = "address"
  /\ address' = PageAddress(req.lba)
  /\ pc' = IF stage = "program" THEN "addressed" ELSE "command"
  /\ UNCHANGED <<config, job, failed, pageBuf, flash, flash_config, stage, req, word,
                 timeout, got, reply, history>>

\* Seeded fault: the read loop starts without waiting for the page.
IssueCommandNoWait ==
  /\ pc = "command"
  /\ job' = IF job = NoJob /\ (stage = "erase" => WriteEnable \in config)
            THEN [kind |-> stage, sector |-> address.page, image |-> pageBuf]
            ELSE job
  /\ pc' = IF stage = "read" THEN "rewind" ELSE "wait"
  /\ UNCHANGED <<config, failed, address, pageBuf, flash, flash_config, stage, req, word,
                 timeout, got, reply, history>>

\* The last byte of the unlock sequence (0x03, or 0xAA 0x55 0x05, or 0x55 0xAA
\* 0x04) starts the job.  A command given to a busy controller is lost, and so is
\* an erase while it is not enabled.
IssueCommand ==
  /\ pc = "command"
  /\ job' = IF job = NoJob /\ (stage = "erase" => WriteEnable \in config)
            THEN [kind |-> stage, sector |-> address.page, image |-> pageBuf]
            ELSE job
  /\ pc' = "wait"
  /\ UNCHANGED <<config, failed, address, pageBuf, flash, flash_config, stage, req, word,
                 timeout, got, reply, history>>

\* xbox_nand_wait_ready saw status bit 0 clear.  Each wait is entered with the full
\* poll budget, which the previous one left behind for it.
PollReady ==
  /\ pc \in Polls
  /\ job = NoJob
  /\ \/ pc = "filled" /\ pc' = "address" /\ UNCHANGED <<stage, reply, image>>
     \/ pc = "addressed" /\ pc' = "command" /\ UNCHANGED <<stage, reply, image>>
     \/ /\ pc = "wait" /\ stage = "read"
        /\ pc' = "rewind" /\ UNCHANGED <<stage, reply, image>>
     \/ /\ pc = "wait" /\ stage = "erase"
        /\ pc' = "clear" /\ stage' = "program" /\ UNCHANGED <<reply, image>>
     \/ /\ pc = "wait" /\ stage = "program"
        /\ pc' = "idle" /\ reply' = Ok(Blank) /\ NoteWritten /\ UNCHANGED stage
  /\ timeout' = Timeout
  /\ UNCHANGED <<ctlVars, flash_config, req, word, got, clean, refused, exact>>

\* Seeded faults: the budget is decremented before it is tested, so 0 wraps; the
\* budget is not decremented at all.
PollBusyWraps ==
  /\ pc \in Polls
  /\ job # NoJob
  /\ timeout' = timeout - 1
  /\ UNCHANGED <<ctlVars, flash_config, pc, stage, req, word, got, reply, history>>

PollBusyForEver ==
  /\ pc \in Polls
  /\ job # NoJob
  /\ timeout > 0
  /\ timeout' = timeout
  /\ UNCHANGED <<ctlVars, flash_config, pc, stage, req, word, got, reply, history>>

\* It saw busy and has polls left.
PollBusy ==
  /\ pc \in Polls
  /\ job # NoJob
  /\ timeout > 0
  /\ timeout' = timeout - 1
  /\ UNCHANGED <<ctlVars, flash_config, pc, stage, req, word, got, reply, history>>

\* Seeded fault: the read goes on although its wait ran out.
PollTimeoutIgnored ==
  /\ pc \in Polls
  /\ job # NoJob
  /\ timeout = 0
  /\ IF stage = "read" THEN pc' = "rewind" /\ UNCHANGED reply
                       ELSE pc' = "idle" /\ reply' = Error
  /\ timeout' = Timeout
  /\ UNCHANGED <<ctlVars, flash_config, stage, req, word, got, history>>

\* It saw busy on its last poll: the request fails with 0x8000 | status, and the
\* job is left running.
PollTimeout ==
  /\ pc \in Polls
  /\ job # NoJob
  /\ timeout = 0
  /\ reply' = Error
  /\ pc' = "idle"
  /\ timeout' = Timeout
  /\ UNCHANGED <<ctlVars, flash_config, stage, req, word, got, history>>

\* Seeded fault: the buffer pointer is left where the page address put it.
RewindForgotten ==
  /\ pc = "rewind"
  /\ pc' = IF stage = "read" THEN "fetch" ELSE "store"
  /\ UNCHANGED <<ctlVars, flash_config, stage, req, word, timeout, got, reply, history>>

Rewind ==
  /\ pc = "rewind"
  /\ address' = BufferStart
  /\ pc' = IF stage = "read" THEN "fetch" ELSE "store"
  /\ UNCHANGED <<config, job, failed, pageBuf, flash, flash_config, stage, req, word,
                 timeout, got, reply, history>>

\* Command 0x00 brings the word under the pointer to register 0x10.
FetchWord ==
  LET fetched == IF address.ptr \in Words THEN [got EXCEPT ![word] = pageBuf[address.ptr]]
                                          ELSE got
  IN
  /\ pc = "fetch"
  /\ address' = PointAtNext
  /\ IF word < PageWords
     THEN word' = word + 1 /\ got' = fetched /\ UNCHANGED <<pc, reply>>
     ELSE word' = 1 /\ got' = Blank /\ pc' = "idle" /\ reply' = Ok(fetched)
  /\ UNCHANGED <<config, job, failed, pageBuf, flash, flash_config, stage, req, timeout, history>>

\* Command 0x01 puts register 0x10 into the word under the pointer.
StoreWord ==
  /\ pc = "store"
  /\ pageBuf' = IF address.ptr \in Words
                THEN [pageBuf EXCEPT ![address.ptr] = req.data[word]] ELSE pageBuf
  /\ address' = PointAtNext
  /\ IF word < PageWords
     THEN word' = word + 1 /\ UNCHANGED pc
     ELSE word' = 1 /\ pc' = "filled"
  /\ UNCHANGED <<config, job, failed, flash, flash_config, stage, req, timeout, got,
                 reply, history>>

Driver ==
  \/ ChooseStage \/ ClearStatus \/ EnableErase \/ WriteAddress \/ IssueCommand
  \/ PollReady \/ PollBusy \/ PollTimeout \/ Rewind \/ FetchWord \/ StoreWord
-----------------------------------------------------------------------------
(* The flash controller *)

FinishRead ==
  /\ job # NoJob /\ job.kind = "read"
  /\ pageBuf' = flash[job.sector]
  /\ job' = NoJob
  /\ UNCHANGED <<config, failed, address, flash, drvVars, history>>

FinishErase ==
  /\ job # NoJob /\ job.kind = "erase"
  /\ flash' = [s \in Sectors |-> IF s \in BlockOf(job.sector, BlockLen) THEN Blank ELSE flash[s]]
  /\ job' = NoJob
  /\ UNCHANGED <<config, failed, address, pageBuf, drvVars, history>>

FinishProgram ==
  /\ job # NoJob /\ job.kind = "program"
  /\ flash' = [flash EXCEPT ![job.sector] = Overlay(flash[job.sector], job.image)]
  /\ job' = NoJob
  /\ UNCHANGED <<config, failed, address, pageBuf, drvVars, history>>

\* The job ends with an error bit in the status register and nothing done.
RefuseJob ==
  /\ job # NoJob
  /\ job' = NoJob
  /\ failed' = TRUE
  /\ refused' = TRUE
  /\ UNCHANGED <<config, address, pageBuf, flash, drvVars, clean, image, exact>>

Controller == FinishRead \/ FinishErase \/ FinishProgram \/ RefuseJob
-----------------------------------------------------------------------------
Next == GetFlashConfig \/ (\E r \in Requests : Call(r)) \/ Driver \/ Controller

Spec == Init /\ [][Next]_vars

\* The driver is straight-line code with bounded loops, so it keeps stepping;
\* nothing is assumed of the controller, which may stay busy for ever.
FairSpec == Spec /\ WF_vars(Driver)
-----------------------------------------------------------------------------
(* Properties *)

\* Every variable keeps its type.
TypeOK ==
  /\ config \in ConfigWord
  /\ job \in JobType \cup {NoJob}
  /\ failed \in BOOLEAN
  /\ address \in [page : Sectors, ptr : 1 .. PageWords + 1]
  /\ pageBuf \in Page
  /\ flash \in [Sectors -> Page]
  /\ flash_config \in ConfigWord
  /\ pc \in {"idle", "config", "clear", "enable", "address", "command", "rewind",
             "fetch", "store"} \cup Polls
  /\ stage \in {"read", "erase", "program"}
  /\ req \in [op : {"read", "write"}, lba : Nat, data : Page]
  /\ word \in Words
  /\ timeout \in 0 .. Timeout
  /\ got \in Page
  /\ reply \in [ret : {"none", "ok", "error"}, data : Page]
  /\ clean \in BOOLEAN
  /\ refused \in BOOLEAN
  /\ image \in [Sectors -> Page \cup {Unknown}]
  /\ exact \in BOOLEAN

\* The waits are placed so that, unless an earlier request abandoned a job, no
\* register is ever touched and no new request accepted behind the controller's
\* back: outside its three waits the driver always finds the controller idle,
\* or the request has ended in an error.
WaitsCoverJobs ==
  clean /\ job # NoJob => pc \in Polls \/ (pc = "idle" /\ reply.ret = "error")

\* Whatever runs on the controller for a clean request is what that request
\* asked for: the right command, the right sector and, for a program, a page
\* buffer that holds exactly the caller's page.
JobIsTheRequest ==
  clean /\ job # NoJob =>
    /\ job.kind = stage
    /\ job.sector = SectorOf(req.lba)
    /\ job.kind = "program" => job.image = req.data

\* xbox_nand_read_block returned 0: if the request was clean and the controller
\* refused nothing, the words handed over are those of the sector asked for.
ReadReturnsSector ==
  reply.ret = "ok" /\ req.op = "read" /\ pc = "idle" /\ clean /\ ~refused =>
    reply.data = flash[SectorOf(req.lba)]

\* An image written block by block, each block's first sector first and every
\* other sector once, is what the flash holds: at every moment each sector whose
\* write was acknowledged still holds its page, and each sector of the block not
\* yet written is blank, whatever else has been read, written or abandoned since.
AcknowledgedImageIsStored ==
  \A s \in Sectors : image[s] # Unknown => flash[s] = image[s]

\* A clean write of a first sector programs onto a block that is blank
\* throughout.
ProgramsOntoBlank ==
  /\ job # NoJob /\ clean /\ ~refused
  /\ job.kind = "program" /\ FirstOfBlock(job.sector, BlockLen)
  => \A s \in BlockOf(job.sector, BlockLen) : flash[s] = Blank

\* The block size that the cache gives is the console's or a multiple of it.
CacheNotFiner == flash_config # {} => SectorsInBlock(flash_config) % BlockLen = 0

\* Whatever geometry is cached, a step alters no sector outside the erase block of the
\* request being served, and a step that sets bits in a sector erases its whole block; a
\* sector that a read asked for is altered only by a job an earlier request abandoned.
\* That a write which starts no block spares its neighbours takes a cache that was not
\* filled by a console with smaller blocks.
AltersTheAddressedBlock ==
  \A s \in Sectors : flash'[s] # flash[s] =>
    /\ clean => req.op = "write" /\ s \in BlockOf(SectorOf(req.lba), BlockLen)
    /\ clean /\ CacheNotFiner /\ ~FirstOfBlock(SectorOf(req.lba), BlockLen) =>
          s = SectorOf(req.lba)
    /\ ~(\A w \in Words : flash'[s][w] \subseteq flash[s][w]) =>
          \A t \in BlockOf(s, BlockLen) : flash'[t] = Blank

OnlyTheAddressedBlock == [][AltersTheAddressedBlock]_vars

\* Every request is answered, even if the controller never becomes ready again.
EveryRequestAnswered == pc # "idle" ~> pc = "idle"

(***************************************************************************)
(* What the comments on these functions say of them (Pi4Flasher/src/xbox.h). *)
(***************************************************************************)

\* "@return 0 on success, error code on failure": when 0 is returned the
\* controller's error bits are clear.
ZeroMeansNoError == reply.ret = "ok" /\ pc = "idle" => ~failed

\* "Write a block to NAND flash (automatically erases if needed)": after a clean
\* write that was refused nothing and returned 0, the sector holds the page.
ErasesIfNeeded ==
  reply.ret = "ok" /\ req.op = "write" /\ pc = "idle" /\ clean /\ ~refused =>
    flash[SectorOf(req.lba)] = req.data

(***************************************************************************)
(* The registers, the waits and the page buffer implement the plain store.   *)
(***************************************************************************)
JobsStillOwed ==
  LET erases == IF pc = "config" THEN FirstOfBlock(req.lba, BlockLen)
                                 ELSE stage = "erase" /\ pc # "wait"
      issued == pc \in {"wait", "fetch"} \/ (pc = "rewind" /\ stage = "read")
  IN  IF pc = "idle" THEN <<>>
      ELSE IF erases THEN <<"erase", "program">>
      ELSE IF pc = "config" \/ stage = "erase" THEN <<"program">>
      ELSE IF issued THEN <<>>
      ELSE <<stage>>

Store == INSTANCE FlashStore WITH
  store <- flash, blockLen <- BlockLen, job <- job, clean <- clean, refused <- refused,
  request <- IF pc = "idle" THEN NoRequest ELSE req,
  owed <- JobsStillOwed

\* xbox.c implements FlashStore for consoles whose geometry the cache reflects.
ImplementsFlashStore == Store!Spec
=============================================================================
