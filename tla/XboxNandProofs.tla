--------------------------- MODULE XboxNandProofs ---------------------------
(***************************************************************************)
(* Theorems about XboxNand for every geometry, page size, poll budget and   *)
(* set of callers' requests.                                                *)
(***************************************************************************)
EXTENDS XboxNand, TLAPS

-----------------------------------------------------------------------------
(* Types *)

\* `lba << 9` in 32 bits always selects a sector there is.
LEMMA SectorOfType == \A lba \in Nat : SectorOf(lba) \in Sectors
  BY BlockAssumption DEF SectorOf, Sectors

\* What the registers can be given keeps their types.
LEMMA AddressType ==
  /\ \A lba \in Nat : PageAddress(lba) \in [page : Sectors, ptr : 1 .. PageWords + 1]
  /\ BufferStart \in [page : Sectors, ptr : 1 .. PageWords + 1]
  BY SectorOfType, PageAssumption, BlockAssumption
  DEF PageAddress, BufferStart, Sectors

LEMMA PageType ==
  /\ Blank \in Page
  /\ \A p, q \in Page : Overlay(p, q) \in Page
  BY DEF Blank, Overlay, Page

\* Every variable keeps its type.
LEMMA TypeInit == Init => TypeOK
<1> SUFFICES ASSUME Init PROVE TypeOK
  OBVIOUS
<1>1. 0 \in Sectors /\ 1 \in Words
  BY BlockAssumption, PageAssumption DEF Sectors, Words
<1>2. req \in [op : {"read", "write"}, lba : Nat, data : Page]
  BY PageType DEF Init
<1>3. reply \in [ret : {"none", "ok", "error"}, data : Page]
  BY PageType DEF Init, NoReply
<1>4. image \in [Sectors -> Page \cup {Unknown}] /\ flash \in [Sectors -> Page]
  BY PageType DEF Init
<1>5. timeout \in 0 .. Timeout
  BY DriverAssumption DEF Init
<1> QED
  BY <1>1, <1>2, <1>3, <1>4, <1>5, AddressType, PageType, DriverAssumption
  DEF Init, TypeOK, Polls

LEMMA TypeStep == TypeOK /\ [Next]_vars => TypeOK'
<1> SUFFICES ASSUME TypeOK, [Next]_vars PROVE TypeOK'
  OBVIOUS
<1> USE DEF TypeOK
<1>1. CASE GetFlashConfig
  BY <1>1, DriverAssumption DEF GetFlashConfig, CachedConfig, ctlVars, history
<1>2. ASSUME NEW r \in Requests, Call(r) PROVE TypeOK'
  <2>1. r \in [op : {"read", "write"}, lba : Nat, data : Page]
    BY DriverAssumption, PageType DEF Requests
  <2>2. image' \in [Sectors -> Page \cup {Unknown}]
    BY <1>2 DEF Call, NoteRequest
  <2>3. clean' \in BOOLEAN /\ refused' \in BOOLEAN /\ exact' \in BOOLEAN
    BY <1>2, Zenon DEF Call, NoteRequest
  <2>4. reply' \in [ret : {"none", "ok", "error"}, data : Page]
    BY <1>2, PageType DEF Call, NoReply
  <2> QED
    BY <1>2, <2>1, <2>2, <2>3, <2>4 DEF Call, ctlVars
<1>3. CASE ChooseStage
  BY <1>3 DEF ChooseStage, CachedConfig, ctlVars, history
<1>4. CASE ClearStatus
  BY <1>4 DEF ClearStatus, history
<1>5. CASE EnableErase
  <2>1. config' \in ConfigWord
    BY <1>5 DEF EnableErase, ConfigWord, WriteEnable
  <2> QED
    BY <1>5, <2>1 DEF EnableErase, history
<1>6. CASE WriteAddress
  BY <1>6, AddressType DEF WriteAddress, history, Polls
<1>7. CASE IssueCommand
  <2>1. job' \in JobType \cup {NoJob}
    BY <1>7 DEF IssueCommand, JobType
  <2> QED
    BY <1>7, <2>1 DEF IssueCommand, history, Polls
<1>8. CASE PollReady
  <2>1. reply' \in [ret : {"none", "ok", "error"}, data : Page]
    BY <1>8, PageType DEF PollReady, Ok
  <2>2. image' \in [Sectors -> Page \cup {Unknown}]
    BY <1>8, PageType DEF PollReady, NoteWritten
  <2>3. pc' \in {"idle", "config", "clear", "enable", "address", "command", "rewind",
                 "fetch", "store"} \cup Polls /\ stage' \in {"read", "erase", "program"}
    BY <1>8 DEF PollReady, Polls
  <2>4. timeout' \in 0 .. Timeout
    BY <1>8, DriverAssumption DEF PollReady
  <2> QED
    BY <1>8, <2>1, <2>2, <2>3, <2>4 DEF PollReady, ctlVars
<1>9. CASE PollBusy
  BY <1>9, DriverAssumption DEF PollBusy, ctlVars, history
<1>10. CASE PollTimeout
  <2>1. reply' \in [ret : {"none", "ok", "error"}, data : Page]
    BY <1>10, PageType DEF PollTimeout, Error
  <2> QED
    BY <1>10, <2>1, DriverAssumption DEF PollTimeout, ctlVars, history
<1>11. CASE Rewind
  BY <1>11, AddressType DEF Rewind, history
<1>12. PointAtNext \in [page : Sectors, ptr : 1 .. PageWords + 1]
  BY PageAssumption DEF PointAtNext, Words
<1>13. CASE FetchWord
  <2> DEFINE fetched == IF address.ptr \in Words THEN [got EXCEPT ![word] = pageBuf[address.ptr]]
                                                ELSE got
  <2>1. fetched \in Page
    BY DEF Page
  <2> HIDE DEF fetched
  <2>2. CASE word < PageWords
    <3>1. word' \in Words /\ got' = fetched /\ UNCHANGED <<pc, reply>>
      BY <1>13, <2>2, PageAssumption DEF FetchWord, Words, fetched
    <3> QED
      BY <1>13, <2>1, <3>1, <1>12 DEF FetchWord, history
  <2>3. CASE ~(word < PageWords)
    <3>1. word' = 1 /\ got' = Blank /\ pc' = "idle" /\ reply' = Ok(fetched)
      BY <1>13, <2>3 DEF FetchWord, fetched
    <3>2. reply' \in [ret : {"none", "ok", "error"}, data : Page] /\ word' \in Words
      BY <2>1, <3>1, PageAssumption DEF Ok, Words
    <3> QED
      BY <1>13, <3>1, <3>2, <1>12, PageType DEF FetchWord, history
  <2> QED
    BY <2>2, <2>3
<1>14. CASE StoreWord
  <2>1. pageBuf' \in Page
    BY <1>14 DEF StoreWord, Page
  <2>2. word' \in Words
    BY <1>14, PageAssumption DEF StoreWord, Words
  <2>3. pc' \in {"store", "filled"}
    BY <1>14 DEF StoreWord
  <2> QED
    BY <1>14, <2>1, <2>2, <2>3, <1>12 DEF StoreWord, history, Polls
<1>15. job # NoJob => job.kind \in {"read", "erase", "program"} /\ job.sector \in Sectors
                      /\ job.image \in Page
  BY DEF JobType
<1>16. CASE FinishRead
  <2>1. pageBuf' \in Page
    BY <1>15, <1>16 DEF FinishRead
  <2> QED
    BY <1>16, <2>1 DEF FinishRead, drvVars, history
<1>17. CASE FinishErase
  <2>1. flash' \in [Sectors -> Page]
    BY <1>17, PageType DEF FinishErase
  <2> QED
    BY <1>17, <2>1 DEF FinishErase, drvVars, history
<1>18. CASE FinishProgram
  <2>1. Overlay(flash[job.sector], job.image) \in Page
    BY <1>15, <1>18, PageType DEF FinishProgram
  <2>2. flash' \in [Sectors -> Page]
    BY <1>18, <2>1 DEF FinishProgram
  <2> QED
    BY <1>18, <2>2 DEF FinishProgram, drvVars, history
<1>19. CASE RefuseJob
  BY <1>19 DEF RefuseJob, drvVars
<1>20. CASE UNCHANGED vars
  BY <1>20 DEF vars, ctlVars, drvVars, history
<1> QED
  BY <1>1, <1>2, <1>3, <1>4, <1>5, <1>6, <1>7, <1>8, <1>9, <1>10, <1>11, <1>13, <1>14,
     <1>16, <1>17, <1>18, <1>19, <1>20
  DEF Next, Driver, Controller

\* Every variable keeps its type.
THEOREM TypeCorrect == Spec => []TypeOK
<1>1. Init => TypeOK
  BY TypeInit
<1>2. TypeOK /\ [Next]_vars => TypeOK'
  BY TypeStep
<1> QED
  BY <1>1, <1>2, PTL DEF Spec
-----------------------------------------------------------------------------
(* The traffic of one request *)

\* Which sequence of register accesses each step belongs to.
StageOfStep ==
  /\ pc = "config" => req.op = "write"
  /\ pc \notin {"idle", "config"} => (stage = "read" <=> req.op = "read")
  /\ pc = "enable" => stage = "erase"
  /\ pc \in {"store", "filled", "addressed"} => stage = "program"
  /\ pc = "fetch" => stage = "read"
  /\ pc = "rewind" => stage # "erase"

\* The driver has set what its next command will use, and each walk over the page
\* starts at its first word.
RegistersSet ==
  /\ pc \notin {"fetch", "store"} => word = 1
  /\ pc \in {"addressed", "command"} => address.page = SectorOf(req.lba)
  /\ pc \in {"fetch", "store"} => address.ptr = word

\* A clean request runs its job only in the wait that follows the command, and
\* gives it up only with an error.
JobsWaitedFor ==
  clean /\ job # NoJob => pc = "wait" \/ (pc = "idle" /\ reply.ret = "error")

\* The page buffer as the caller's page goes into it.
BufferLoaded ==
  clean =>
    /\ pc = "store" => \A w \in Words : w < word => pageBuf[w] = req.data[w]
    /\ stage = "program" /\ pc \in {"filled", "address", "addressed", "command"} =>
         pageBuf = req.data

\* The page buffer as the sector asked for comes out of it.
BufferFetched ==
  clean /\ ~refused /\ req.op = "read" =>
    /\ pc = "wait" /\ job = NoJob => pageBuf = flash[SectorOf(req.lba)]
    /\ pc \in {"rewind", "fetch"} => pageBuf = flash[SectorOf(req.lba)]
    /\ pc = "fetch" => \A w \in Words : w < word => got[w] = pageBuf[w]

\* The inductive invariant behind the three safety properties of one request.
TrafficInv ==
  /\ StageOfStep
  /\ RegistersSet
  /\ JobsWaitedFor
  /\ JobIsTheRequest
  /\ BufferLoaded
  /\ BufferFetched
  /\ ReadReturnsSector

LEMMA TrafficInit == Init => TrafficInv
  BY DEF Init, TrafficInv, StageOfStep, RegistersSet, JobsWaitedFor, JobIsTheRequest,
         BufferLoaded, BufferFetched, ReadReturnsSector, NoReply

LEMMA TrafficStep == TypeOK /\ TrafficInv /\ [Next]_vars => TrafficInv'
<1> SUFFICES ASSUME TypeOK, TrafficInv, [Next]_vars PROVE TrafficInv'
  OBVIOUS
<1> USE DEF TypeOK, TrafficInv, StageOfStep, RegistersSet, JobsWaitedFor, JobIsTheRequest,
            BufferLoaded, BufferFetched, ReadReturnsSector
<1>1. CASE GetFlashConfig
  BY <1>1 DEF GetFlashConfig, Polls, ctlVars, drvVars, history
<1>2. CASE ChooseStage
  BY <1>2 DEF ChooseStage, Polls, ctlVars, drvVars, history
<1>3. CASE ClearStatus
  BY <1>3 DEF ClearStatus, Polls, ctlVars, drvVars, history
<1>4. CASE EnableErase
  BY <1>4 DEF EnableErase, Polls, ctlVars, drvVars, history
<1>5. CASE WriteAddress
  BY <1>5 DEF WriteAddress, PageAddress, Polls, ctlVars, drvVars, history
<1>6. CASE IssueCommand
  BY <1>6, NoJobAssumption DEF IssueCommand, JobType, Polls, ctlVars, drvVars, history
<1>7. CASE PollReady
  BY <1>7 DEF PollReady, Ok, Polls, ctlVars, drvVars, history
<1>8. CASE PollBusy
  BY <1>8 DEF PollBusy, Polls, ctlVars, drvVars, history
<1>9. CASE PollTimeout
  BY <1>9 DEF PollTimeout, Error, Polls, ctlVars, drvVars, history
<1>10. CASE Rewind
  BY <1>10, PageAssumption DEF Rewind, BufferStart, Words, Polls, ctlVars, drvVars, history
<1>11. CASE FetchWord
  <2>1. address.ptr = word /\ stage = "read" /\ job' = job /\ flash' = flash
        /\ pageBuf' = pageBuf /\ req' = req
    BY <1>11 DEF FetchWord
  <2>2. word \in Words /\ got \in Page
    OBVIOUS
  <2>3. CASE word < PageWords
    <3>1. word' = word + 1 /\ got' = [got EXCEPT ![word] = pageBuf[word]] /\ pc' = "fetch"
          /\ reply' = reply /\ address'.ptr = word'
      BY <1>11, <2>1, <2>2, <2>3 DEF FetchWord, PointAtNext
    <3>2. \A w \in Words : w < word' => w < word \/ w = word
      BY <2>2, <3>1 DEF Words
    <3>3. BufferFetched'
      BY <1>11, <2>1, <2>2, <3>1, <3>2 DEF FetchWord, Page, history
    <3> QED
      BY <1>11, <2>1, <3>1, <3>3 DEF FetchWord, history, Polls
  <2>4. CASE ~(word < PageWords)
    <3>1. word' = 1 /\ pc' = "idle" /\ reply' = Ok([got EXCEPT ![word] = pageBuf[word]])
      BY <1>11, <2>1, <2>2, <2>4 DEF FetchWord
    <3>2. \A w \in Words : w < word \/ w = word
      BY <2>2, <2>4, PageAssumption DEF Words
    <3>3. clean /\ ~refused => [got EXCEPT ![word] = pageBuf[word]] = flash[SectorOf(req.lba)]
      <4> SUFFICES ASSUME clean, ~refused
                   PROVE [got EXCEPT ![word] = pageBuf[word]] = pageBuf
        BY <1>11, <2>1 DEF FetchWord
      <4>1. \A w \in Words : [got EXCEPT ![word] = pageBuf[word]][w] = pageBuf[w]
        BY <1>11, <2>1, <2>2, <3>2 DEF FetchWord, Page
      <4> QED
        BY <2>2, <4>1 DEF Page
    <3>4. ReadReturnsSector'
      BY <1>11, <2>1, <3>1, <3>3 DEF FetchWord, history, Ok
    <3> QED
      BY <1>11, <2>1, <3>1, <3>4 DEF FetchWord, history, Polls
  <2> QED
    BY <2>3, <2>4
<1>12. CASE StoreWord
  <2>1. address.ptr = word /\ stage = "program" /\ job' = job /\ flash' = flash
        /\ req' = req /\ reply' = reply /\ stage' = stage /\ clean' = clean
    BY <1>12 DEF StoreWord, history
  <2>2. word \in Words /\ pageBuf \in Page /\ req.data \in Page
    OBVIOUS
  <2>3. pageBuf' = [pageBuf EXCEPT ![word] = req.data[word]]
    BY <1>12, <2>1, <2>2 DEF StoreWord
  <2>4. CASE word < PageWords
    <3>1. word' = word + 1 /\ pc' = "store" /\ address'.ptr = word'
      BY <1>12, <2>1, <2>2, <2>4 DEF StoreWord, PointAtNext
    <3>2. \A w \in Words : w < word' => w < word \/ w = word
      BY <2>2, <3>1 DEF Words
    <3>3. BufferLoaded'
      BY <1>12, <2>1, <2>2, <2>3, <3>1, <3>2 DEF StoreWord, Page
    <3> QED
      BY <1>12, <2>1, <3>1, <3>3 DEF StoreWord, history, Polls
  <2>5. CASE ~(word < PageWords)
    <3>1. word' = 1 /\ pc' = "filled"
      BY <1>12, <2>2, <2>5 DEF StoreWord
    <3>2. \A w \in Words : w < word \/ w = word
      BY <2>2, <2>5, PageAssumption DEF Words
    <3>3. clean => pageBuf' = req.data
      <4> SUFFICES ASSUME clean PROVE pageBuf' = req.data
        OBVIOUS
      <4>1. \A w \in Words : pageBuf'[w] = req.data[w]
        BY <1>12, <2>2, <2>3, <3>2 DEF StoreWord, Page
      <4> QED
        BY <2>2, <2>3, <4>1 DEF Page
    <3> QED
      BY <1>12, <2>1, <3>1, <3>3 DEF StoreWord, history, Polls
  <2> QED
    BY <2>4, <2>5
<1>13. CASE FinishRead
  BY <1>13 DEF FinishRead, Polls, ctlVars, drvVars, history
<1>14. CASE FinishErase
  BY <1>14 DEF FinishErase, Polls, ctlVars, drvVars, history
<1>15. CASE FinishProgram
  BY <1>15 DEF FinishProgram, Polls, ctlVars, drvVars, history
<1>16. CASE RefuseJob
  BY <1>16 DEF RefuseJob, Polls, ctlVars, drvVars, history
<1>17. ASSUME NEW r \in Requests, Call(r) PROVE TrafficInv'
  BY <1>17 DEF Call, Requests, NoteRequest, NoReply, Polls, ctlVars
<1>18. CASE UNCHANGED vars
  BY <1>18 DEF vars, ctlVars, drvVars, history
<1> QED
  BY <1>1, <1>2, <1>3, <1>4, <1>5, <1>6, <1>7, <1>8, <1>9, <1>10, <1>11, <1>12, <1>13, <1>14, <1>15, <1>16, <1>17, <1>18 DEF Next, Driver, Controller

LEMMA Traffic == Spec => [](TypeOK /\ TrafficInv)
<1>1. Init => TypeOK /\ TrafficInv
  BY TypeInit, TrafficInit
<1>2. TypeOK /\ TrafficInv /\ [Next]_vars => (TypeOK /\ TrafficInv)'
  BY TypeStep, TrafficStep
<1> QED
  BY <1>1, <1>2, PTL DEF Spec

\* Unless an earlier request abandoned a job, the driver's three waits are enough
\* to keep every register access and every new request off a busy controller.
THEOREM ControllerIsNeverDisturbed == Spec => []WaitsCoverJobs
<1>1. TypeOK /\ TrafficInv => WaitsCoverJobs
  BY DEF TrafficInv, JobsWaitedFor, WaitsCoverJobs, Polls
<1> QED
  BY <1>1, Traffic, PTL

\* The controller only ever runs, for a clean request, the command that request
\* needs, on its sector, and programs exactly the caller's page.
THEOREM ControllerRunsTheRequest == Spec => []JobIsTheRequest
<1>1. TypeOK /\ TrafficInv => JobIsTheRequest
  BY DEF TrafficInv
<1> QED
  BY <1>1, Traffic, PTL

\* A clean read that returns 0 and was refused nothing hands over the sector.
THEOREM ReadIsFaithful == Spec => []ReadReturnsSector
<1>1. TypeOK /\ TrafficInv => ReadReturnsSector
  BY DEF TrafficInv
<1> QED
  BY <1>1, Traffic, PTL
=============================================================================
