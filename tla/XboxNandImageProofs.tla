------------------------ MODULE XboxNandImageProofs ------------------------
(***************************************************************************)
(* What a sequence of requests leaves in the NAND array: which sectors a    *)
(* request can alter, whether an image written sector by sector is the one  *)
(* the flash holds, and that the driver implements FlashStore.              *)
(*                                                                         *)
(* The first holds whatever the cache may hold when the first request       *)
(* comes; the other two depend on the block size the driver computes, and   *)
(* assume that no other console's was cached.                               *)
(***************************************************************************)
EXTENDS XboxNandProofs, Sequences

\* The cache was never filled, or it was filled by this console.
CacheIsTrue ==
  \A c \in Configs, p \in Probed : p # {} => SectorsInBlock(p) = SectorsInBlock(c)

-----------------------------------------------------------------------------
(* Block arithmetic *)

LEMMA DivisibleChain ==
  \A a \in Nat, m, n \in Nat \ {0} : a % m = 0 /\ m % n = 0 => a % n = 0
<1> SUFFICES ASSUME NEW a \in Nat, NEW m \in Nat \ {0}, NEW n \in Nat \ {0},
                    a % m = 0, m % n = 0
             PROVE  a % n = 0
  OBVIOUS
<1>1. PICK p \in Nat : a = m * p
  <2>1. a = m * (a \div m) /\ a \div m \in Nat
    OBVIOUS
  <2> QED
    BY <2>1
<1>2. PICK q \in Nat : m = n * q
  <2>1. m = n * (m \div n) /\ m \div n \in Nat
    OBVIOUS
  <2> QED
    BY <2>1
<1>3. a = n * (q * p) /\ q * p \in Nat
  BY <1>1, <1>2
<1> QED
  BY <1>3

\* Dropping the top bits of lba keeps its place in a block.
LEMMA WrapKeepsPlace ==
  \A lba \in Nat, n \in Nat \ {0} :
    NSectors % n = 0 => (FirstOfBlock(SectorOf(lba), n) <=> FirstOfBlock(lba, n))
<1> SUFFICES ASSUME NEW lba \in Nat, NEW n \in Nat \ {0}, NSectors % n = 0
             PROVE  (lba % NSectors) % n = 0 <=> lba % n = 0
  BY DEF FirstOfBlock, SectorOf
<1>1. PICK q \in Nat : NSectors = n * q
  <2>1. NSectors = n * (NSectors \div n) /\ NSectors \div n \in Nat
    BY BlockAssumption
  <2> QED
    BY <2>1
<1>2. PICK d \in Nat, r \in Nat : lba = NSectors * d + r /\ r = lba % NSectors
  <2>1. lba = NSectors * (lba \div NSectors) + (lba % NSectors) /\ lba \div NSectors \in Nat
        /\ lba % NSectors \in Nat
    BY BlockAssumption
  <2> QED
    BY <2>1
<1>3. PICK e \in Nat, m \in Nat : r = n * e + m /\ m = r % n /\ m < n
  <2>1. r = n * (r \div n) + (r % n) /\ r \div n \in Nat /\ r % n \in Nat /\ r % n < n
    OBVIOUS
  <2> QED
    BY <2>1
<1>4. PICK k \in Nat : lba = n * k + m
  <2>1. \A x, y, z, w \in Nat : (x * y) * z + (x * w + m) = x * (y * z + w) + m
    OBVIOUS
  <2>2. lba = (n * q) * d + (n * e + m)
    BY <1>1, <1>2, <1>3
  <2>3. (n * q) * d + (n * e + m) = n * (q * d + e) + m
    BY <2>1
  <2>4. q * d + e \in Nat
    OBVIOUS
  <2> QED
    BY <2>2, <2>3, <2>4
<1>5. lba % n = m
  <2>1. \A x, y, z \in Nat : x = n * y + z /\ z < n => x % n = z
    OBVIOUS
  <2> QED
    BY <1>3, <1>4, <2>1
<1> QED
  BY <1>2, <1>3, <1>5

\* A block is the block of each of its sectors.
LEMMA BlockFacts ==
  ASSUME NEW n \in Nat \ {0}, NEW t \in Sectors
  PROVE  /\ t \in BlockOf(t, n)
         /\ \A s \in BlockOf(t, n) : s \in Sectors /\ BlockOf(s, n) = BlockOf(t, n)
  BY DEF BlockOf

\* There are three block sizes, and enabling erases changes none of them.
LEMMA BlockSizes ==
  \A fc : /\ SectorsInBlock(fc) \in {SmallBlock, LargeBlock, HugeBlock}
          /\ SectorsInBlock(fc) \in Nat \ {0}
          /\ SectorsInBlock(fc \cup {WriteEnable}) = SectorsInBlock(fc)
<1> TAKE fc
<1>1. /\ (fc \cup {WriteEnable}) \cap {17, 18} = fc \cap {17, 18}
      /\ (fc \cup {WriteEnable}) \cap {4, 5} = fc \cap {4, 5}
  BY DEF WriteEnable
<1> QED
  BY <1>1, BlockAssumption DEF SectorsInBlock

-----------------------------------------------------------------------------
(* The sectors a request can alter *)

StartsBlock == FirstOfBlock(SectorOf(req.lba), BlockLen)
OwnBlock == BlockOf(SectorOf(req.lba), BlockLen)

\* The console's blocks divide its sectors.
GeometryKept ==
  /\ BlockLen \in {SmallBlock, LargeBlock, HugeBlock}
  /\ NSectors % BlockLen = 0

\* A request goes on to erase only once the erase is enabled and, unless the cache
\* understates the block size, only if it is for the first sector of a block.
EraseFromTheStart ==
  pc \notin {"idle", "config"} /\ stage = "erase" =>
    /\ CacheNotFiner => StartsBlock
    /\ pc \in {"address", "command", "wait"} => WriteEnable \in config

\* The jobs of a clean request, also when it has been given up.
JobsOfWrites ==
  clean /\ job # NoJob =>
    /\ job.kind # "read" => req.op = "write"
    /\ job.kind = "erase" /\ CacheNotFiner => StartsBlock

AlterInv == GeometryKept /\ EraseFromTheStart /\ JobsOfWrites

LEMMA AlterInit == Init => AlterInv
<1> SUFFICES ASSUME Init PROVE AlterInv
  OBVIOUS
<1>1. GeometryKept
  BY GeometryAssumption, BlockSizes DEF Init, GeometryKept, BlockLen
<1> QED
  BY <1>1 DEF Init, AlterInv, EraseFromTheStart, JobsOfWrites

\* What ChooseStage learns from the cache is true of the sector register 0x0C will
\* be given.
LEMMA CachedStartIsStart ==
  ASSUME TypeOK, GeometryKept, CacheNotFiner,
         FirstOfBlock(req.lba, SectorsInBlock(CachedConfig))
  PROVE  StartsBlock
<1>1. req.lba \in Nat
  BY DEF TypeOK
<1>2. BlockLen \in Nat \ {0} /\ SectorsInBlock(CachedConfig) \in Nat \ {0}
  BY BlockSizes DEF BlockLen
<1>3. SectorsInBlock(CachedConfig) % BlockLen = 0
  BY <1>2 DEF CacheNotFiner, CachedConfig, BlockLen
<1>4. FirstOfBlock(req.lba, BlockLen)
  BY <1>1, <1>2, <1>3, DivisibleChain DEF FirstOfBlock
<1> QED
  BY <1>1, <1>2, <1>4, WrapKeepsPlace DEF StartsBlock, GeometryKept

\* Only the erase-enable bit of register 0x00 ever changes, and what the cache holds
\* when the first request comes it keeps.
LEMMA GeometryStep ==
  GeometryKept /\ [Next]_vars =>
    GeometryKept' /\ BlockLen' = BlockLen /\ (CacheNotFiner' <=> CacheNotFiner)
<1> SUFFICES ASSUME GeometryKept, [Next]_vars
             PROVE  GeometryKept' /\ BlockLen' = BlockLen /\ (CacheNotFiner' <=> CacheNotFiner)
  OBVIOUS
<1>1. config' = config \/ config' = config \cup {WriteEnable}
  BY DEF Next, Driver, Controller, GetFlashConfig, Call, ChooseStage, ClearStatus, EnableErase,
         WriteAddress, IssueCommand, PollReady, PollBusy, PollTimeout, Rewind, FetchWord,
         StoreWord, FinishRead, FinishErase, FinishProgram, RefuseJob, vars, ctlVars
<1>2. BlockLen' = BlockLen
  BY <1>1, BlockSizes DEF BlockLen
<1>3. flash_config' = flash_config \/ flash_config' = CachedConfig
  BY DEF Next, Driver, Controller, GetFlashConfig, Call, ChooseStage, ClearStatus, EnableErase,
         WriteAddress, IssueCommand, PollReady, PollBusy, PollTimeout, Rewind, FetchWord,
         StoreWord, FinishRead, FinishErase, FinishProgram, RefuseJob, vars, drvVars
<1>4. BlockLen % BlockLen = 0
  BY BlockSizes DEF BlockLen
<1> QED
  BY <1>2, <1>3, <1>4 DEF GeometryKept, CacheNotFiner, CachedConfig, BlockLen

LEMMA AlterStep == TypeOK /\ TrafficInv /\ AlterInv /\ [Next]_vars => AlterInv'
<1> SUFFICES ASSUME TypeOK, TrafficInv, AlterInv, [Next]_vars PROVE AlterInv'
  OBVIOUS
<1>1. GeometryKept' /\ BlockLen' = BlockLen /\ (CacheNotFiner' <=> CacheNotFiner)
  BY GeometryStep DEF AlterInv
<1> SUFFICES EraseFromTheStart' /\ JobsOfWrites'
  BY <1>1 DEF AlterInv
<1>2. JobsWaitedFor /\ StageOfStep /\ EraseFromTheStart /\ JobsOfWrites /\ GeometryKept
  BY DEF TrafficInv, AlterInv
<1> USE <1>1, <1>2 DEF JobsWaitedFor, StageOfStep, EraseFromTheStart, JobsOfWrites, StartsBlock
<1>3. CASE GetFlashConfig
  BY <1>3 DEF GetFlashConfig, ctlVars, history
<1>4. ASSUME NEW r \in Requests, Call(r) PROVE EraseFromTheStart' /\ JobsOfWrites'
  BY <1>4 DEF Call, NoteRequest, ctlVars
<1>5. CASE ChooseStage
  BY <1>5, CachedStartIsStart DEF ChooseStage, ctlVars, history
<1>6. CASE ClearStatus
  BY <1>6 DEF ClearStatus, history
<1>7. CASE EnableErase
  BY <1>7 DEF EnableErase, history
<1>8. CASE WriteAddress
  BY <1>8 DEF WriteAddress, history
<1>9. CASE IssueCommand
  <2>1. req.op \in {"read", "write"}
    BY DEF TypeOK
  <2>2. job = NoJob \/ ~clean
    BY <1>9 DEF IssueCommand
  <2>3. job' = job \/ job' = [kind |-> stage, sector |-> address.page, image |-> pageBuf]
    BY <1>9 DEF IssueCommand
  <2> QED
    BY <1>9, <2>1, <2>2, <2>3 DEF IssueCommand, history
<1>10. CASE PollReady
  BY <1>10 DEF PollReady, ctlVars
<1>11. CASE PollBusy
  BY <1>11 DEF PollBusy, ctlVars, history
<1>12. CASE PollTimeout
  BY <1>12 DEF PollTimeout, ctlVars, history
<1>13. CASE Rewind
  BY <1>13 DEF Rewind, history
<1>14. CASE FetchWord
  BY <1>14 DEF FetchWord, history
<1>15. CASE StoreWord
  BY <1>15 DEF StoreWord, history
<1>16. CASE Controller
  BY <1>16 DEF Controller, FinishRead, FinishErase, FinishProgram, RefuseJob, drvVars, history
<1>17. CASE UNCHANGED vars
  BY <1>17 DEF vars, ctlVars, drvVars, history
<1> QED
  BY <1>3, <1>4, <1>5, <1>6, <1>7, <1>8, <1>9, <1>10, <1>11, <1>12, <1>13, <1>14, <1>15,
     <1>16, <1>17
  DEF Next, Driver

LEMMA Alter == Spec => [](TypeOK /\ TrafficInv /\ AlterInv)
<1>1. Init => AlterInv
  BY AlterInit
<1>2. TypeOK /\ TrafficInv /\ AlterInv /\ [Next]_vars => AlterInv'
  BY AlterStep
<1> QED
  BY <1>1, <1>2, Traffic, PTL DEF Spec

\* Whatever the cache holds, whatever is asked and abandoned, and whenever the
\* controller finishes, a step alters only the block of the request being served and
\* sets bits only by blanking a whole block.  If the cached block size is no finer than
\* the console's, a write that starts no block alters only its own sector.
THEOREM RequestsAlterTheirBlock == Spec => OnlyTheAddressedBlock
<1>1. TypeOK /\ TrafficInv /\ AlterInv /\ [Next]_vars => [AltersTheAddressedBlock]_vars
  <2> SUFFICES ASSUME TypeOK, TrafficInv, AlterInv, Next,
                      NEW s \in Sectors, flash'[s] # flash[s]
               PROVE  /\ clean => req.op = "write" /\ s \in OwnBlock
                      /\ clean /\ CacheNotFiner /\ ~StartsBlock => s = SectorOf(req.lba)
                      /\ ~(\A w \in Words : flash'[s][w] \subseteq flash[s][w]) =>
                            \A t \in BlockOf(s, BlockLen) : flash'[t] = Blank
    BY DEF AltersTheAddressedBlock, OwnBlock, StartsBlock
  <2>1. FinishErase \/ FinishProgram
    BY DEF Next, Driver, Controller, GetFlashConfig, Call, ChooseStage, ClearStatus,
           EnableErase, WriteAddress, IssueCommand, PollReady, PollBusy, PollTimeout, Rewind,
           FetchWord, StoreWord, FinishRead, RefuseJob, ctlVars
  <2>2. job # NoJob /\ job.sector \in Sectors /\ flash \in [Sectors -> Page]
    BY <2>1 DEF FinishErase, FinishProgram, TypeOK, JobType
  <2>3. BlockLen \in Nat \ {0}
    BY BlockSizes DEF BlockLen
  <2>4. clean => job.sector = SectorOf(req.lba) /\ (job.kind # "read" => req.op = "write")
                 /\ (job.kind = "erase" /\ CacheNotFiner => StartsBlock)
    BY <2>2 DEF TrafficInv, JobIsTheRequest, AlterInv, JobsOfWrites
  <2>5. CASE FinishErase
    <3>1. s \in BlockOf(job.sector, BlockLen) /\ job.kind = "erase"
      BY <2>2, <2>5 DEF FinishErase
    <3>2. \A t \in BlockOf(s, BlockLen) : t \in Sectors /\ t \in BlockOf(job.sector, BlockLen)
      BY <2>2, <2>3, <3>1, BlockFacts
    <3>3. \A t \in BlockOf(s, BlockLen) : flash'[t] = Blank
      BY <2>5, <3>2 DEF FinishErase
    <3> QED
      BY <2>4, <3>1, <3>3 DEF OwnBlock
  <2>6. CASE FinishProgram
    <3>1. s = job.sector /\ job.kind = "program"
      BY <2>2, <2>6 DEF FinishProgram
    <3>2. flash'[s] = Overlay(flash[s], job.image)
      BY <2>2, <2>6, <3>1 DEF FinishProgram
    <3>3. \A w \in Words : flash'[s][w] \subseteq flash[s][w]
      BY <3>2 DEF Overlay
    <3>4. s \in BlockOf(job.sector, BlockLen)
      BY <2>2, <2>3, <3>1, BlockFacts
    <3> QED
      BY <2>4, <3>1, <3>3, <3>4 DEF OwnBlock
  <2> QED
    BY <2>1, <2>5, <2>6
<1> QED
  BY <1>1, Alter, PTL DEF Spec, OnlyTheAddressedBlock

-----------------------------------------------------------------------------
(* The image the caller has been told of *)

\* The cache gives the console's own block size.
CacheMatches == flash_config # {} => SectorsInBlock(flash_config) = BlockLen

\* The caller counts on nothing in the sectors a write is about to change ...
WriteForgets ==
  pc # "idle" /\ req.op = "write" =>
    /\ image[SectorOf(req.lba)] = Unknown
    /\ StartsBlock => \A t \in OwnBlock : image[t] = Unknown

\* ... nor in those an abandoned job may still change.
JobsTouchTheForgotten ==
  job # NoJob =>
    /\ job.kind = "program" => image[job.sector] = Unknown
    /\ job.kind = "erase" => \A t \in BlockOf(job.sector, BlockLen) : image[t] = Unknown

\* A write that starts a block is exact, a read never.
ExactRequests ==
  pc # "idle" => /\ exact => req.op = "write"
                 /\ req.op = "write" /\ StartsBlock => exact

Programmed == stage = "program" /\ pc = "wait" /\ job = NoJob
Erased == \/ stage = "program" /\ pc # "config"
          \/ stage = "erase" /\ pc = "wait" /\ job = NoJob

\* How far an exact write has got.
WriteProgress ==
  clean /\ ~refused /\ exact /\ pc # "idle" =>
    /\ ~StartsBlock /\ ~Programmed => flash[SectorOf(req.lba)] = Blank
    /\ StartsBlock /\ Erased /\ ~Programmed => \A t \in OwnBlock : flash[t] = Blank
    /\ StartsBlock /\ Programmed =>
         \A t \in OwnBlock : t # SectorOf(req.lba) => flash[t] = Blank
    /\ Programmed => flash[SectorOf(req.lba)] = req.data

ImageInv ==
  /\ CacheMatches
  /\ WriteForgets
  /\ JobsTouchTheForgotten
  /\ ExactRequests
  /\ WriteProgress
  /\ AcknowledgedImageIsStored
  /\ ProgramsOntoBlank

LEMMA MatchingCacheIsNotFiner == CacheMatches => CacheNotFiner
<1>1. \A n \in Nat \ {0} : n % n = 0
  OBVIOUS
<1> QED
  BY <1>1, BlockSizes DEF CacheMatches, CacheNotFiner, BlockLen

LEMMA ImageInit ==
  ASSUME CacheIsTrue
  PROVE  Init => ImageInv
<1> SUFFICES ASSUME Init PROVE ImageInv
  OBVIOUS
<1>1. CacheMatches
  BY CacheIsTrue DEF Init, CacheMatches, CacheIsTrue, BlockLen
<1>2. WriteForgets /\ JobsTouchTheForgotten /\ ExactRequests /\ WriteProgress /\ ProgramsOntoBlank
  BY DEF Init, WriteForgets, JobsTouchTheForgotten, ExactRequests, WriteProgress,
         ProgramsOntoBlank
<1>3. AcknowledgedImageIsStored
  BY DEF Init, AcknowledgedImageIsStored
<1> QED
  BY <1>1, <1>2, <1>3 DEF ImageInv

\* With the console's own block size in the cache the driver erases exactly when
\* the sector starts a block.
LEMMA CachedStartExactly ==
  ASSUME TypeOK, GeometryKept, CacheMatches
  PROVE  FirstOfBlock(req.lba, SectorsInBlock(CachedConfig)) <=> StartsBlock
<1>1. req.lba \in Nat
  BY DEF TypeOK
<1>2. BlockLen \in Nat \ {0}
  BY BlockSizes DEF BlockLen
<1>3. SectorsInBlock(CachedConfig) = BlockLen
  BY DEF CacheMatches, CachedConfig, BlockLen
<1> QED
  BY <1>1, <1>2, <1>3, WrapKeepsPlace DEF StartsBlock, GeometryKept

\* A page programmed onto a blank sector is stored as it is.
LEMMA OverlayOfBlank == \A p \in Page : Overlay(Blank, p) = p
<1> SUFFICES ASSUME NEW p \in Page PROVE Overlay(Blank, p) = p
  OBVIOUS
<1>1. \A w \in Words : DataBits \cap p[w] = p[w]
  BY DEF Page
<1>2. p = [w \in Words |-> p[w]]
  BY DEF Page
<1>3. Overlay(Blank, p) = [w \in Words |-> DataBits \cap p[w]]
  BY DEF Overlay, Blank
<1> QED
  BY <1>1, <1>2, <1>3

LEMMA ImageStep ==
  TypeOK /\ TrafficInv /\ AlterInv /\ ImageInv /\ [Next]_vars => ImageInv'
<1> SUFFICES ASSUME TypeOK, TrafficInv, AlterInv, ImageInv, [Next]_vars PROVE ImageInv'
  OBVIOUS
<1>1. BlockLen' = BlockLen /\ BlockLen \in Nat \ {0}
  BY GeometryStep, BlockSizes DEF AlterInv, BlockLen
<1>2. /\ JobsWaitedFor /\ JobIsTheRequest /\ StageOfStep /\ RegistersSet /\ BufferLoaded
      /\ GeometryKept /\ EraseFromTheStart /\ JobsOfWrites /\ CacheNotFiner
  BY MatchingCacheIsNotFiner DEF TrafficInv, AlterInv, ImageInv
<1>3. /\ CacheMatches /\ WriteForgets /\ JobsTouchTheForgotten /\ ExactRequests
      /\ WriteProgress /\ AcknowledgedImageIsStored /\ ProgramsOntoBlank
  BY DEF ImageInv
<1>4. /\ SectorOf(req.lba) \in Sectors /\ req.data \in Page /\ req.op \in {"read", "write"}
      /\ flash \in [Sectors -> Page] /\ image \in [Sectors -> Page \cup {Unknown}]
  BY SectorOfType DEF TypeOK
<1>5. /\ SectorOf(req.lba) \in OwnBlock
      /\ \A t \in OwnBlock : t \in Sectors
  BY <1>1, <1>4, BlockFacts DEF OwnBlock
<1>6. Blank # Unknown
  BY UnknownAssumption, PageType
<1> DEFINE NewFacts ==
      /\ CacheMatches' /\ WriteForgets' /\ JobsTouchTheForgotten' /\ ExactRequests'
      /\ WriteProgress' /\ AcknowledgedImageIsStored' /\ ProgramsOntoBlank'
<1> SUFFICES NewFacts
  BY DEF ImageInv
<1> USE DEF CacheMatches, WriteForgets, JobsTouchTheForgotten, ExactRequests, WriteProgress,
            AcknowledgedImageIsStored, ProgramsOntoBlank, Erased, Programmed, StartsBlock, OwnBlock
<1>10. CASE GetFlashConfig
  BY <1>1, <1>3, <1>10 DEF GetFlashConfig, CachedConfig, BlockLen, ctlVars, history
<1>11. CASE ChooseStage
  BY <1>1, <1>3, <1>11, CachedStartExactly, <1>2
  DEF ChooseStage, CachedConfig, BlockLen, ctlVars, history
<1>12. CASE ClearStatus
  BY <1>1, <1>3, <1>12 DEF ClearStatus, history
<1>13. CASE EnableErase
  BY <1>1, <1>2, <1>3, <1>13 DEF EnableErase, StageOfStep, history
<1>14. CASE WriteAddress
  BY <1>1, <1>3, <1>14 DEF WriteAddress, history
<1>15. CASE PollBusy
  BY <1>1, <1>3, <1>15 DEF PollBusy, ctlVars, history
<1>16. CASE PollTimeout
  BY <1>1, <1>3, <1>16 DEF PollTimeout, ctlVars, history
<1>17. CASE Rewind
  BY <1>1, <1>2, <1>3, <1>17 DEF Rewind, StageOfStep, history
<1>18. CASE FetchWord
  BY <1>1, <1>2, <1>3, <1>18 DEF FetchWord, StageOfStep, history
<1>19. CASE StoreWord
  BY <1>1, <1>2, <1>3, <1>19 DEF StoreWord, StageOfStep, history
<1>20. CASE UNCHANGED vars
  BY <1>1, <1>3, <1>20 DEF vars, ctlVars, drvVars, history
<1>21. ASSUME NEW r \in Requests, Call(r) PROVE NewFacts
  <2>1. r.lba \in Nat /\ SectorOf(r.lba) \in Sectors
    BY DriverAssumption, SectorOfType DEF Requests
  <2>2. /\ req' = r /\ pc = "idle" /\ stage' \in {"read", stage} /\ job' = job /\ flash' = flash
        /\ r.op # "read" => pc' = "config"
        /\ pc' # "idle" /\ flash_config' = flash_config /\ config' = config
    BY <1>21 DEF Call, ctlVars
  <2> DEFINE s == SectorOf(r.lba)
             first == FirstOfBlock(s, BlockLen)
  <2>3. /\ clean' = (job = NoJob) /\ refused' = FALSE
        /\ exact' = (r.op = "write" /\ (first \/ image[s] = Blank))
        /\ \A t \in Sectors : image'[t] \in {image[t], Unknown}
        /\ r.op = "write" => /\ image'[s] = Unknown
                             /\ first => \A t \in BlockOf(s, BlockLen) : image'[t] = Unknown
    BY <1>21, <2>1 DEF Call, NoteRequest, BlockOf
  <2>4. StartsBlock' = first /\ OwnBlock' = BlockOf(s, BlockLen)
    BY <1>1, <2>2
  <2>5. CacheMatches' /\ ProgramsOntoBlank'
    BY <1>1, <1>3, <2>2, <2>3
  <2>6. WriteForgets' /\ ExactRequests'
    BY <1>1, <2>2, <2>3, <2>4
  <2>7. JobsTouchTheForgotten'
    BY <1>1, <1>3, <2>2, <2>3 DEF TypeOK, JobType, BlockOf
  <2>8. AcknowledgedImageIsStored'
    BY <1>3, <2>2, <2>3
  <2>9. WriteProgress'
    BY <1>3, <1>6, <2>1, <2>2, <2>3, <2>4
  <2> QED
    BY <2>5, <2>6, <2>7, <2>8, <2>9
<1>22. CASE IssueCommand
  <2>1. /\ pc = "command" /\ pc' = "wait" /\ address.page = SectorOf(req.lba)
        /\ stage # "read" => req.op = "write"
    BY <1>2, <1>4, <1>22 DEF IssueCommand, RegistersSet, StageOfStep
  <2>2. \/ job = NoJob /\ job' = [kind |-> stage, sector |-> SectorOf(req.lba), image |-> pageBuf]
           /\ job' # NoJob
        \/ job # NoJob /\ job' = job /\ ~clean
    <3>1. CASE job = NoJob
      <4>1. stage = "erase" => WriteEnable \in config
        BY <1>2, <1>22 DEF IssueCommand, EraseFromTheStart
      <4>2. job' = [kind |-> stage, sector |-> SectorOf(req.lba), image |-> pageBuf]
        BY <1>22, <2>1, <3>1, <4>1 DEF IssueCommand
      <4>3. job' \in JobType
        BY <1>4, <4>2 DEF JobType, TypeOK
      <4> QED
        BY <3>1, <4>2, <4>3, NoJobAssumption
    <3>2. CASE job # NoJob
      BY <1>2, <1>22, <3>2 DEF IssueCommand, JobsWaitedFor
    <3> QED
      BY <3>1, <3>2
  <2>3. /\ config' = config /\ flash' = flash /\ flash_config' = flash_config /\ stage' = stage
        /\ req' = req /\ clean' = clean /\ refused' = refused /\ image' = image /\ exact' = exact
    BY <1>22 DEF IssueCommand, history
  <2>4. CacheMatches' /\ WriteForgets' /\ ExactRequests' /\ AcknowledgedImageIsStored'
    BY <1>1, <1>3, <2>1, <2>3
  <2>5. JobsTouchTheForgotten'
    BY <1>1, <1>2, <1>3, <2>1, <2>2, <2>3 DEF EraseFromTheStart
  <2>6. WriteProgress'
    BY <1>1, <1>3, <2>1, <2>2, <2>3
  <2>7. ProgramsOntoBlank'
    BY <1>1, <1>3, <2>1, <2>2, <2>3
  <2> QED
    BY <2>4, <2>5, <2>6, <2>7
<1>23. CASE PollReady
  <2>1. /\ job = NoJob /\ job' = job /\ flash' = flash /\ config' = config /\ req' = req
        /\ flash_config' = flash_config /\ clean' = clean /\ refused' = refused /\ exact' = exact
    BY <1>23 DEF PollReady, ctlVars
  <2>2. JobsTouchTheForgotten' /\ ProgramsOntoBlank' /\ CacheMatches'
    BY <1>1, <1>3, <2>1
  <2>3. CASE pc = "wait" /\ stage = "program"
    <3>1. pc' = "idle" /\ NoteWritten
      BY <1>23, <2>3 DEF PollReady, Polls
    <3>2. AcknowledgedImageIsStored'
      BY <1>3, <1>4, <1>5, <2>1, <2>3, <3>1 DEF NoteWritten
    <3> QED
      BY <2>2, <3>1, <3>2
  <2>4. CASE ~(pc = "wait" /\ stage = "program")
    <3>1. /\ image' = image /\ pc' \in {"address", "command", "rewind", "clear"}
          /\ pc' = "clear" => pc = "wait" /\ stage = "erase" /\ stage' = "program"
          /\ pc' # "clear" => stage' = stage
          /\ pc' = "rewind" => stage = "read"
          /\ pc # "idle"
          /\ pc # "config"
      BY <1>23, <2>4 DEF PollReady, Polls
    <3>2. stage = "read" => req.op # "write"
      BY <1>2, <3>1 DEF StageOfStep
    <3>3. WriteForgets' /\ ExactRequests' /\ AcknowledgedImageIsStored'
      BY <1>1, <1>3, <2>1, <3>1
    <3>4. WriteProgress'
      <4> SUFFICES ASSUME clean, ~refused, exact PROVE WriteProgress'
        BY <2>1
      <4>1. StartsBlock' = StartsBlock /\ OwnBlock' = OwnBlock
        BY <1>1, <2>1
      <4>2. ~Programmed' /\ ~Programmed /\ (Erased' => Erased)
        BY <1>3, <2>1, <2>4, <3>1
      <4> QED
        BY <1>3, <2>1, <3>1, <4>1, <4>2
    <3> QED
      BY <2>2, <3>3, <3>4
  <2> QED
    BY <2>3, <2>4
<1>24. job # NoJob => /\ job.sector \in Sectors /\ job.image \in Page
                      /\ job.kind \in {"read", "erase", "program"}
  BY DEF TypeOK, JobType
<1>25. CASE FinishRead
  BY <1>1, <1>2, <1>3, <1>25 DEF FinishRead, JobIsTheRequest, JobsOfWrites, drvVars, history
<1>26. CASE RefuseJob
  BY <1>1, <1>3, <1>26 DEF RefuseJob, drvVars
<1>27. CASE FinishErase
  <2>1. /\ job # NoJob /\ job.kind = "erase" /\ job' = NoJob /\ config' = config /\ pc' = pc
        /\ req' = req /\ stage' = stage /\ flash_config' = flash_config /\ clean' = clean
        /\ refused' = refused /\ exact' = exact /\ image' = image
    BY <1>27 DEF FinishErase, drvVars, history
  <2>2. \A t \in Sectors : flash'[t] = IF t \in BlockOf(job.sector, BlockLen) THEN Blank
                                                                            ELSE flash[t]
    BY <1>27 DEF FinishErase
  <2>3. CacheMatches' /\ WriteForgets' /\ JobsTouchTheForgotten' /\ ExactRequests'
        /\ ProgramsOntoBlank'
    BY <1>1, <1>3, <2>1
  <2>4. AcknowledgedImageIsStored'
    BY <1>3, <2>1, <2>2
  <2>5. WriteProgress'
    <3> SUFFICES ASSUME clean, ~refused, exact, pc # "idle" PROVE WriteProgress'
      BY <2>1
    <3>1. /\ pc = "wait" /\ stage = "erase" /\ job.sector = SectorOf(req.lba) /\ StartsBlock
      BY <1>2, <2>1 DEF JobIsTheRequest, JobsWaitedFor, JobsOfWrites
    <3>2. \A t \in OwnBlock : flash'[t] = Blank
      BY <1>5, <2>2, <3>1
    <3> QED
      BY <1>1, <2>1, <3>1, <3>2
  <2> QED
    BY <2>3, <2>4, <2>5
<1>28. CASE FinishProgram
  <2>1. /\ job # NoJob /\ job.kind = "program" /\ job' = NoJob /\ config' = config /\ pc' = pc
        /\ req' = req /\ stage' = stage /\ flash_config' = flash_config /\ clean' = clean
        /\ refused' = refused /\ exact' = exact /\ image' = image
    BY <1>28 DEF FinishProgram, drvVars, history
  <2>2. \A t \in Sectors : flash'[t] = IF t = job.sector THEN Overlay(flash[t], job.image)
                                                        ELSE flash[t]
    BY <1>4, <1>28 DEF FinishProgram
  <2>3. CacheMatches' /\ WriteForgets' /\ JobsTouchTheForgotten' /\ ExactRequests'
        /\ ProgramsOntoBlank'
    BY <1>1, <1>3, <2>1
  <2>4. AcknowledgedImageIsStored'
    BY <1>3, <2>1, <2>2
  <2>5. WriteProgress'
    <3> SUFFICES ASSUME clean, ~refused, exact, pc # "idle" PROVE WriteProgress'
      BY <2>1
    <3>1. /\ pc = "wait" /\ stage = "program" /\ job.sector = SectorOf(req.lba)
          /\ job.image = req.data
      BY <1>2, <2>1 DEF JobIsTheRequest, JobsWaitedFor
    <3>2. flash[SectorOf(req.lba)] = Blank /\ (StartsBlock => \A t \in OwnBlock : flash[t] = Blank)
      BY <1>3, <1>5, <2>1, <3>1
    <3>3. flash'[SectorOf(req.lba)] = req.data
      BY <1>4, <2>2, <3>1, <3>2, OverlayOfBlank
    <3>4. \A t \in OwnBlock : t # SectorOf(req.lba) => flash'[t] = flash[t]
      BY <1>5, <2>2, <3>1
    <3> QED
      BY <1>1, <2>1, <3>1, <3>2, <3>3, <3>4
  <2> QED
    BY <2>3, <2>4, <2>5
<1> QED
  BY <1>10, <1>11, <1>12, <1>13, <1>14, <1>15, <1>16, <1>17, <1>18, <1>19, <1>20, <1>21, <1>22,
     <1>23, <1>25, <1>26, <1>27, <1>28
  DEF Next, Driver, Controller

LEMMA Images ==
  ASSUME CacheIsTrue
  PROVE  Spec => [](TypeOK /\ TrafficInv /\ AlterInv /\ ImageInv)
<1>1. Init => ImageInv
  BY CacheIsTrue, ImageInit
<1>2. TypeOK /\ TrafficInv /\ AlterInv /\ ImageInv /\ [Next]_vars => ImageInv'
  BY ImageStep
<1> QED
  BY <1>1, <1>2, Alter, PTL DEF Spec

\* An image written block by block is what the flash holds, sector by sector, through
\* every reading, abandoned job and refused command in between.
THEOREM ImageIsStored ==
  ASSUME CacheIsTrue
  PROVE  Spec => []AcknowledgedImageIsStored
<1>1. ImageInv => AcknowledgedImageIsStored
  BY DEF ImageInv
<1> QED
  BY <1>1, CacheIsTrue, Images, PTL

\* The first sector of a block is programmed onto a block that is blank throughout.
THEOREM FirstSectorFindsBlank ==
  ASSUME CacheIsTrue
  PROVE  Spec => []ProgramsOntoBlank
<1>1. ImageInv => ProgramsOntoBlank
  BY DEF ImageInv
<1> QED
  BY <1>1, CacheIsTrue, Images, PTL
-----------------------------------------------------------------------------
(* The driver and its controller implement FlashStore *)

\* Both specifications speak of the same sectors and pages.
LEMMA SameGeometry ==
  /\ Store!Sectors = Sectors
  /\ Store!Page = Page
  /\ Store!Blank = Blank
  /\ \A lba : Store!SectorOf(lba) = SectorOf(lba)
  /\ \A s, n : Store!BlockOf(s, n) = BlockOf(s, n) /\ Store!FirstOfBlock(s, n) = FirstOfBlock(s, n)
  /\ \A p, q : Store!Overlay(p, q) = Overlay(p, q)
  BY DEF Store!Sectors, Sectors, Store!Page, Page, Store!Words, Words, Store!Blank, Blank,
         Store!SectorOf, SectorOf, Store!BlockOf, BlockOf, Store!FirstOfBlock, FirstOfBlock,
         Store!Overlay, Overlay

LEMMA StoreInit == TypeOK /\ GeometryKept /\ Init => Store!Init
<1> SUFFICES ASSUME TypeOK, GeometryKept, Init PROVE Store!Init
  OBVIOUS
<1>1. JobsStillOwed = <<>>
  BY DEF Init, JobsStillOwed
<1> QED
  BY <1>1, SameGeometry DEF Init, Store!Init, TypeOK, GeometryKept

\* A step that starts no job, ends no job and neither takes nor answers a request
\* is one FlashStore does not see.
LEMMA HiddenStep ==
  ASSUME BlockLen' = BlockLen, flash' = flash, job' = job, clean' = clean, refused' = refused,
         req' = req, pc # "idle", pc' # "idle", JobsStillOwed' = JobsStillOwed
  PROVE  UNCHANGED Store!vars
  BY DEF Store!vars

\* Every step of the driver or the controller is one of FlashStore's or hidden.
LEMMA StoreStep ==
  /\ TypeOK /\ TrafficInv /\ AlterInv /\ CacheMatches
  /\ TypeOK' /\ TrafficInv'
  /\ [Next]_vars
  => [Store!Next]_(Store!vars)
<1> SUFFICES ASSUME TypeOK, TrafficInv, AlterInv, CacheMatches, TypeOK', TrafficInv', [Next]_vars
             PROVE  Store!Next \/ UNCHANGED Store!vars
  OBVIOUS
<1>1. BlockLen' = BlockLen /\ BlockLen \in Nat \ {0}
  BY GeometryStep, BlockSizes DEF AlterInv, BlockLen
<1>2. /\ JobsWaitedFor /\ StageOfStep /\ RegistersSet /\ BufferLoaded
      /\ GeometryKept /\ EraseFromTheStart /\ ReadReturnsSector' /\ CacheNotFiner
  BY MatchingCacheIsNotFiner DEF TrafficInv, AlterInv
<1>3. /\ req \in [op : {"read", "write"}, lba : Nat, data : Page] /\ pageBuf \in Page
      /\ stage \in {"read", "erase", "program"}
  BY DEF TypeOK
<1>4. req # NoRequest /\ req' # NoRequest
  BY NoRequestAssumption DEF TypeOK
<1>5. CASE GetFlashConfig
  BY <1>1, <1>5 DEF GetFlashConfig, Store!vars, JobsStillOwed, ctlVars, history
<1>6. CASE ChooseStage
  <2>1. FirstOfBlock(req.lba, SectorsInBlock(CachedConfig)) <=> FirstOfBlock(req.lba, BlockLen)
    BY <1>1, <1>2, <1>3, CachedStartExactly, WrapKeepsPlace DEF StartsBlock, GeometryKept
  <2>2. JobsStillOwed' = JobsStillOwed
    BY <1>6, <2>1 DEF ChooseStage, JobsStillOwed
  <2> QED
    BY <1>1, <1>6, <2>2, HiddenStep DEF ChooseStage, ctlVars, history
<1>7. CASE ClearStatus \/ EnableErase \/ WriteAddress \/ PollBusy \/ Rewind \/ StoreWord
  <2>1. JobsStillOwed' = JobsStillOwed
    BY <1>2, <1>7
    DEF JobsStillOwed, StageOfStep, ClearStatus, EnableErase, WriteAddress, PollBusy, Polls,
        Rewind, StoreWord
  <2> QED
    BY <1>1, <1>7, <2>1, HiddenStep
    DEF ClearStatus, EnableErase, WriteAddress, PollBusy, Polls, Rewind, StoreWord, ctlVars, history
<1>8. CASE IssueCommand
  <2>1. /\ pc = "command" /\ pc' = "wait" /\ stage' = stage /\ address.page = SectorOf(req.lba)
    BY <1>2, <1>8 DEF IssueCommand, RegistersSet
  <2>2. JobsStillOwed # <<>> /\ Head(JobsStillOwed) = stage /\ JobsStillOwed' = Tail(JobsStillOwed)
    BY <1>3, <2>1 DEF JobsStillOwed
  <2>3. \/ /\ job = NoJob
           /\ job' = [kind |-> stage, sector |-> SectorOf(req.lba), image |-> pageBuf]
        \/ ~clean /\ job' = job
    BY <1>2, <1>8, <2>1 DEF IssueCommand, JobsWaitedFor, EraseFromTheStart
  <2>4. clean /\ stage = "program" => pageBuf = req.data
    BY <1>2, <2>1 DEF BufferLoaded
  <2>5. Store!Start(pageBuf)
    BY <1>1, <1>4, <1>8, <2>1, <2>2, <2>3, <2>4, SameGeometry
    DEF IssueCommand, Store!Start, history
  <2> QED
    BY <1>3, <2>5, SameGeometry DEF Store!Next
<1>9. CASE PollReady
  <2>1. /\ job = NoJob /\ job' = job /\ flash' = flash /\ req' = req /\ clean' = clean
        /\ refused' = refused /\ pc # "idle"
    BY <1>9 DEF PollReady, Polls, ctlVars
  <2>2. CASE pc = "wait" /\ stage = "program"
    <3>1. pc' = "idle" /\ JobsStillOwed = <<>> /\ JobsStillOwed' = <<>>
      BY <1>9, <2>2 DEF PollReady, Polls, JobsStillOwed
    <3>2. req.op # "read"
      BY <1>2, <2>2 DEF StageOfStep
    <3>3. Store!Succeed(Blank)
      BY <1>1, <1>4, <2>1, <3>1, <3>2 DEF Store!Succeed
    <3> QED
      BY <3>3, PageType, SameGeometry DEF Store!Next
  <2>3. CASE ~(pc = "wait" /\ stage = "program")
    <3>1. JobsStillOwed' = JobsStillOwed /\ pc' # "idle"
      BY <1>2, <1>3, <1>9, <2>3 DEF PollReady, Polls, JobsStillOwed, StageOfStep
    <3> QED
      BY <1>1, <2>1, <3>1, HiddenStep
  <2> QED
    BY <2>2, <2>3
<1>10. CASE PollTimeout
  <2>1. JobsStillOwed' = <<>>
    BY <1>10 DEF PollTimeout, JobsStillOwed
  <2>2. Store!GiveUp
    BY <1>1, <1>4, <1>10, <2>1 DEF PollTimeout, Polls, Store!GiveUp, ctlVars, history
  <2> QED
    BY <2>2 DEF Store!Next
<1>11. CASE FetchWord
  <2>1. /\ pc = "fetch" /\ stage = "read" /\ req.op = "read" /\ req' = req /\ stage' = stage
        /\ job' = job /\ flash' = flash /\ clean' = clean /\ refused' = refused
    BY <1>2, <1>11 DEF FetchWord, StageOfStep, history
  <2>2. JobsStillOwed = <<>>
    BY <2>1 DEF JobsStillOwed
  <2>3. CASE pc' = "idle"
    <3>1. JobsStillOwed' = <<>>
      BY <2>3 DEF JobsStillOwed
    <3>2. reply'.ret = "ok" /\ reply'.data \in Page
      BY <1>11, <2>1, <2>3 DEF FetchWord, TypeOK, Ok
    <3>3. clean => job = NoJob
      BY <1>2, <2>1 DEF JobsWaitedFor
    <3>4. clean /\ ~refused => reply'.data = flash[SectorOf(req.lba)]
      BY <1>2, <2>1, <2>3, <3>2 DEF ReadReturnsSector
    <3>5. Store!Succeed(reply'.data)
      BY <1>1, <1>4, <2>1, <2>2, <2>3, <3>1, <3>3, <3>4, SameGeometry DEF Store!Succeed
    <3> QED
      BY <3>2, <3>5, SameGeometry DEF Store!Next
  <2>4. CASE pc' # "idle"
    <3>1. pc' = "fetch"
      BY <1>11, <2>1, <2>4 DEF FetchWord
    <3>2. JobsStillOwed' = <<>>
      BY <2>1, <3>1 DEF JobsStillOwed
    <3> QED
      BY <1>1, <2>1, <2>2, <3>1, <3>2, HiddenStep
  <2> QED
    BY <2>3, <2>4
<1>12. CASE Controller
  <2>1. /\ job # NoJob /\ job' = NoJob /\ req' = req /\ pc' = pc /\ clean' = clean
        /\ JobsStillOwed' = JobsStillOwed
        /\ \/ flash' = [s \in Sectors |-> Store!Outcome(s)] /\ refused' = refused
           \/ flash' = flash /\ refused' = TRUE
    <3>1. flash = [s \in Sectors |-> flash[s]]
      BY DEF TypeOK
    <3>2. JobsStillOwed' = JobsStillOwed
      BY <1>1, <1>12
      DEF Controller, FinishRead, FinishErase, FinishProgram, RefuseJob, drvVars, JobsStillOwed
    <3>3. job # NoJob => job.sector \in Sectors
      BY DEF TypeOK, JobType
    <3>4. CASE FinishRead
      BY <3>1, <3>2, <3>4, SameGeometry DEF FinishRead, Store!Outcome, drvVars, history
    <3>5. CASE FinishErase
      BY <3>2, <3>5, SameGeometry DEF FinishErase, Store!Outcome, drvVars, history
    <3>6. CASE FinishProgram
      <4>1. flash' = [s \in Sectors |-> IF s = job.sector THEN Overlay(flash[s], job.image)
                                                         ELSE flash[s]]
        BY <3>1, <3>3, <3>6 DEF FinishProgram
      <4> QED
        BY <3>2, <3>6, <4>1, SameGeometry DEF FinishProgram, Store!Outcome, drvVars, history
    <3>7. CASE RefuseJob
      BY <3>2, <3>7 DEF RefuseJob, drvVars
    <3> QED
      BY <1>12, <3>4, <3>5, <3>6, <3>7 DEF Controller
  <2>2. Store!Carry
    BY <1>1, <2>1, SameGeometry DEF Store!Carry
  <2> QED
    BY <2>2 DEF Store!Next
<1>13. ASSUME NEW r \in Requests, Call(r) PROVE Store!Next
  <2>1. /\ pc = "idle" /\ req' = r /\ pc' # "idle" /\ clean' = (job = NoJob) /\ refused' = FALSE
        /\ job' = job /\ flash' = flash
    BY <1>13 DEF Call, NoteRequest, ctlVars
  <2>2. r.op \in {"read", "write"}
    BY DEF Requests
  <2>3. JobsStillOwed' = Store!JobsOf(r)
    <3>1. CASE r.op = "read"
      <4>1. pc' = "clear" /\ stage' = "read"
        BY <1>13, <3>1 DEF Call
      <4> QED
        BY <3>1, <4>1 DEF JobsStillOwed, Store!JobsOf
    <3>2. CASE r.op # "read"
      <4>1. pc' = "config"
        BY <1>13, <3>2 DEF Call
      <4> QED
        BY <1>1, <2>1, <3>2, <4>1, SameGeometry DEF JobsStillOwed, Store!JobsOf
    <3> QED
      BY <3>1, <3>2
  <2>4. Store!Ask(r)
    BY <1>1, <2>1, <2>3 DEF Store!Ask
  <2> QED
    BY <2>4 DEF Store!Next
<1>14. CASE UNCHANGED vars
  BY <1>14 DEF vars, ctlVars, drvVars, history, Store!vars, JobsStillOwed, BlockLen
<1> QED
  BY <1>5, <1>6, <1>7, <1>8, <1>9, <1>10, <1>11, <1>12, <1>13, <1>14 DEF Next, Driver

\* The registers, the waits and the page buffer implement the plain store: every
\* step that a caller could notice is one FlashStore allows.
THEOREM DriverImplementsStore ==
  ASSUME CacheIsTrue
  PROVE  Spec => ImplementsFlashStore
<1>1. TypeOK /\ AlterInv /\ Init => Store!Init
  BY StoreInit DEF AlterInv
<1>2. /\ TypeOK /\ TrafficInv /\ AlterInv /\ ImageInv
      /\ (TypeOK /\ TrafficInv /\ AlterInv /\ ImageInv)'
      /\ [Next]_vars
      => [Store!Next]_(Store!vars)
  BY StoreStep DEF ImageInv
<1> QED
  BY <1>1, <1>2, CacheIsTrue, Images, PTL DEF Spec, ImplementsFlashStore, Store!Spec
=============================================================================
