----------------------------- MODULE FlashStore -----------------------------
(***************************************************************************)
(* What the NAND access layer (xbox_nand_read_block, xbox_nand_write_block) *)
(* promises its callers, without registers, polling or a page buffer.       *)
(*                                                                         *)
(* One request at a time is outstanding.  A read owes the medium a fetch of *)
(* its sector; a write owes an erase of the whole block, if it names the    *)
(* block's first sector, and then the programming of its sector.  Each job  *)
(* is started, and later takes effect or is refused by the medium.  A       *)
(* request may be given up with an error at any time, also while a job is   *)
(* under way, and that job still ends later.  A request that began while    *)
(* the medium was quiet is `clean`: only clean requests carry promises      *)
(* about their data.                                                       *)
(***************************************************************************)
EXTENDS NandGeometry, Sequences

CONSTANT Requests, NoRequest, NoJob

VARIABLES
  store,     \* the contents of every sector
  blockLen,  \* sectors in an erase block of this medium
  request,   \* the request being served, or NoRequest
  owed,      \* the jobs the request has still to start
  job,       \* the job under way, or NoJob
  clean,     \* the request began on a quiet medium
  refused    \* the medium refused a job of this request

vars == <<store, blockLen, request, owed, job, clean, refused>>

Init ==
  /\ store \in [Sectors -> Page]
  /\ blockLen \in {SmallBlock, LargeBlock, HugeBlock}
  /\ request = NoRequest
  /\ owed = <<>>
  /\ job = NoJob
  /\ clean = TRUE
  /\ refused = FALSE

\* The jobs a request needs: a write of a block's first sector erases first.
JobsOf(r) ==
  IF r.op = "read" THEN <<"read">>
  ELSE IF FirstOfBlock(r.lba, blockLen) THEN <<"erase", "program">>
  ELSE <<"program">>

Ask(r) ==
  /\ request = NoRequest
  /\ request' = r
  /\ owed' = JobsOf(r)
  /\ clean' = (job = NoJob)
  /\ refused' = FALSE
  /\ UNCHANGED <<store, blockLen, job>>

\* A clean request starts exactly the job it asked for; one that began while an
\* abandoned job was running may also lose a job, or program what that job left.
Start(image) ==
  /\ request # NoRequest /\ owed # <<>>
  /\ \/ /\ job = NoJob
        /\ clean /\ Head(owed) = "program" => image = request.data
        /\ job' = [kind |-> Head(owed), sector |-> SectorOf(request.lba),
                   image |-> image]
     \/ ~clean /\ job' = job
  /\ owed' = Tail(owed)
  /\ UNCHANGED <<store, blockLen, request, clean, refused>>

\* What the job under way leaves in a sector.
Outcome(s) ==
  IF job.kind = "erase" /\ s \in BlockOf(job.sector, blockLen) THEN Blank
  ELSE IF job.kind = "program" /\ s = job.sector THEN Overlay(store[s], job.image)
  ELSE store[s]

\* The job under way takes effect all at once, or is refused and changes nothing.
Carry ==
  /\ job # NoJob
  /\ job' = NoJob
  /\ \/ store' = [s \in Sectors |-> Outcome(s)] /\ UNCHANGED refused
     \/ refused' = TRUE /\ UNCHANGED store
  /\ UNCHANGED <<blockLen, request, owed, clean>>

\* Success: every job of a clean request has ended, and a clean read that was
\* not refused returns what the sector holds.
Succeed(data) ==
  /\ request # NoRequest
  /\ clean => /\ owed = <<>> /\ job = NoJob
              /\ request.op = "read" /\ ~refused => data = store[SectorOf(request.lba)]
  /\ request' = NoRequest
  /\ owed' = <<>>
  /\ UNCHANGED <<store, blockLen, job, clean, refused>>

GiveUp ==
  /\ request # NoRequest
  /\ request' = NoRequest
  /\ owed' = <<>>
  /\ UNCHANGED <<store, blockLen, job, clean, refused>>

Next ==
  \/ \E r \in Requests : Ask(r)
  \/ \E image \in Page : Start(image)
  \/ Carry
  \/ \E data \in Page : Succeed(data)
  \/ GiveUp

Spec == Init /\ [][Next]_vars
=============================================================================
