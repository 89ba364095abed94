------------------------------ MODULE Pi4Serial ------------------------------
(***************************************************************************)
(* Pi4Flasher/src/main.c: the command loop on a serial line.                *)
(*                                                                         *)
(* One thread runs the loop; pc is where it stands between two system calls, *)
(* with what lies between folded into one action.  Around it move the line,   *)
(* which brings the host's bytes one unit after another, the host, and a      *)
(* signal.  What a NAND access answers is left open (XboxNand models it); the *)
(* eMMC branch of handle_stream is dead, nothing sets stream_emmc.           *)
(*                                                                         *)
(* Units: a command header is HeaderUnits of them, so that it can arrive in   *)
(* part, its payload PayloadUnits, a status one and a sector DataUnits.       *)
(***************************************************************************)
EXTENDS Integers, Sequences, FiniteSets, XboxSmc

CONSTANTS
  Kinds,         \* the commands the host uses, a subset of AllKinds
  Lengths,       \* the sector numbers and counts in them
  HeaderUnits, PayloadUnits, DataUnits,
  TxCapacity,    \* what write() accepts before it blocks, in units
  Icrnl,         \* the c_iflag that tcgetattr returns has ICRNL set
  CR, NL,        \* a sector number with a byte 0x0D, and the same with 0x0A there
  MaxCommands,   \* bound: the commands the host sends
  MaxFaults,     \* bound: the kinds of fault that happen in one run
  NoCommand      \* the host waits for nothing

\* GET_VERSION and GET_FLASH_CONFIG; READ_FLASH; WRITE_FLASH; READ_FLASH_STREAM; and
\* REBOOT_TO_BOOTLOADER or a code handle_command does not know.
AllKinds == {"version", "read", "write", "stream", "other"}

ASSUME SerialAssumption ==
  /\ Kinds \subseteq AllKinds
  /\ Lengths \subseteq Nat
  /\ {HeaderUnits, PayloadUnits, DataUnits} \subseteq Nat \ {0}
  /\ TxCapacity \in Nat /\ TxCapacity >= 1 + DataUnits
  /\ Icrnl \in BOOLEAN
  /\ CR \in Lengths => NL \in Lengths /\ NL < CR
  /\ MaxCommands \in Nat /\ MaxFaults \in Nat

ASSUME NoCommandAssumption ==
  NoCommand \notin [id : Nat, kind : AllKinds, lba : Nat, blk : Nat, part : Nat]

VARIABLES
  \* the host and the line
  wire,           \* units the host has written and the tty has not yet received
  waiting,        \* the reply unit the host expects next, or NoCommand
  sent,           \* how many commands the host has sent
  faults,         \* the FaultKinds that have happened
  rx, tx,         \* the tty's queues
  \* main.c
  running,
  pc,             \* where the loop stands
  got,            \* what serial_read_exact has read so far
  cmd,            \* the command handled last
  do_stream, stream_offset, stream_end,
  pins,           \* the lines to the console (XboxSmc)
  \* history
  stream_of,      \* the command that started the current stream
  aligned,        \* every header read was one header the host sent
  confused        \* the host received a unit it was not waiting for

hostVars == <<wire, waiting, sent>>
streamVars == <<do_stream, stream_offset, stream_end, stream_of>>
vars == <<hostVars, faults, rx, tx, running, pc, got, cmd, streamVars, pins, aligned, confused>>

Stray == 0  \* the number of a command that was never sent as one

\* What the host writes for command number id.
Bytes(kind, lba, id) ==
  [part \in 1 .. HeaderUnits + (IF kind = "write" THEN PayloadUnits ELSE 0) |->
     [kind |-> kind, lba |-> lba, id |-> id, part |-> part]]

\* The frame that answers command id (block blk of it, for a stream).
Frame(id, blk, ok, len) ==
  [part \in 1 .. len |-> [id |-> id, blk |-> blk, ok |-> ok, part |-> part]]

\* The length of the answer; READ_FLASH and the stream send data only on success.
AnswerLen(kind, ok) ==
  IF kind = "other" THEN 0
  ELSE IF ok /\ kind \in {"read", "stream"} THEN 1 + DataUnits
  ELSE 1

Init ==
  /\ wire = <<>> /\ rx = <<>> /\ tx = <<>>
  /\ waiting = NoCommand
  /\ sent = 0 /\ faults = {}
  /\ running = TRUE /\ pc = "loop"
  /\ got = <<>>
  /\ cmd = [kind |-> "other", lba |-> 0, id |-> Stray]
  /\ do_stream = FALSE /\ stream_offset = 0 /\ stream_end = 0 /\ stream_of = Stray
  /\ pins = InitPins(Undriven)
  /\ aligned = TRUE /\ confused = FALSE

\* The host is killed, pauses for half a second between two bytes of a command, or a
\* system call fails; each once at most.
FaultKinds == {"host", "late", "read", "write", "select"}

Fault(kind) ==
  /\ kind \notin faults /\ Cardinality(faults) < MaxFaults
  /\ faults' = faults \cup {kind}
-----------------------------------------------------------------------------
(* The host and the line *)

\* The host sends one command and then waits for the whole of its answer.
HostSends ==
  /\ waiting = NoCommand /\ wire = <<>>
  /\ sent < MaxCommands
  /\ \E kind \in Kinds, lba \in Lengths :
       /\ wire' = Bytes(kind, lba, sent + 1)
       /\ waiting' = IF AnswerLen(kind, TRUE) = 0 \/ (kind = "stream" /\ lba = 0)
                     THEN NoCommand
                     ELSE [id |-> sent + 1, kind |-> kind, lba |-> lba, blk |-> 0, part |-> 1]
  /\ sent' = sent + 1
  /\ UNCHANGED <<faults, rx, tx, running, pc, got, cmd, streamVars, pins, aligned, confused>>

\* It is killed, perhaps in the middle of a command.
HostStops ==
  /\ Fault("host")
  /\ wire' = <<>> /\ waiting' = NoCommand
  /\ UNCHANGED <<sent, rx, tx, running, pc, got, cmd, streamVars, pins, aligned, confused>>

\* serial_init sets the line up for binary data but keeps ICRNL as it finds it: with
\* it, the tty turns a byte 0x0D that it receives into 0x0A.
Received(lba) == IF Icrnl /\ lba = CR THEN NL ELSE lba

Arrive ==
  /\ wire # <<>>
  /\ rx' = Append(rx, [Head(wire) EXCEPT !.lba = Received(Head(wire).lba)])
  /\ wire' = Tail(wire)
  /\ UNCHANGED <<waiting, sent, faults, tx, running, pc, got, cmd, streamVars, pins, aligned,
                 confused>>

\* What the host expects after unit u of the answer it waits for.
After(u) ==
  IF u.part < AnswerLen(waiting.kind, u.ok) THEN [waiting EXCEPT !.part = @ + 1]
  ELSE IF waiting.kind = "stream" /\ u.ok /\ u.blk + 1 < waiting.lba
  THEN [waiting EXCEPT !.blk = @ + 1, !.part = 1]
  ELSE NoCommand

HostReceives ==
  /\ tx # <<>>
  /\ LET u == Head(tx)
         expected == /\ waiting # NoCommand
                     /\ u.id = waiting.id /\ u.blk = waiting.blk /\ u.part = waiting.part
     IN  IF expected THEN waiting' = After(u) /\ UNCHANGED confused
                     ELSE confused' = TRUE /\ UNCHANGED waiting
  /\ tx' = Tail(tx)
  /\ UNCHANGED <<wire, sent, faults, rx, running, pc, got, cmd, streamVars, pins, aligned>>
-----------------------------------------------------------------------------
(* serial_read_exact and serial_write *)

\* One read(): what there is, up to what is still wanted.
Want(len) == IF Len(rx) <= len - Len(got) THEN Len(rx) ELSE len - Len(got)
Read(len) == got \o SubSeq(rx, 1, Want(len))
Take(len) == rx' = SubSeq(rx, Want(len) + 1, Len(rx))

\* VTIME, half a second, passes without a byte, though more may be on its way.
Silence ==
  /\ rx = <<>>
  /\ IF wire = <<>> THEN UNCHANGED faults ELSE Fault("late")

\* The call has all it wants; seeded fault: it returns after the first read().
CompleteAtOnce(units, len) == units # <<>>
Complete(units, len) == Len(units) = len

\* write() blocks until there is room.  One that fails loses what it still had, and
\* its caller goes on.
Room(units) == Len(tx) + Len(units) <= TxCapacity
Send(units) ==
  /\ Room(units)
  /\ \/ tx' = tx \o units /\ UNCHANGED faults
     \/ Fault("write") /\ \E n \in 0 .. Len(units) - 1 : tx' = tx \o SubSeq(units, 1, n)
-----------------------------------------------------------------------------
(* handle_stream, at the top of the loop *)

\* Seeded faults: one block too many; a failed block ends the stream in silence.
StreamOverPastEnd == stream_offset > stream_end
StreamFailsSilently == /\ do_stream' = FALSE
                       /\ UNCHANGED <<faults, tx, stream_offset>>

StreamOver == stream_offset >= stream_end

StreamFails == /\ Send(Frame(stream_of, stream_offset, FALSE, 1))
               /\ do_stream' = FALSE
               /\ UNCHANGED stream_offset

StreamBlock == /\ Send(Frame(stream_of, stream_offset, TRUE, 1 + DataUnits))
               /\ stream_offset' = stream_offset + 1
               /\ UNCHANGED do_stream

handle_stream ==
  /\ pc = "loop" /\ running
  /\ \/ /\ do_stream /\ ~StreamOver
        /\ StreamBlock \/ StreamFails
     \/ /\ do_stream => StreamOver
        /\ do_stream' = FALSE
        /\ UNCHANGED <<faults, tx, stream_offset>>
  /\ pc' = "select"
  /\ UNCHANGED <<hostVars, rx, running, got, cmd, stream_end, stream_of, pins, aligned, confused>>
-----------------------------------------------------------------------------
(* main: the rest of the loop *)

\* select() returns: readable, timed out after 100 ms, or failed.
Select ==
  /\ pc = "select"
  /\ \/ rx # <<>> /\ pc' = "header" /\ UNCHANGED faults
     \/ rx = <<>> /\ pc' = "loop" /\ UNCHANGED faults
     \/ Fault("select") /\ pc' = "exit"
  /\ got' = <<>>
  /\ UNCHANGED <<hostVars, rx, tx, running, cmd, streamVars, pins, aligned, confused>>

\* The command five bytes make: the one the host sent if they are its header, any if
\* they are something else.
Decode(units) ==
  LET whole == /\ Len(units) = HeaderUnits
               /\ \A i \in 1 .. HeaderUnits : units[i] = [units[1] EXCEPT !.part = i]
  IN  IF whole THEN {[kind |-> units[1].kind, lba |-> units[1].lba, id |-> units[1].id]}
               ELSE [kind : Kinds, lba : Lengths, id : {Stray}]

ReadHeader ==
  /\ pc = "header" /\ rx # <<>>
  /\ Take(HeaderUnits)
  /\ LET units == Read(HeaderUnits) IN
     IF Complete(units, HeaderUnits)
     THEN /\ cmd' \in Decode(units)
          /\ aligned' = (aligned /\ cmd'.id # Stray)
          /\ pc' = "command"
          /\ got' = <<>>
     ELSE /\ got' = units
          /\ UNCHANGED <<pc, cmd, aligned>>
  /\ UNCHANGED <<hostVars, faults, tx, running, streamVars, pins, confused>>

ReadPayload ==
  /\ pc = "payload" /\ rx # <<>>
  /\ Take(PayloadUnits)
  /\ LET units == Read(PayloadUnits) IN
     IF Complete(units, PayloadUnits)
     THEN pc' = "write" /\ got' = <<>>
     ELSE got' = units /\ UNCHANGED pc
  /\ UNCHANGED <<hostVars, faults, tx, running, cmd, streamVars, pins, aligned, confused>>

\* Seeded fault: a read that times out is repeated even if nothing has arrived.
ReadTimesOutNever ==
  /\ pc \in {"header", "payload"} /\ Silence
  /\ UNCHANGED <<hostVars, rx, tx, running, pc, got, cmd, streamVars, pins, aligned, confused>>

\* With nothing read yet the call returns 0, and main or WRITE_FLASH gives up; else it
\* tries again, for as long as it takes.
ReadTimesOut ==
  /\ pc \in {"header", "payload"} /\ Silence
  /\ pc' = IF got = <<>> THEN "loop" ELSE pc
  /\ UNCHANGED <<hostVars, rx, tx, running, got, cmd, streamVars, pins, aligned, confused>>

\* serial_read_exact returns -1; what it had read is gone.
ReadFails ==
  /\ pc \in {"header", "payload"}
  /\ Fault("read")
  /\ pc' = "loop" /\ got' = <<>>
  /\ UNCHANGED <<hostVars, rx, tx, running, cmd, streamVars, pins, aligned, confused>>
-----------------------------------------------------------------------------
(* handle_command *)

\* READ_FLASH writes its status and its sector by two calls, and can lose just the first.
StatusLost(units) ==
  /\ Room(units)
  /\ Fault("write")
  /\ tx' = tx \o Tail(units)

Reply ==
  \E ok \in BOOLEAN :
    /\ cmd.kind = "version" => ok
    /\ \/ Send(Frame(cmd.id, 0, ok, AnswerLen(cmd.kind, ok)))
       \/ cmd.kind = "read" /\ ok /\ StatusLost(Frame(cmd.id, 0, ok, AnswerLen(cmd.kind, ok)))

\* Seeded fault: a stream starts where the one before it stopped.
StartStreamAnywhere ==
  /\ do_stream' = TRUE /\ stream_end' = cmd.lba /\ stream_of' = cmd.id
  /\ UNCHANGED stream_offset

StartStream ==
  /\ do_stream' = TRUE /\ stream_offset' = 0 /\ stream_end' = cmd.lba /\ stream_of' = cmd.id

handle_command ==
  /\ pc = "command"
  /\ \/ cmd.kind \in {"version", "read"} /\ Reply /\ pc' = "loop" /\ UNCHANGED streamVars
     \/ cmd.kind = "write" /\ pc' = "payload" /\ UNCHANGED <<faults, tx, streamVars>>
     \/ cmd.kind = "stream" /\ StartStream /\ pc' = "loop" /\ UNCHANGED <<faults, tx>>
     \/ cmd.kind = "other" /\ pc' = "loop" /\ UNCHANGED <<faults, tx, streamVars>>
  /\ UNCHANGED <<hostVars, rx, running, got, cmd, pins, aligned, confused>>

\* WRITE_FLASH once its sector is there.
WriteSector ==
  /\ pc = "write"
  /\ Reply
  /\ pc' = "loop"
  /\ UNCHANGED <<hostVars, rx, running, got, cmd, streamVars, pins, aligned, confused>>
-----------------------------------------------------------------------------
(* The end *)

\* SIGINT or SIGTERM.  A pending select() returns EINTR; read() and write() are
\* restarted, by the C library or by their callers.
signal_handler ==
  /\ running
  /\ running' = FALSE
  /\ \/ pc = "select" /\ pc' = "loop"
     \/ UNCHANGED pc
  /\ UNCHANGED <<hostVars, faults, rx, tx, got, cmd, streamVars, pins, aligned, confused>>

Leave ==
  /\ pc = "loop" /\ ~running
  /\ pc' = "exit"
  /\ UNCHANGED <<hostVars, faults, rx, tx, running, got, cmd, streamVars, pins, aligned, confused>>

Exit ==
  /\ pc = "exit"
  /\ pins' = StartSmc(pins)
  /\ pc' = "done"
  /\ UNCHANGED <<hostVars, faults, rx, tx, running, got, cmd, streamVars, aligned, confused>>
-----------------------------------------------------------------------------
Device ==
  \/ handle_stream \/ Select
  \/ ReadHeader \/ ReadPayload \/ ReadTimesOut \/ ReadFails
  \/ handle_command \/ WriteSector
  \/ Leave \/ Exit

Host == HostSends \/ HostStops \/ HostReceives

Next == Device \/ Host \/ Arrive \/ signal_handler

Spec == Init /\ [][Next]_vars

\* The process is scheduled, the line delivers, the host reads what it is sent;
\* nothing makes the host send, or a signal or a fault happen.
FairSpec == Spec /\ WF_vars(Device) /\ WF_vars(Arrive) /\ WF_vars(HostReceives)
-----------------------------------------------------------------------------
(* Properties *)

UnitIn ==
  [kind : Kinds, lba : Lengths, id : 1 .. MaxCommands, part : 1 .. HeaderUnits + PayloadUnits]
UnitOut == [id : 0 .. MaxCommands, blk : Nat, ok : BOOLEAN, part : 1 .. 1 + DataUnits]

\* Every variable keeps its type, serial_read_exact never reads past its buffer, a
\* stream never runs past its end and write() never past its queue.
TypeOK ==
  /\ wire \in Seq(UnitIn) /\ rx \in Seq(UnitIn)
  /\ tx \in Seq(UnitOut) /\ Len(tx) <= TxCapacity
  /\ waiting \in {NoCommand} \cup
       [id : 1 .. MaxCommands, kind : Kinds, lba : Lengths, blk : Nat, part : 1 .. 1 + DataUnits]
  /\ sent \in 0 .. MaxCommands /\ faults \subseteq FaultKinds
  /\ running \in BOOLEAN
  /\ pc \in {"loop", "select", "header", "command", "payload", "write", "exit", "done"}
  /\ got \in Seq(UnitIn)
  /\ pc = "header" => Len(got) < HeaderUnits
  /\ pc = "payload" => Len(got) < PayloadUnits
  /\ pc \notin {"header", "payload"} => got = <<>>
  /\ cmd \in [kind : AllKinds, lba : Nat, id : 0 .. MaxCommands]
  /\ do_stream \in BOOLEAN /\ stream_end \in Nat /\ stream_of \in 0 .. MaxCommands
  /\ stream_offset \in 0 .. stream_end
  /\ pins \in PinType
  /\ aligned \in BOOLEAN /\ confused \in BOOLEAN

\* A host that waits for each answer before its next command never receives a unit
\* other than the next one of that answer, unless it was killed or late, or a read or
\* write failed: frames are whole, stream blocks come in order, once, from the first on.
HostInStep == confused => faults \cap {"host", "late", "read", "write"} # {}

\* However the line cuts a command into reads, and whatever the loop was doing when
\* it came, a header is read as a header and a payload as its payload.  Only a command
\* cut short loses that: the host was killed or paused while sending, or a read failed.
FramingHolds == ~aligned => faults \cap {"host", "late", "read"} # {}

\* The host gets the whole answer to every command.
EveryAnswerArrives ==
  waiting # NoCommand ~> waiting = NoCommand \/ faults # {} \/ ~running

\* serial_read_exact has part of what it wants and the line is silent.
MidRead == pc \in {"header", "payload"} /\ got # <<>>

\* After a signal the process gets to the end of main, from every place of the loop
\* but one: serial_read_exact in the middle of a header or payload.
StopsUnlessMidRead == ~running ~> pc = "done" \/ MidRead

(***************************************************************************)
(* What comments and documents say of this code.                            *)
(***************************************************************************)

\* "Graceful shutdown with 'Shutting down Pi4Flasher...' message" (TESTING.md, Test
\* 2.3, after Ctrl+C): the loop is left after a signal.
ShutsDown == ~running ~> pc = "done"

\* "Puts SMC in reset and enables debug mode for NAND access" (xbox.h, of
\* xbox_stop_smc): when a NAND command is handled that has been done.
CommandsReachNand == pc = "command" /\ cmd.kind # "other" => NandReachable(pins)

\* "Read-back matches written data" (TESTING.md, Test 5.4): the sector handled is the
\* sector the host named.
SectorAsSent ==
  pc = "command" /\ aligned /\ waiting # NoCommand /\ cmd.id = waiting.id =>
    cmd.lba = waiting.lba
=============================================================================
