------------------------------- MODULE PicoUsb -------------------------------
(***************************************************************************)
(* PicoFlasher/main.c: one USB serial command link, served by one thread     *)
(* that alternates tud_task() and stream() for ever.                        *)
(*                                                                         *)
(* tud_task runs the callbacks: mount, unmount, suspend, resume, and         *)
(* tud_cdc_rx_cb when bytes have arrived.  A callback, and a call of         *)
(* stream(), runs to its end before anything else of the firmware does, so   *)
(* each is one action; the host and the bus move between them.  What a NAND  *)
(* or eMMC access answers is left open: XboxNand says how it comes about.    *)
(*                                                                         *)
(* Bytes travel in units: a command header is one, its payload PayloadUnits, *)
(* a status (at most 4 bytes) one and a sector DataUnits.  How the bytes a   *)
(* host wrote are cut into transfers is up to the host's driver.             *)
(***************************************************************************)
EXTENDS Integers, Sequences, XboxSmc

CONSTANTS
  Kinds,         \* the commands the host uses, a subset of AllKinds
  Lengths,       \* the sector counts it streams
  PayloadUnits,  \* a payload, in units
  DataUnits,     \* a sector in a reply, in units
  TxCapacity,    \* CFG_TUD_CDC_TX_BUFSIZE, in units
  MaxCommands,   \* bound: the commands the host sends
  MaxAttach,     \* bound: enumerations, suspends and unplugs
  NoCommand      \* the host waits for nothing

PayloadKinds == {"write", "isd_write", "emmc_write"}

\* GET_VERSION and GET_FLASH_CONFIG; READ_FLASH; WRITE_FLASH; READ_FLASH_STREAM; the
\* ISD1200 commands with a one-byte answer; ISD1200_READ_FLASH; ISD1200_WRITE_FLASH;
\* REBOOT_TO_BOOTLOADER; EMMC_DETECT; EMMC_INIT; EMMC_GET_CID, _CSD and _EXT_CSD;
\* EMMC_READ; EMMC_READ_STREAM; EMMC_WRITE; and any other byte.
AllKinds ==
  {"version", "read", "stream", "isd", "isd_read", "reboot", "emmc_detect", "emmc_init",
   "emmc_info", "emmc_read", "emmc_stream", "other"} \cup PayloadKinds

ASSUME LinkAssumption ==
  /\ Kinds \subseteq AllKinds
  /\ Lengths \subseteq Nat
  /\ PayloadUnits \in Nat \ {0}
  /\ DataUnits \in Nat \ {0}
  /\ TxCapacity \in Nat
  /\ TxCapacity >= 1 + DataUnits
  /\ MaxCommands \in Nat
  /\ MaxAttach \in Nat

ASSUME NoCommandAssumption ==
  NoCommand \notin [id : Nat, kind : AllKinds, lba : Nat, blk : Nat, part : Nat]

VARIABLES
  \* the bus and the host
  usb,            \* "detached", "mounted", "suspended", or "gone" into the bootloader
  wire,           \* units the host has written and the device has not yet received
  waiting,        \* the reply unit the host expects next, or NoCommand
  sent,           \* how many commands the host has sent
  attached,       \* how many bus events there have been
  \* the USB stack
  rx,             \* its receive FIFO
  tx,             \* its transmit FIFO
  sending,        \* a transfer of tx is under way
  \* main.c
  pins,           \* the lines to the console (XboxSmc)
  do_stream, stream_emmc, stream_offset, stream_end,
  hung,           \* an access to the SPI block never returned
  \* history
  stream_of,      \* the command that started the current stream
  emmc_ready,     \* EMMC_INIT has been run since the device was attached
  aligned,        \* no payload unit has been taken for a command header
  short_emmc,     \* EMMC_WRITE ran before its payload had arrived
  orphaned,       \* a stream outlived the attachment it was started in
  asleep,         \* a stream wrote during a suspend, and nothing has sent it since
  confused        \* the host received a unit it was not waiting for

busVars == <<usb, wire, waiting, sent, attached>>
fifoVars == <<rx, tx, sending, asleep>>
streamVars == <<do_stream, stream_emmc, stream_offset, stream_end, stream_of, hung>>
history == <<emmc_ready, aligned, short_emmc, orphaned, confused>>
vars == <<busVars, fifoVars, pins, streamVars, history>>

Stray == 0  \* the number of a command that was never sent as one

\* What the host writes for command number id.
Bytes(kind, lba, id) ==
  [part \in 1 .. 1 + (IF kind \in PayloadKinds THEN PayloadUnits ELSE 0) |->
     [kind |-> kind, lba |-> lba, id |-> id, part |-> part]]

\* The frame that answers command id (block blk of it, for a stream).
Frame(id, blk, ok, len) ==
  [part \in 1 .. len |-> [id |-> id, blk |-> blk, ok |-> ok, part |-> part]]

StreamKinds == {"stream", "emmc_stream"}

\* The length of the answer; READ_FLASH and EMMC_READ send data only on success.
AnswerLen(kind, ok) ==
  IF kind \in {"reboot", "other"} THEN 0
  ELSE IF kind \in {"isd_read", "emmc_info"} THEN DataUnits
  ELSE IF ok /\ kind \in {"read", "emmc_read"} \cup StreamKinds THEN 1 + DataUnits
  ELSE 1

\* tud_cdc_write takes what fits and drops the rest; nobody looks at its result.
Put(fifo, units) ==
  fifo \o SubSeq(units, 1, IF Len(units) <= TxCapacity - Len(fifo)
                           THEN Len(units) ELSE TxCapacity - Len(fifo))

Init ==
  /\ usb = "detached"
  /\ wire = <<>> /\ rx = <<>> /\ tx = <<>> /\ sending = FALSE
  /\ waiting = NoCommand
  /\ sent = 0
  /\ attached = 0
  /\ pins = InitPins(Undriven)
  /\ do_stream = FALSE /\ stream_emmc = FALSE
  /\ stream_offset = 0 /\ stream_end = 0 /\ stream_of = Stray /\ hung = FALSE
  /\ emmc_ready = FALSE
  /\ aligned = TRUE /\ short_emmc = FALSE /\ orphaned = FALSE /\ confused = FALSE
  /\ asleep = FALSE
-----------------------------------------------------------------------------
(* Bus events *)

\* The attachment is over: the stack drops both FIFOs and the host starts afresh.
Disconnect ==
  /\ wire' = <<>> /\ rx' = <<>> /\ sending' = FALSE
  /\ waiting' = NoCommand
  /\ emmc_ready' = FALSE
  /\ aligned' = TRUE /\ short_emmc' = FALSE /\ confused' = FALSE /\ asleep' = FALSE
  /\ orphaned' = (orphaned \/ do_stream)

BusEvent == ~hung /\ attached < MaxAttach /\ attached' = attached + 1

\* Enumeration, also of a device already attached.  stream() may have filled the
\* transmit FIFO again between the bus reset that emptied it and this callback.
tud_mount_cb ==
  /\ usb # "gone"
  /\ BusEvent
  /\ usb' = "mounted"
  /\ pins' = StopSmc(pins)
  /\ Disconnect
  /\ tx' \in IF usb = "detached" THEN {<<>>, tx} ELSE {<<>>}
  /\ UNCHANGED <<sent, streamVars>>

tud_umount_cb ==
  /\ usb \in {"mounted", "suspended"}
  /\ BusEvent
  /\ usb' = "detached"
  /\ pins' = StartSmc(pins)
  /\ Disconnect
  /\ tx' = <<>>
  /\ UNCHANGED <<sent, streamVars>>

tud_suspend_cb ==
  /\ usb = "mounted"
  /\ BusEvent
  /\ usb' = "suspended"
  /\ pins' = StartSmc(pins)
  /\ UNCHANGED <<wire, waiting, sent, fifoVars, streamVars, history>>

tud_resume_cb ==
  /\ usb = "suspended" /\ ~hung
  /\ usb' = "mounted"
  /\ pins' = StopSmc(pins)
  /\ UNCHANGED <<wire, waiting, sent, attached, fifoVars, streamVars, history>>
-----------------------------------------------------------------------------
(* The host *)

\* It sends one command and then waits for the whole of its answer.
HostSends ==
  /\ usb = "mounted" /\ waiting = NoCommand /\ wire = <<>>
  /\ sent < MaxCommands
  /\ \E kind \in Kinds, lba \in Lengths :
       /\ wire' = Bytes(kind, lba, sent + 1)
       /\ waiting' = IF AnswerLen(kind, TRUE) = 0 \/ (kind \in StreamKinds /\ lba = 0)
                     THEN NoCommand
                     ELSE [id |-> sent + 1, kind |-> kind, lba |-> lba, blk |-> 0, part |-> 1]
  /\ sent' = sent + 1
  /\ UNCHANGED <<usb, attached, fifoVars, pins, streamVars, history>>

\* What it expects after unit u of the answer it waits for.
After(u) ==
  IF u.part < AnswerLen(waiting.kind, u.ok) THEN [waiting EXCEPT !.part = @ + 1]
  ELSE IF waiting.kind \in StreamKinds /\ u.ok /\ u.blk + 1 < waiting.lba
  THEN [waiting EXCEPT !.blk = @ + 1, !.part = 1]
  ELSE NoCommand

\* A unit of the transfer under way arrives; when the FIFO has drained the stack
\* has nothing more to send.
HostReceives ==
  /\ usb = "mounted" /\ sending
  /\ LET u == Head(tx)
         expected == /\ waiting # NoCommand
                     /\ u.id = waiting.id /\ u.blk = waiting.blk /\ u.part = waiting.part
     IN  IF expected THEN waiting' = After(u) /\ UNCHANGED confused
                     ELSE confused' = TRUE /\ UNCHANGED waiting
  /\ tx' = Tail(tx)
  /\ sending' = (tx' # <<>>)
  /\ UNCHANGED <<usb, wire, sent, attached, rx, pins, streamVars, emmc_ready, aligned,
                 short_emmc, orphaned, asleep>>
-----------------------------------------------------------------------------
(* tud_cdc_rx_cb *)

CountedPayloadIsdOnly == {"isd_write"}  \* Seeded fault: WRITE_FLASH forgotten as well

\* EMMC_WRITE is missing here, although it has a payload too.
CountedPayload == {"write", "isd_write"}

NeededData(kind) == 1 + (IF kind \in CountedPayload THEN PayloadUnits ELSE 0)

\* The payload a handler reads after its header: short if it has not all arrived.
Payload(kind, rest) ==
  IF kind \in PayloadKinds
  THEN SubSeq(rest, 1, IF Len(rest) < PayloadUnits THEN Len(rest) ELSE PayloadUnits)
  ELSE <<>>

\* Seeded faults: no flush after the answer; a transfer started with nothing to send.
AnswerUnflushed(kind, id, ok) ==
  /\ tx' = Put(tx, Frame(id, 0, ok, AnswerLen(kind, ok)))
  /\ UNCHANGED sending
AnswerAlwaysSends(kind, id, ok) ==
  /\ tx' = Put(tx, Frame(id, 0, ok, AnswerLen(kind, ok)))
  /\ sending' = TRUE

\* A command that answers at once.
Answer(kind, id, ok) ==
  /\ tx' = Put(tx, Frame(id, 0, ok, AnswerLen(kind, ok)))
  /\ sending' = (tx' # <<>>)     \* tud_cdc_write_flush

\* The handler of one command; `short` if its payload has not all arrived.
Handle(kind, lba, id, short) ==
  \/ /\ short                    \* `count != sizeof(buffer)`: return, no answer
     /\ UNCHANGED <<usb, tx, sending, pins, streamVars, emmc_ready>>
  \/ /\ ~short /\ kind \in StreamKinds
     /\ stream_emmc' = (kind = "emmc_stream")
     /\ do_stream' = TRUE
     /\ stream_offset' = 0
     /\ stream_end' = lba
     /\ stream_of' = id
     /\ sending' = (tx # <<>>)
     /\ UNCHANGED <<usb, tx, pins, hung, emmc_ready>>
  \/ /\ ~short /\ kind = "emmc_init"
     /\ pins' = PutRst(pins, FALSE)
     /\ emmc_ready' = TRUE
     /\ Answer(kind, id, TRUE)
     /\ UNCHANGED <<usb, streamVars>>
  \/ /\ ~short /\ kind = "reboot"
     /\ usb' = "gone"
     /\ UNCHANGED <<tx, sending, pins, streamVars, emmc_ready>>
  \/ /\ ~short /\ kind \notin StreamKinds \cup {"emmc_init", "reboot"}
     /\ \E ok \in BOOLEAN :
          /\ kind \notin {"read", "emmc_read"} => ok
          /\ Answer(kind, id, ok)
     /\ UNCHANGED <<usb, pins, streamVars, emmc_ready>>

\* A transfer of n units has arrived: ONE command is handled, if it is complete.
\* A payload unit in the place of a header is whatever byte the host's data holds.
tud_cdc_rx_cb ==
  /\ usb = "mounted" /\ ~hung
  /\ \E n \in 1 .. Len(wire) :
       LET fifo == rx \o SubSeq(wire, 1, n)
           head == Head(fifo)
           rest == Tail(fifo)
           isHeader == head.part = 1
       IN
       /\ wire' = SubSeq(wire, n + 1, Len(wire))
       /\ \E kind \in IF isHeader THEN {head.kind} ELSE Kinds,
             lba \in IF isHeader THEN {head.lba} ELSE Lengths :
            IF Len(fifo) < NeededData(kind)
            THEN /\ rx' = fifo
                 /\ UNCHANGED <<usb, tx, sending, pins, streamVars, emmc_ready, aligned,
                                short_emmc>>
            ELSE LET payload == Payload(kind, rest)
                     short == kind \in PayloadKinds /\ Len(payload) < PayloadUnits
                 IN
                 /\ rx' = SubSeq(rest, Len(payload) + 1, Len(rest))
                 /\ aligned' = (aligned /\ isHeader)
                 /\ short_emmc' = (short_emmc \/ (short /\ kind = "emmc_write"))
                 /\ Handle(kind, lba, IF isHeader THEN head.id ELSE Stray, short)
  /\ UNCHANGED <<waiting, sent, attached, orphaned, asleep, confused>>
-----------------------------------------------------------------------------
(* stream(), called between any two tud_task()s *)

StreamEnds ==
  /\ do_stream /\ stream_offset >= stream_end
  /\ do_stream' = FALSE
  /\ UNCHANGED <<busVars, fifoVars, pins, stream_emmc, stream_offset, stream_end, stream_of,
                 hung, history>>

\* When there is room for a frame a sector is read, and either its block goes out or
\* the error that ends the stream.  stream() does not flush: the stack starts a transfer
\* by itself, if none is under way, when a write leaves a packet (a data unit is more
\* than one) in the FIFO, but never on a bus that is not mounted or is suspended.
StreamRoomWithoutStatus == DataUnits  \* Seeded fault: the four status bytes forgotten
StreamRoom == 1 + DataUnits

PacketIn(fifo) == \E i \in 1 .. Len(fifo) : fifo[i].part > 1

StreamReads ==
  /\ do_stream /\ stream_offset < stream_end
  /\ TxCapacity - Len(tx) >= StreamRoom
  /\ \/ /\ tx' = Put(tx, Frame(stream_of, stream_offset, TRUE, 1 + DataUnits))
        /\ stream_offset' = stream_offset + 1
        /\ UNCHANGED do_stream
     \/ /\ tx' = Put(tx, Frame(stream_of, stream_offset, FALSE, 1))
        /\ do_stream' = FALSE
        /\ UNCHANGED stream_offset
  /\ sending' = (sending \/ (usb = "mounted" /\ PacketIn(tx')))
  /\ asleep' = (~sending' /\ (asleep \/ usb = "suspended"))
  /\ UNCHANGED <<busVars, rx, pins, stream_emmc, stream_end, stream_of, hung, history>>

\* A suspend or an unplug has put the SPI block back into reset, where its status bits
\* need not ever say what the SDK's transfer waits for; nothing else runs meanwhile.
StreamHangs ==
  /\ do_stream /\ stream_offset < stream_end /\ ~stream_emmc
  /\ TxCapacity - Len(tx) >= StreamRoom
  /\ ~pins.spi
  /\ hung' = TRUE
  /\ UNCHANGED <<busVars, fifoVars, pins, do_stream, stream_emmc, stream_offset, stream_end,
                 stream_of, history>>

Stream == usb # "gone" /\ ~hung /\ (StreamEnds \/ StreamReads \/ StreamHangs)
-----------------------------------------------------------------------------
Bus == tud_mount_cb \/ tud_umount_cb \/ tud_suspend_cb \/ tud_resume_cb

Next == Bus \/ HostSends \/ HostReceives \/ tud_cdc_rx_cb \/ Stream

Spec == Init /\ [][Next]_vars

\* The main loop keeps calling both functions, the host reads what it is sent and a
\* suspended bus is resumed; nothing makes the host send or the bus change.
FairSpec ==
  /\ Spec
  /\ WF_vars(tud_cdc_rx_cb) /\ WF_vars(Stream)
  /\ WF_vars(HostReceives) /\ WF_vars(tud_resume_cb)
-----------------------------------------------------------------------------
(* Properties *)

UnitIn(kinds) ==
  [kind : kinds, lba : Lengths, id : 1 .. MaxCommands, part : 1 .. 1 + PayloadUnits]
UnitOut ==
  [id : 0 .. MaxCommands, blk : Nat, ok : BOOLEAN, part : 1 .. 1 + DataUnits]

\* Every variable keeps its type, and the FIFOs their capacity.
TypeOK ==
  /\ usb \in {"detached", "mounted", "suspended", "gone"}
  /\ wire \in Seq(UnitIn(Kinds)) /\ rx \in Seq(UnitIn(Kinds))
  /\ Len(wire) + Len(rx) <= 1 + PayloadUnits
  /\ tx \in Seq(UnitOut) /\ Len(tx) <= TxCapacity
  /\ sending \in BOOLEAN /\ (sending => tx # <<>>)
  /\ waiting \in {NoCommand} \cup
       [id : 1 .. MaxCommands, kind : Kinds, lba : Lengths, blk : Nat, part : 1 .. 1 + DataUnits]
  /\ sent \in 0 .. MaxCommands
  /\ attached \in 0 .. MaxAttach
  /\ pins \in PinType
  /\ do_stream \in BOOLEAN /\ stream_emmc \in BOOLEAN
  /\ stream_offset \in Nat /\ stream_end \in Nat /\ stream_of \in 0 .. MaxCommands
  /\ hung \in BOOLEAN
  /\ emmc_ready \in BOOLEAN /\ aligned \in BOOLEAN /\ short_emmc \in BOOLEAN
  /\ orphaned \in BOOLEAN /\ asleep \in BOOLEAN /\ confused \in BOOLEAN

\* A host that waits for each answer before its next command never receives a unit
\* other than the next one of that answer, however its own bytes were cut into
\* transfers and however slowly it reads: every frame is whole, stream blocks come
\* in order and once.  The two exceptions are a stream that outlived its
\* attachment, and a link on which a payload was taken for a command.
HostInStep == confused => orphaned \/ ~aligned

\* A payload is taken for a command only after an EMMC_WRITE that ran before its
\* sector had arrived; every other command, in any chunking, keeps its framing.
FramingHolds == ~aligned => short_emmc

\* While the device is attached and no EMMC_INIT has been run, NAND registers can
\* be reached: SPI is up and the SMC came out of reset in debug mode, whatever
\* suspends, resumes and enumerations came before.
NandReachableWhileMounted ==
  usb = "mounted" /\ ~emmc_ready => NandReachable(pins)

\* The last unit of a stream that failed, alone in a FIFO nobody flushes.
StatusStranded ==
  /\ ~sending /\ ~do_stream
  /\ Len(tx) = 1 /\ ~tx[1].ok

\* What a stream wrote while the bus was suspended, in a FIFO that nobody flushes: the
\* stream is over, or waits for room in it.
StreamAsleep ==
  /\ ~sending /\ asleep /\ tx # <<>>
  /\ do_stream => TxCapacity - Len(tx) < StreamRoom

\* The host gets the whole answer to every command, unless the bus goes away, or a
\* stream failed with an empty FIFO and left its status there, or a stream filled the
\* FIFO or ended during a suspend, or the framing was lost to an early EMMC_WRITE, or a
\* stream of NAND sectors went on into a suspend, where it may hang the firmware;
\* nothing hangs while the device is in use.
EveryAnswerArrives ==
  waiting # NoCommand ~>
    waiting = NoCommand \/ StatusStranded \/ StreamAsleep \/ short_emmc \/ orphaned
      \/ (hung /\ usb = "suspended")
=============================================================================
