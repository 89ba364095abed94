# A TLA+ model of PicoFlasher and Pi4Flasher

The repository holds two programs that read and write the flash memory of an
Xbox 360 for a host program (J-Runner): **PicoFlasher**, the firmware of a
Raspberry Pi Pico on USB, and **Pi4Flasher**, a port of its NAND half to a Linux
process on a serial line. This directory models them in TLA+, checks the models
with TLC and proves theorems about them with TLAPS.

## The system

| Part | Source | State | Operations | Talks to |
|---|---|---|---|---|
| NAND access | `xbox.c` (both; same statements) | cached configuration word; otherwise only the registers, page buffer and array of the console's flash controller | get config, read sector, erase block, write sector, wait ready | controller, by SPI registers |
| SMC control | `xbox.c` | three output pins, SPI block up or down | init, start SMC, stop SMC | the console's SMC |
| SPI register link | `spiex.c` (both; over the SDK's SPI block or `pi4_spi.c`) | chip select, block up or down | read, write register; init, deinit | controller |
| Pico command link | `PicoFlasher/main.c` | stream flag, offset, end, kind; `emmc_detected` | four bus callbacks, `tud_cdc_rx_cb` (23 commands), `stream()` | host by USB; NAND, eMMC, ISD1200 |
| Pi 4 command loop | `Pi4Flasher/src/main.c` | stream flag, offset, end; `running` | select loop, `serial_read_exact`, `serial_write`, `handle_stream`, `handle_command`, signal handler | host by tty; NAND |
| eMMC driver | `sdio.c`, `sdio.pio` | RCA, CID, CSD, control-word buffers, three DMA channels, three PIO state machines | init, read/write blocks, ext CSD | the card |
| ISD1200 driver | `isd1200.c`, `nuvoton_spi.c`, `pio_spi.c`, `spi.pio` | device id, PIO program offset | init, deinit, id, read, erase, write, play, macro, reset | the voice chip, by PIO1, which it shares with the eMMC driver |
| Pi 4 hardware layer | `pi4_spi.c`, `pi4_gpio.c` | initialised flag | wrappers of the bcm2835 library | pins |
| Descriptors, tables, build, scripts | rest | – | – | – |

There is one thread of execution in each program. What makes them hard is what
moves beside that thread: the flash controller, which stays busy as long as it
likes and keeps running a job whose wait was given up; the bus, which suspends,
resumes and disappears between two callbacks; the USB stack's FIFOs, which cut and
join the host's bytes; a serial line that stops in the middle of a command; a
signal; DMA channels that stay armed after an error; a voice chip that ignores what it is told
while it powers up; two FIFOs between the CPU and a PIO state machine. What has to hold of
each part:

* **NAND access** – registers are touched only while the controller is idle; a job
  is the one that was asked for; a read returns its sector; an image written in
  block order is what the flash holds; nothing outside the addressed block
  changes; every request ends.
* **SMC control** – after any order of mount, unmount, suspend and resume the NAND
  is reachable exactly while it should be.
* **SPI register link** – a register access is one atomic read or write of a word for its
  caller, whatever the controller does meanwhile and whoever shifts the bytes.
* **Command links** – the host receives whole frames, in order, once; a payload is
  never taken for a command; every answer arrives; the process ends when told to.
* **eMMC, ISD1200** – no access is left half armed, acknowledged data is on the chip, waits
  end, and the PIO memory they share holds both drivers' programs intact.

## Modules

| Module | Models | Extends |
|---|---|---|
| `NandGeometry` | pages, erase blocks, the configuration word and the block size decoded from it | |
| `FlashStore` | abstract: what the NAND layer promises its callers – ask, start job, carry out, succeed, give up | `NandGeometry` |
| `XboxNand` | `xbox.c` against the flash controller | `NandGeometry` |
| `XboxNandProofs` | theorems about `XboxNand`: types, register traffic | `XboxNand` |
| `XboxNandImageProofs` | theorems about `XboxNand`: images, the refinement of `FlashStore` | `XboxNandProofs` |
| `RegisterFile` | abstract: what a register access promises `xbox.c` | |
| `SpiExchange` | abstract: what a full-duplex SPI transfer promises its caller | |
| `SpiLink` | `spiex.c` of both firmwares, over `SpiExchange`; implements `RegisterFile` | |
| `SpiLinkProofs` | theorems about `SpiLink` | `SpiLink` |
| `PioSpi` | `pio_spi.c` and `spi_cpha1_cs` of `spi.pio`; implements `SpiExchange` | |
| `PioSpiProofs` | theorems about `PioSpi` | `PioSpi` |
| `Isd1200` | `isd1200.c`, `nuvoton_spi.c` and the memory of PIO1, against the voice chip | `PioSpi` |
| `Isd1200Proofs` | theorems about `Isd1200` | `Isd1200`, `PioSpiProofs` |
| `XboxSmc` | the pins and `xbox_init`, `xbox_start_smc`, `xbox_stop_smc` | |
| `PicoUsb` | `PicoFlasher/main.c` | `XboxSmc` |
| `PicoUsbProofs` | theorems about `PicoUsb` | `PicoUsb` |
| `Pi4Serial` | `Pi4Flasher/src/main.c` | `XboxSmc` |
| `Pi4SerialProofs` | theorems about `Pi4Serial` | `Pi4Serial` |
| `Sdio` | `PicoFlasher/sdio.c` and `sdio.pio` against the card | |
| `SdioProofs` | theorems about `Sdio` | `Sdio` |
| `MCXboxNand`, `MCSpiLink`, `MCIsd1200`, `MCPicoUsb`, `MCPi4Serial`, `MCSdio` | small instances for TLC | |

The layers meet in the abstract modules: `xbox.c` is modelled over atomic registers because
`SpiLink` implements `RegisterFile`, and `SpiLink` moves bytes by `SpiExchange`, which is what
the transfer functions of the SDK and of the bcm2835 library are taken for and what `PioSpi`, the
one transfer the repository writes itself, is shown and proved to implement.

### XboxNand

Each step of the driver is one call that reaches the controller, named by `pc`, the
*next* register access; `stage` says which of the three sequences (read, erase,
program) it belongs to. A read runs `clear, address, command, wait, rewind, fetch…`;
a write `config`, then for a first sector `clear, enable, address, command, wait`
(the erase) and always `clear, rewind, store…, filled, address, addressed, command,
wait`. `filled`, `addressed` and `wait` are the three places where
`xbox_nand_wait_ready` is called (`Polls`). Between any two steps the controller may
finish its job (`FinishRead`, `FinishErase`, `FinishProgram`) or refuse it
(`RefuseJob`: error bit set, nothing done).

A wait that sees busy `Timeout + 1` times answers an error and leaves the job running,
so the next request can begin behind a busy controller. The history variable `clean`
marks requests that began on an idle one; promises about data are made for those.
`image` is what a caller may conclude from the answers it got so far.

Data is abstracted to bits: a word is the set of its 1 bits, programming is
intersection (`Overlay`), erased is all ones (`Blank`). `lba << 9` in 32 bits is
`SectorOf` (a modulo); `lba % sectors_in_block` is taken of the whole `lba`, as in
the code. The two firmwares' `xbox.c` hold the same statements (the Pi 4's differs in its
pin calls); "map" names lines of either.

A cached configuration word outlives its console: `Probed` is what the cache may already hold,
nothing, the `FloatingBus` of a Pico with no console powered or the word of an earlier console with
smaller blocks, and the block size then comes from there for good. With the last of these a write to a
sector in the middle of a block erases the whole block; `OnlyTheAddressedBlock` excepts that, and nothing
else (`CacheNotFiner`). Where images are asked about (`xbox_nand_blocks`) the word is
the console's.

What is taken from outside the repository, from how `xbox.c` uses the controller: a
command given to a busy controller is lost; a job uses the address and page buffer of
the moment its command came; an erase needs the write-enable bit; a refused job
changes nothing.

### RegisterFile and SpiLink

`RegisterFile` is the view of a caller: an access is asked for, served at one moment, answered.
`SpiLink` has the frames instead: `Access` lowers chip select and starts the exchange of the
frame `spiex.c` builds (`ReadFrame`, `WriteFrame`), each `ExchangeByte` is a byte on the line,
`Return` raises chip select and takes the value out of the buffer. The SPI block sends the highest
bit first and the controller takes the first for the lowest: `Crossed` is what that makes of a
byte and `lsb2msb` is the table that undoes it. The controller collects the bytes it hears while
chip select is low (`heard`), takes the word of a register to be read into `latch` after the
turn-around byte, and stores a written one with its last byte. Its registers change at any
moment (`RegisterChanges`).

`spiex_init` may fail on the Pi 4 (`bcm2835_spi_begin`); it then says so and returns, nobody asks,
and every read gives whatever the line floats at: `RegisterFile` promises nothing for a link that
is down. On the Pico the link is up while the device is mounted (`NandReachableWhileMounted`); on
the Pi 4 see `pi4_nand`.
The PIO variant of the Pico's `spiex.c` is under `#if 0`. Not in the model: the clock (28 MHz asked
of the Pi 4 give 15.625 MHz, the next power of two down).

### PioSpi and Isd1200

`PioSpi` is one transfer: the CPU pushes and pops (`PushByte`, `PopByte`), the state machine
fetches and shifts (`SelectChip`, `ShiftByte`), and source and destination are one buffer. Chip
select goes high when the state machine finds no byte, so a frame is whole only because the CPU is
faster than the line: `KeepsUp` states that assumption (8 microseconds a byte against a few
instructions).

`Isd1200` adds the calls of `main.c`. `step` names the transfer in progress and `After` what its
answers lead to: the polls of `isd1200_power_up`, `isd1200_chip_erase` and `isd1200_flash_write`
repeat their step. `Places` is `pio_add_program`: from the top of the 32 instructions down, or at
0 for the program of the eMMC's lines, whose origin is fixed; with no place the firmware panics.
`EmmcInit` is what `sd_init` does to PIO1. Playing a prompt and a macro are one call.

Taken from outside, as the driver uses the chip: a command acts at the end of its frame; a digital
command is ignored while the chip is powered down or starting, and perhaps while it plays; it powers
down on reset; reading the interrupt status clears WR_FIN; with no chip RDY stays low.

What the model shows of this driver besides its properties:
* each `ISD1200_INIT` without a `DEINIT` in between, a retry of one that answered 1 included, takes
  ten more instructions: after `EMMC_INIT` (21 of the 32) there is room for one, and the second
  panics (`PanicOnlyAfterLeak` says that nothing else does);
* `EMMC_INIT` takes state machine 0 for its clock, and the next ISD1200 command waits for ever unless
  `ISD1200_INIT` came before it; that in turn takes the clock from the card (`IsdInit` in `Sdio`);
* an ISD1200 command before any `ISD1200_INIT` goes through a null pointer (`step = "dead"`);
* a write to a powered-down chip never returns, an erase is answered 0 and has not happened, a read
  returns nothing of the chip: CMD_ERR is not looked at. `refused` marks these calls.

### XboxSmc

The two pulses on the reset line are straight-line code that nothing can interrupt
halfway, so they are functions on a record of pin levels, composed of the same
`gpio_put`s in the same order. The console's contract: reset low holds the SMC, and
at the rising edge it samples the debug line.

### PicoUsb

One action per callback and two for `stream()`; each runs to its end before anything
else of the firmware. The actions `Handle` and `Answer` are the body of
`tud_cdc_rx_cb`, and `NeededData` its length check, which leaves `EMMC_WRITE` out as
the code does. Around them: a host that sends one command and waits for its answer, a
bus, and the FIFOs of TinyUSB. Bytes travel in units (a header one, a payload two, a
status one, a sector two), in transfers cut anywhere. A stream of NAND sectors goes on after a
suspend or an unplug, when `xbox_start_smc` has put the SPI block back into reset; the next
register access may then never return (`StreamHangs`). External contract: a write takes
what fits; a full packet starts a transfer by itself unless the bus is suspended or gone, fewer bytes wait
for a flush, and once a transfer runs the stack sends until its FIFO is empty.

What the model shows besides its properties: `stream()` never flushes. What it wrote while the bus was
suspended is sent when a later write fills a packet; if the FIFO has no room for one (`main.c:142` returns
before it reads a sector), or the stream is over, nothing sends it after the resume and the
host waits for ever. `asleep` remembers such a write, `StreamAsleep` is the state, and it is, with a status
that nobody flushed (`StatusStranded`) and a stream caught by an unplug, what
`EveryAnswerArrives` excepts.

### Pi4Serial

`pc` is the place in the main loop between two system calls: `loop` (the test of
`running`, then `handle_stream`), `select`, `header` and `payload` (inside
`serial_read_exact`), `command`, `write`, `exit`, `done`. A header is two units so that
it can arrive in part. `ReadTimesOut` is VTIME: with nothing read the call returns 0,
with a part of it it tries again – a step that changes nothing. Faults are a killed host, a host that pauses
for half a second inside a command, and a failing read, write or select. A write that fails loses
what was left of its call, and as READ_FLASH answers by two calls it can lose the status alone
(`StatusLost`). A late sector
of a WRITE_FLASH is read as commands here (PicoFlasher waits for it): that is the "late"
exception of `FramingHolds`.
`xbox_stop_smc` does not appear: nothing in Pi4Flasher calls it.

### Sdio

`call` is the call of `main.c` in progress and `pc` its next step: one `sd_command`, the arming of a
transfer, or one look of its polling. `sd_command` is one step with an outcome (`Outcomes`): an
answer, a garbled one (a bad CRC makes the firmware panic, wrong fixed bits of SEND_OP_COND
only an error that `sd_init` ignores), nobody answering, or a command state
machine still stuck in the receive loop of an earlier command. Beside the driver the data state
machine fetches commands (`FetchCommand`), waits for DAT0 (`LineRises`) and shifts words in and out
(`ReceiveWord`, `SendWord`), and the card becomes ready, programs, leaves and arrives. The polls look at the
channels, the address the state machine is at and its FIFO one after another, each look a step
(`PollRead`, `PollWrite`), as the hardware goes on between them; the status command is one more (`AskStatus`).

`sd_init` ends with `sd_wait` (`SdWait`, `SdWaitEnds`): the data state machine gets a command that waits for
DAT0 without a bound, and `acquiesce_sm` gives up on it after a while; `sd_init` looks at neither. `main.c` calls the
driver with one block at a time; the model also passes the counts two and three, which the
functions accept.

Timing taken for granted: DMA moves a word before the state machine has shifted the next one,
and the state machine fetches a command before the command to the card is out, and the first of a write
before the first look at it. So the transmit
FIFO and what its channel still holds are one sequence `queue`, and "channel busy" is a
condition on its length. A data channel that is still armed when the next transfer programs it
starts afresh; so does the channel of responses after `sd_init`. The status query finds the card
in "prg" as soon as the last CRC is sent.

What the model shows of this driver besides its properties: there is no way to time out of a
transfer, so after one failed read (out of range, card gone, clock taken by `EMMC_DETECT`) the
next read or write spins in the loop that prints "oops" until the firmware is reset, as no
command can be served any more; a host has to send `EMMC_INIT` first. That does not always help: an `EMMC_INIT`
that finds DAT0 low is answered 0 and leaves the state machine waiting for the line, so that the next
transfer spins although no read has failed (`leftover` remembers both). A write that the card
refuses, misses or never heard of is answered 0, because neither the response to the write
command nor the CRC status nor the error bits of the status are looked at: that is why
`AcknowledgedWriteIsStored` is stated for a `healthy` card. After a status query without an
answer, `response` is what the stack held.

## Runs

| Run | What it asks | States |
|---|---|---|
| `xbox_nand` | register protocol, abandoned jobs and a wrongly cached word included; nothing outside the addressed block changes; every request answered | 431 993 |
| `xbox_nand_blocks` | images over small and large erase blocks; refinement of `FlashStore` | 136 196 |
| `spi_link` | frames whole and in the controller's bit order; refinement of `RegisterFile` | 154 848 |
| `isd1200` | transfers faithful and an exchange (refinement of `SpiExchange`), PIO memory intact, acknowledged pages on the chip, calls return | 91 150 |
| `pico_usb` | framing and order of the USB link, NAND reachable while mounted, every answer arrives | 261 877 |
| `pi4_serial` | framing and order of the serial link, every answer arrives, a signal ends the process | 163 684 |
| `sdio` | reads deliver their blocks, acknowledged writes are programmed, nothing stays armed after success, calls end | 1 246 528 |

**Bounds.** `XboxNand`: one-bit words, pages of two words, four
sectors in blocks of one, two or four and lbas that wrap, a poll budget of 0 or 1. One abandoned job
plus one more request is what all interleaving hazards need, and the model has no bound on
the number of requests. `PicoUsb`: two commands, three bus events, streams of none or three
sectors, a transmit FIFO that holds one frame and two units: the shortest that makes a stream
wait for room, and a frame meet a FIFO partly full. `SpiLink`: two registers, two words whose bytes
and bits are all in different places, a line that floats low or high. `Isd1200`: four pages in
blocks of two, page and block numbers that wrap, FIFOs of two entries, which most frames are longer than, and
all 32 instructions of PIO1; any number of calls. `Pi4Serial`: two commands, one fault of any
kind at any time, the same streams; the queue of the tty holds one frame and one unit, so that
writes block. With two commands the second can meet anything the first left behind. `Sdio`:
a card of two blocks of two words, counts one to three (three is out of range for the card and
too many for a write), one fault of any kind, any number of calls; the FIFO has its real depth of
four words and is shorter than a block on its way out, as in the code.

**Deadlock** is checked for `XboxNand` and `SpiLink`. The link models stop where the system does: rebooted
into its bootloader, after `exit`, or when the host has sent all it will; `Sdio` stops in `panic`
and in the loop without a bound, `Isd1200` in a panic, in undefined behaviour and in a wait for a chip
that does not answer.

**Fairness.** `XboxNand`: weak fairness of the driver only, which is straight-line code
with bounded loops; none of the controller. `PicoUsb`: the two functions the main loop calls for
ever, a host that reads what it is sent, a suspended bus that is resumed. `Pi4Serial`: the
process is scheduled, the line delivers, the host reads. `Sdio`: straight-line code and polling loops,
clocked state machines, a card that ends what it is doing while it is there. `Isd1200`: the same of the CPU, the
state machine and a chip that is there. Nothing makes a host send, a
fault or a signal happen.

**Violation runs** each check one sentence of a comment or document that the code does
not keep; the counterexamples are in `PROJECT.json` under "findings":

| Run | Sentence | What happens |
|---|---|---|
| `xbox_nand_errors` | "@return 0 on success, error code on failure" | only the busy bit is tested, a refused job is answered 0 |
| `xbox_nand_rewrite` | "automatically erases if needed" | only a first sector erases; another one, written twice, holds the AND |
| `pi4_shutdown` | "Graceful shutdown" after Ctrl+C | a partial command keeps the process in `serial_read_exact` |
| `pi4_nand` | "SPIEX initialized", SMC stopped "for NAND access" | neither is ever done |
| `pi4_icrnl` | "Read-back matches written data" | ICRNL stays as found: 0x0D becomes 0x0A |

Not a property but worth knowing: `handle_stream` sends one block per turn of the loop, and
each turn waits 100 ms in `select` when the host is silent, as it is during a stream. The reset
line that `EMMC_INIT` pulls low ("Put SMC into reset", `main.c:312`) is raised by the next resume or
enumeration.

## Proofs

`XboxNandProofs` proves for every page size, geometry, poll budget, set of callers and
configuration word (assumptions: sizes are positive naturals, callers pass naturals and
pages, `NoJob` is not a job):

* `TypeCorrect` – `Spec => []TypeOK`. Among other things the poll counter stays in
  `0 .. Timeout`.
* `ControllerIsNeverDisturbed`, `ControllerRunsTheRequest`, `ReadIsFaithful` –
  `[]WaitsCoverJobs`, `[]JobIsTheRequest`, `[]ReadReturnsSector`.

None of the last three is inductive: that a page read back is the right one depends on what
was fetched so far, that on what the buffer holds, and that on which job ended and where the
address register pointed. `TrafficInv` strengthens them together: the stage belongs to the
step (`StageOfStep`), a clean request has its address in the register where the sequence
needs it (`RegistersSet`), no job runs outside the waits (`JobsWaitedFor`), the buffer holds
the words stored so far (`BufferLoaded`) or the sector read, of which the words fetched so
far are those of the sector (`BufferFetched`). `TrafficInit` and `TrafficStep` show it
inductive, with one step per action; each theorem then follows by temporal logic.

`PioSpiProofs` proves for every set of bytes, frame and depth of the FIFOs (assumption: the depth
is a positive natural; and `KeepsUp`, a guard of the model):

* `TransfersAreFaithful` – `SpecSpi => []TransferIsFaithful`: although what comes in overwrites what
  is to go out, the chip sees the frame and the caller gets its answers.
* `TransfersExchange` – `SpecSpi => ImplementsExchange`: the loop, the FIFOs and the state machine
  implement `SpiExchange`, each step a step of it or none.

The first is not inductive: a byte of the frame survives because its copy is ahead of the cursor that
overwrites. `SpiInv` says where every byte is: `BytesCounted` (each is in one place),
`OutwardInOrder` (shift register and transmit FIFO continue the frame where the chip stopped) and
`InwardInOrder` (the receive FIFO holds the newest answers, the buffer the older ones followed by the
rest of the frame).

`XboxNandImageProofs` goes on from `TrafficInv` to what the flash holds, for every geometry and image.

* `RequestsAlterTheirBlock` – `Spec => OnlyTheAddressedBlock`, an action property, for every word the cache
  may hold. `AlterInv` adds that a job in progress is of the kind and place its request allows and that an
  erase comes only at the start of what the cached word takes for a block. That this is a block of the console
  is a condition of the property, where it is needed: `CacheNotFiner`, the block size of the cached word is a
  multiple of the console's.
* `ImageIsStored`, `FirstSectorFindsBlank` – `[]AcknowledgedImageIsStored` and `[]ProgramsOntoBlank`.
  `ImageInv` follows a write from the erase on (`WriteProgress`) and has every job, an abandoned one
  too, touch only sectors whose content the caller was not promised (`JobsTouchTheForgotten`). The premise
  `CacheIsTrue`, that a word cached before is of this console's block size, cannot be weaker: with a coarser one
  a first sector of a block is not erased.
* `DriverImplementsStore` – with the same premise `Spec => ImplementsFlashStore`, step by step: most
  register accesses are hidden, the command is *start job*, the wait that succeeds is *succeed*.

`SpiLinkProofs` is for every set of registers and any words.

* `TableUndoes`: what the 256 entries of `lsb2msb` make of a byte is what the crossing of the bit orders
  undoes, computed digit by digit from its sixteen half bytes.
* `FrameArrives` – `Spec => ControllerHearsTheFrame`: while chip select is low the controller has heard the
  beginning of the frame as it was meant, and all of it when chip select goes up. By `AccessInv`: either the
  link is idle, or (`InFrame`) what was heard is this beginning, as long as the exchange has come, and, of a
  read, what was answered is the latched word, crossed.
* `LinkIsRegisterFile` – `Spec => ImplementsRegisterFile`: an access is served at the byte where the
  controller latches or stores the word.

`PicoUsbProofs` and `Pi4SerialProofs` are for frames, queues, numbers of commands and lengths of streams
of any size.

* `LinkTypes`, `NandStaysReachable`, `FramesHold`, `HostKeepsStep` – `[]TypeOK`,
  `[]NandReachableWhileMounted`, `[]FramingHolds`, `[]HostInStep` of `PicoUsb`. A host in step is not
  inductive: the unit it is waiting for must be the next in the FIFO, and each must be followed by its
  successor. `LinkInv` says so: while a command or its rest is pending nothing else is under way
  (`HeardInv`), and once it has been handled the FIFO and the stream together hold the rest of the
  answer (`AnswerInFifo`). What an attachment leaves behind is in `DetachedInv`.
* `SerialTypes`, `HeadersAreHeaders`, `SerialHostInStep` – `[]TypeOK`, `[]FramingHolds`,
  `[]HostInStep` of `Pi4Serial`. Bytes are in three places at once, so the invariant speaks of `Flow`: what
  `serial_read_exact` has read, the queue of the tty and the line, in this order. It consists of whole commands
  (`WholeCommands`), except for the payload of the command in hand, until a host is killed or late or a
  read fails (`FrameInv`); and the awaited answer is of a command still unread, in hand, or answered by the queue
  and the stream together (`StepInv`). ICRNL only matters in that it makes a number smaller (`NL < CR`
  in `SerialAssumption`: 0x0A for 0x0D in one of its bytes), so that a stream may end early but not late.

`Isd1200Proofs` is for chips of any size, any data and FIFOs of any depth (`ChipAssumption`: sizes are positive, a
page number or a unit of data is a byte on the wire, what marks the absence of one is none).

* `FramesAreFaithful`, `CallsExchange` – what `PioSpiProofs` has of a transfer holds of the calls too, for
  `Spec => SpecSpi`. That needs `CallInv`: a transfer under way is the frame of the step of the call, and no call
  sets state machine 0 up while a byte is in it.
* `ProgramsStayIntact`, `PanicsOnlyAfterLeak` – by `MemoryInv`, the three shapes PIO1 can have:
  SPI programs from the top down (`SpiAlone`), or the lines of the eMMC at the bottom with the clock's program
  under a leaked SPI program (`ClockUnder`) or above the room for one (`ClockAbove`).
* `AcknowledgedIsStored` – `[]ChipHoldsWhatWasAcknowledged`. `WorkInv` relates what the chip does to what its
  answers may make the driver think: a status without CMD_BSY means an erase is over but a write only
  taken in, which is why `isd1200_flash_write` has a second loop; WR_FIN read means the chip is idle, and
  none is left over for the next write. `ImageInv` has the flash follow what the host was told, but for the page
  in progress.
* `ReadsReturnTheBlock` – the action property `ReadReturnsBlock`. `AnswersInv` says which pages the answers so
  far are of; `RemainderOfSum` that an address cut to the width of the chip at the start may as well be
  cut at the end.
* `TypesHold` – `[]TypeOK`.

`SdioProofs` is for cards, blocks and transfers of any size (`CardAssumption`: sizes are positive, sector
numbers natural, the extended CSD is no value of a block; `NoCallAssumption`).

* `TypeCorrect` – `[]TypeOK`. The content is in `dma \in Nat`: the state machine never hands DMA more words
  than it was armed for.
* `OopsAfterFailure` – `[]OopsOnlyAfterFailure`.
* `ReadsDeliver`, `WritesAreStored`, `NothingLeftArmed`, `BufferStaysCallers` – the action properties
  `ReadDeliversBlocks`, `AcknowledgedWriteIsStored`, `SuccessLeavesNothingArmed`, `BufferIsCallers`.

All come from one inductive invariant, `Inv`: `DriverInv` (types, and which steps a call goes through),
`CardInv` (a card that sends is in a read, one in the middle of a block is in a write) and `EngineInv`, which
counts. In a read (`Reading`) what is on its way to the state machine is the end of its commands
(`EndOfRead`), DMA has exactly the words this end will fetch (`Owed`), and the words that came and the blocks
the card still has are together those asked for. In a write (`Line`, `Follows`) the queue is what
remains of `WriteWords` after b blocks and k words, and a card that took everything has stored b blocks and
is k words into the next. Outside of both nothing is under way unless a read failed or `sd_wait` gave up; then
(`Loose`) the remains of the commands run on, even after `sd_init` has cut the queue, and DMA is armed for at
least what they may fetch. No transfer starts on top of these, as it waits until the
state machine is back where it waits for commands. The looks of a poll are taken at different times; what
makes the last of them enough is that in a read nothing is left to send to the state machine only when
all has been received, and in a write it is back where it waits only at the end.

Only model-checked: liveness (`EveryRequestAnswered`,
`EveryAnswerArrives`, `StopsUnlessMidRead`, `EveryCallReturns`), which the prover cannot do; and the
sentences of the violation runs, which are false.

## Not modelled

* In `isd1200.c`: the width of addresses and pages of data beyond one byte each, and
  `isd1200_read_id`, which changes nothing. `PicoUsb` leaves open what an ISD1200 or eMMC access answers and does not hang in one.
* In `sdio.c`: the bits of commands and CRCs, multi-word responses, the pins, the arrays behind
  control words and commands, entry points nothing calls (`read_status`, the asynchronous ones alone); a poll
  that looks within the few clocks between the start of a write's channels and the first fetch.
* `serial_init` beyond ICRNL, clock dividers, pin directions, descriptors, LED, logging, delays,
  clock set-up: no control the properties could see.
* A host that sends a command while a stream runs: its answer can be cut short by a full FIFO and a
  second stream restarts the first. The protocol has no such host.

## Plan

1. *(done)* `XboxNand` with `FlashStore`, `XboxSmc`, `PicoUsb`, `Pi4Serial`, `Sdio`; type and
   traffic theorems of `XboxNand`.
2. *(done)* `SpiLink` with `RegisterFile`, `PioSpi` with `SpiExchange`, `Isd1200` with the memory of
   PIO1; the theorems of `PioSpiProofs`.
3. *(done)* Proofs: the images and the refinement of `FlashStore` for `XboxNand`; frames and the refinement of
   `RegisterFile` for `SpiLink`; the invariants of `PicoUsb`, `Pi4Serial`,
   `Isd1200` and `Sdio`.
4. An abstract command link that both `PicoUsb` and `Pi4Serial` implement, an abstract block store
   for `Sdio`, and a composition of a link with `FlashStore`.
