------------------------------- MODULE XboxSmc -------------------------------
(***************************************************************************)
(* The pins between a flasher and the console: xbox_init, xbox_start_smc    *)
(* and xbox_stop_smc.  They are straight-line code between two points where *)
(* anything else can run, so each is a function on the state of the pins,   *)
(* composed of its gpio_put calls in the order the code makes them.         *)
(*                                                                         *)
(* The console is known only by what these functions do to it: while reset  *)
(* is low the SMC is in reset, and at the rising edge it samples the debug  *)
(* line: low, it runs and owns the NAND; high, it stays out of the way.     *)
(***************************************************************************)

\* dbg, rst and ss are output levels; spi says whether the SPI block is up.
PinType == [dbg : BOOLEAN, rst : BOOLEAN, ss : BOOLEAN, spi : BOOLEAN,
            smc : {"running", "reset", "debug"}]

\* A powered console whose lines the flasher does not drive yet.
Undriven == [dbg |-> TRUE, rst |-> TRUE, ss |-> TRUE, spi |-> FALSE, smc |-> "running"]

PutDbg(p, level) == [p EXCEPT !.dbg = level]
PutSs(p, level) == [p EXCEPT !.ss = level]
PutRst(p, level) ==
  [p EXCEPT !.rst = level,
            !.smc = IF ~level THEN "reset"
                    ELSE IF p.rst THEN p.smc
                    ELSE IF p.dbg THEN "debug" ELSE "running"]
SpiUp(p) == [p EXCEPT !.spi = TRUE, !.ss = TRUE]
SpiDown(p) == [p EXCEPT !.spi = FALSE]

\* xbox_init: all three lines high, without a pulse on reset.
InitPins(p) == PutSs(PutRst(PutDbg(p, TRUE), TRUE), TRUE)

\* xbox_start_smc
StartSmc(p) == PutRst(PutRst(PutDbg(SpiDown(p), FALSE), FALSE), TRUE)

\* Seeded fault: the debug line is raised only after reset is released.
StopSmcLateDebug(p) ==
  LET held == PutRst(PutSs(PutDbg(p, FALSE), FALSE), FALSE)
  IN  SpiUp(PutSs(PutDbg(PutRst(held, TRUE), TRUE), TRUE))

\* xbox_stop_smc
StopSmc(p) ==
  LET held == PutRst(PutSs(PutDbg(p, FALSE), FALSE), FALSE)
  IN  SpiUp(PutSs(PutRst(PutDbg(held, TRUE), TRUE), TRUE))

\* The NAND controller answers register accesses.
NandReachable(p) == p.spi /\ p.smc = "debug"
=============================================================================
