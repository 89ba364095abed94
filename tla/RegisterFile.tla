---------------------------- MODULE RegisterFile ----------------------------
(***************************************************************************)
(* What spiex_read_reg and spiex_write_reg promise their callers: registers  *)
(* of four bytes that are read and written as a whole, at one moment between *)
(* call and return, while the controller changes them on its own account.    *)
(* With the link down nothing is written and what is read means nothing.     *)
(***************************************************************************)
EXTENDS Integers

CONSTANTS Regs, Values, Word, NoCall

VARIABLES
  regs,    \* the controller's registers
  up,      \* the link is up
  call,    \* the access in progress, or NoCall
  served,  \* it has taken effect
  taken,   \* the word a read found
  reply    \* the word the last read returned

vars == <<regs, up, call, served, taken, reply>>

Init ==
  /\ regs \in [Regs -> Values] /\ taken \in Values /\ reply \in Values
  /\ up = FALSE /\ call = NoCall /\ served = FALSE

Link == call = NoCall /\ up' \in BOOLEAN /\ UNCHANGED <<regs, call, served, taken, reply>>

Ask(c) ==
  /\ call = NoCall
  /\ call' = c
  /\ UNCHANGED <<regs, up, served, taken, reply>>

Serve ==
  /\ up /\ call # NoCall /\ ~served
  /\ served' = TRUE
  /\ \/ call.op = "read" /\ taken' = regs[call.reg] /\ UNCHANGED regs
     \/ call.op = "write" /\ regs' = [regs EXCEPT ![call.reg] = call.val] /\ UNCHANGED taken
  /\ UNCHANGED <<up, call, reply>>

Answer ==
  /\ call # NoCall /\ served = up
  /\ call' = NoCall /\ served' = FALSE
  /\ reply' \in IF call.op = "write" THEN {reply} ELSE IF up THEN {taken} ELSE Word
  /\ UNCHANGED <<regs, up, taken>>

\* A job ends, a page arrives, the console is another one.
Change(r, v) ==
  /\ regs' = [regs EXCEPT ![r] = v]
  /\ UNCHANGED <<up, call, served, taken, reply>>

Next ==
  \/ Link \/ Serve \/ Answer
  \/ \E r \in Regs : Ask([op |-> "read", reg |-> r])
  \/ \E r \in Regs, v \in Values : Ask([op |-> "write", reg |-> r, val |-> v]) \/ Change(r, v)

Spec == Init /\ [][Next]_vars
=============================================================================
