----------------------------- MODULE SpiExchange -----------------------------
(***************************************************************************)
(* What a full-duplex SPI transfer promises its caller, whoever shifts the   *)
(* bytes: the other end sees the bytes of the frame once each and in order,   *)
(* answers one byte for each, and the caller gets exactly these.             *)
(***************************************************************************)
EXTENDS Integers, Sequences

CONSTANT Byte

VARIABLES
  busy,    \* a transfer is in progress
  frame,   \* what the caller gave
  seen,    \* what the other end has received of it
  got,     \* what it has answered
  result   \* what the caller was given back, <<>> before that

vars == <<busy, frame, seen, got, result>>

Init == busy = FALSE /\ frame = <<>> /\ seen = <<>> /\ got = <<>> /\ result = <<>>

Begin ==
  /\ ~busy
  /\ busy' = TRUE
  /\ frame' \in Seq(Byte) \ {<<>>}
  /\ seen' = <<>> /\ got' = <<>> /\ result' = <<>>

ExchangeByte ==
  /\ busy /\ Len(seen) < Len(frame)
  /\ seen' = Append(seen, frame[Len(seen) + 1])
  /\ \E b \in Byte : got' = Append(got, b)
  /\ UNCHANGED <<busy, frame, result>>

Return ==
  /\ busy /\ Len(seen) = Len(frame)
  /\ busy' = FALSE
  /\ result' = got
  /\ UNCHANGED <<frame, seen, got>>

Next == Begin \/ ExchangeByte \/ Return

Spec == Init /\ [][Next]_vars
=============================================================================
