------------------------------- MODULE MCSdio -------------------------------
(***************************************************************************)
(* Small instances of Sdio: a card of two blocks of two words, behind a    *)
(* FIFO of four.                                                             *)
(***************************************************************************)
EXTENDS Sdio

ZeroAndOne == {0, 1}
OneToThree == 1 .. 3
=============================================================================
