----------------------------- MODULE MCSpiLink -----------------------------
(***************************************************************************)
(* A small instance of SpiLink: the status and the data register, two words  *)
(* whose bytes and bits are all in different places.                        *)
(***************************************************************************)
EXTENDS SpiLink

StatusAndData == {4, 16}
TwoWords == {<<1, 35, 69, 206>>, <<0, 120, 154, 255>>}
LowOrHigh == {0, 255}
=============================================================================
