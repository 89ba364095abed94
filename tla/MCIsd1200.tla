----------------------------- MODULE MCIsd1200 -----------------------------
(***************************************************************************)
(* A small instance of Isd1200: four pages in blocks of two, two page values, *)
(* FIFOs of two entries, which most frames are longer than.                  *)
(***************************************************************************)
EXTENDS Isd1200

Bytes == 0 .. 255
TwoPages == {90, 165}
\* Page 5 is page 1 again, and block 2 is block 0.
WrappingPages == {1, 5}
WrappingBlocks == {0, 2}
=============================================================================
