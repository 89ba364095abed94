----------------------------- MODULE MCPicoUsb -----------------------------
(***************************************************************************)
(* Small instances of PicoUsb: payloads and sectors of two units, a FIFO     *)
(* that holds one frame and two units more.                                  *)
(***************************************************************************)
EXTENDS PicoUsb

NoneOrThree == {0, 3}
=============================================================================
