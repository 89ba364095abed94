---------------------------- MODULE MCPi4Serial ----------------------------
(***************************************************************************)
(* Small instances of Pi4Serial: headers, payloads and sectors of two units. *)
(***************************************************************************)
EXTENDS Pi4Serial

NoneOrThree == {0, 3}
TenAndThirteen == {10, 13}
Writes == {"version", "write"}
Reads == {"read"}
=============================================================================
