------------------------------- MODULE MCPyb -------------------------------
(***************************************************************************)
(* Values of the constants of Pyb for TLC.  A UINT32 has 4 bits and        *)
(* mp_int_t has 6, so that numbers of Python fit neither, one or both.     *)
(***************************************************************************)
EXTENDS Pyb, TLC

CONSTANTS picture, text

MCNumbers == {-33, -8, -1, 0, 1, 2, 3, 4, 7, 8, 9, 16, 17, 31, 32}
MCBuffers == {picture, text}
MCReadOnly == {text}
MCLength == picture :> 15 @@ text :> 7
MCMessage == <<1, 2, 3>>
=============================================================================
