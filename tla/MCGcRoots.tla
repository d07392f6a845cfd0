----------------------------- MODULE MCGcRoots -----------------------------
(***************************************************************************)
(* Values of the constants of GcRoots for TLC.                             *)
(***************************************************************************)
EXTENDS GcRoots

MCBranches == {"i386", "x86_64", "arm", "setjmp"}
=============================================================================
