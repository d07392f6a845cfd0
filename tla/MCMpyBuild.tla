----------------------------- MODULE MCMpyBuild -----------------------------
EXTENDS MpyBuild

CONSTANT a   \* the one source

MCSrcs == {a}

MCSrcFiles == <<a>>

(* The source has macros of two kinds, or has lost them: root pointers are *)
(* treated as modules are, and MCGenhdr has all three kinds.               *)
MCMacros == {{}, {"qstr", "module"}}

(* Bound: an old submodule does for genhdr.py what a current one does.     *)
SubmoduleBound == submodule # "old"
=============================================================================
