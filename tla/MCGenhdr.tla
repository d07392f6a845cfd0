------------------------------ MODULE MCGenhdr ------------------------------
EXTENDS Genhdr

CONSTANTS a, b   \* two sources

MCSrcs == {a, b}

(* Each source may have everything, only strings, or have lost it all.     *)
MCMacros == {{}, {"qstr"}, Kinds}

(* The INF lists some sources twice. *)
MCSrcFiles == <<a, a, b>>
=============================================================================
