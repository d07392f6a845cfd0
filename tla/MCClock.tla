------------------------------- MODULE MCClock ------------------------------
EXTENDS Clock

(* An emulator, and two processors. *)
MCRatios == {0, 8, 33}

MCGuestMHz == {800, 2000}

(* Times that are not whole milliseconds. *)
MCSteps == {9999, 30001}

(* A word of 16 bits: 65 milliseconds fit into it, 131 do not. *)
MCWord == 65536

MCSleeps == {65, 131}

(* The last delay that fits, and the first that does not. *)
MCNaps == {65535, 65536}
=============================================================================
