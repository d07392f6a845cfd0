--------------------------- MODULE MCConsoleOutput --------------------------
EXTENDS ConsoleOutput

(* A line of up to 1000 characters: text of several lengths fills it.      *)
MCLengths == {5, 200}

(* Both sides of every change in the way a distance is sent, up to the     *)
(* first one with a fourth digit.                                          *)
MCDistances == {4, 5, 9, 10, 99, 100, 999, 1000}

MCLongDistances == {1000}

MCLongLengths == {1, 100}
=============================================================================
