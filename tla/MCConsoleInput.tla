--------------------------- MODULE MCConsoleInput ---------------------------
EXTENDS ConsoleInput

MCKeys == {3, 65}
=============================================================================
