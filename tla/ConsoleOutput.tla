---------------------------- MODULE ConsoleOutput ---------------------------
(***************************************************************************)
(* How the line editor of the REPL moves the cursor of the user's terminal *)
(* through the payload (Extra/mphalport.c): it prints, steps back, erases  *)
(* to the end of the line, and never asks the terminal where the cursor    *)
(* is.  What is sent is a sequence of characters that the terminal reads   *)
(* one by one.                                                             *)
(*                                                                         *)
(* The line editor (shared/readline of MicroPython), its snprintf and the  *)
(* terminal are external.  Lines do not wrap: the terminal is as wide as   *)
(* the longest line.                                                       *)
(***************************************************************************)
EXTENDS Integers, Sequences, SequencesExt

CONSTANTS
  Lengths,    \* how many characters the editor prints at a time
  Distances,  \* by how many it steps back
  MaxLine     \* bound: the longest line

ASSUME LengthsAssumption   == Lengths \subseteq Nat \ {0}
ASSUME DistancesAssumption == Distances \subseteq Nat \ {0}
ASSUME MaxLineAssumption   == MaxLine \in Nat

VARIABLES
  cursor,   \* where the editor takes the cursor to be
  length,   \* how many characters it takes the terminal to show
  screen,   \* the terminal: its cursor, what it shows, what it is reading
  at,       \* "editor", in mp_hal_move_cursor_back: "replace", or "wild"
  command,  \* vt100_command
  n         \* what snprintf returned

vars == <<cursor, length, screen, at, command, n>>
local == <<command, n>>

Numeral == <<"0", "1", "2", "3", "4", "5", "6", "7", "8", "9">>

ValueOf(c) == (CHOOSE i \in DOMAIN Numeral : Numeral[i] = c) - 1

(* %u *)
Decimal[u \in Nat] ==
  IF u < 10 THEN <<Numeral[u + 1]>>
            ELSE Append(Decimal[u \div 10], Numeral[(u % 10) + 1])

-----------------------------------------------------------------------------
(* The terminal reads a character, the same one so many times. *)

Times(c, times) == [char |-> c, times |-> times]
Once(chars) == [i \in DOMAIN chars |-> Times(chars[i], 1)]

Larger(i, j) == IF i > j THEN i ELSE j

ReadText(s, r) ==
  CASE r.char = "ESC" -> [s EXCEPT !.reading = "ESC"]
    [] r.char = "BS"  -> [s EXCEPT !.column = Larger(@ - r.times, 0)]
    [] r.char = "NUL" -> s
    [] OTHER -> [s EXCEPT !.column = @ + r.times,
                          !.shown = Larger(@, s.column + r.times)]

ReadCommand(s, r) ==
  CASE r.char = "NUL" -> s
    [] r.char = "D" ->
         [s EXCEPT !.reading = "text", !.number = 0,
                   !.column = Larger(@ - s.number, 0)]
    [] r.char = "K" -> [s EXCEPT !.reading = "text", !.shown = s.column]
    [] r.char \in ToSet(Numeral) ->
         [s EXCEPT !.number = 10 * @ + ValueOf(r.char)]
    [] OTHER -> [s EXCEPT !.reading = "text", !.number = 0]

Display(s, r) ==
  CASE s.reading = "text"    -> ReadText(s, r)
    [] s.reading = "ESC"     ->
         [s EXCEPT !.reading = IF r.char = "[" THEN "command" ELSE "text"]
    [] s.reading = "command" -> ReadCommand(s, r)

(* mp_hal_stdout_tx_strn *)
Send(chars) == screen' = FoldLeft(Display, screen, chars)

Init ==
  /\ cursor = 0 /\ length = 0
  /\ screen = [column |-> 0, shown |-> 0, reading |-> "text", number |-> 0]
  /\ at = "editor"
  /\ command = <<>> /\ n = 0

-----------------------------------------------------------------------------
(* The editor prints a part of the line. *)
PrintText ==
  /\ at = "editor"
  /\ \E w \in Lengths :
       /\ cursor + w <= MaxLine
       /\ cursor' = cursor + w
       /\ length' = Larger(length, cursor + w)
       /\ Send(<<Times("x", w)>>)
  /\ UNCHANGED <<at, local>>

BugEraseNothing == Send(Once(<<"ESC", "[">>))

EraseCommand == Send(Once(<<"ESC", "[", "K">>))

(* mp_hal_erase_line_from_cursor *)
EraseLine ==
  /\ at = "editor"
  /\ length' = cursor
  /\ EraseCommand
  /\ UNCHANGED <<cursor, at, local>>

(* A few steps back are as many backspaces, cut from a literal.            *)
Backspaces == <<"BS", "BS", "BS", "BS", "NUL">>

BugFiveFit(pos) == pos <= 5

IsShort(pos) == pos <= 4

StepBackShort ==
  /\ at = "editor"
  /\ \E pos \in Distances :
       /\ pos <= cursor /\ IsShort(pos)
       /\ cursor' = cursor - pos
       /\ Send(Once(SubSeq(Backspaces, 1, pos)))
  /\ UNCHANGED <<length, at, local>>

BugTightBuffer == 5

(* sizeof(vt100_command) *)
CommandSize == 6

(* snprintf: what fits, and the terminating NUL; the rest of the array     *)
(* keeps what was on the stack.  It returns the length that would fit it   *)
(* all.                                                                    *)
Snprintf(text) ==
  LET kept == IF Len(text) < CommandSize THEN Len(text) ELSE CommandSize - 1
  IN /\ command' = [i \in 0 .. (CommandSize - 1) |->
                      IF i < kept THEN text[i + 1]
                      ELSE IF i = kept THEN "NUL" ELSE "junk"]
     /\ n' = Len(text)

(* More steps are a command, of which only the last character is missing.  *)
StepBackFormat ==
  /\ at = "editor"
  /\ \E pos \in Distances :
       /\ pos <= cursor /\ ~IsShort(pos)
       /\ cursor' = cursor - pos
       /\ Snprintf(<<"ESC", "[">> \o Decimal[pos])
  /\ at' = "replace"
  /\ UNCHANGED <<length, screen>>

SendThrough(chars) == SubSeq(chars, 1, n + 1)

(* The D goes to index n and the command is sent; n is never 0.  An index  *)
(* outside of the array is a store to somebody else's memory.              *)
StepBackSend ==
  /\ at = "replace"
  /\ \/ /\ n \in DOMAIN command
        /\ LET chars == [i \in 1..CommandSize |->
                           IF i = n + 1 THEN "D" ELSE command[i - 1]]
           IN Send(Once(SendThrough(chars)))
        /\ at' = "editor"
     \/ /\ n \notin DOMAIN command
        /\ at' = "wild"
        /\ UNCHANGED screen
  /\ command' = <<>> /\ n' = 0
  /\ UNCHANGED <<cursor, length>>

Stopped == at = "wild" /\ UNCHANGED vars

Next == PrintText \/ EraseLine \/ StepBackShort \/ StepBackFormat
          \/ StepBackSend \/ Stopped

Spec == Init /\ [][Next]_vars
-----------------------------------------------------------------------------
(* Properties *)

(* The value every variable may have. *)
TypeOK ==
  /\ cursor \in 0..MaxLine /\ length \in cursor..MaxLine
  /\ screen.column \in 0..MaxLine /\ screen.shown \in screen.column..MaxLine
  /\ screen.reading \in {"text", "ESC", "command"} /\ screen.number \in Nat
  /\ at \in {"editor", "replace", "wild"}
  /\ n \in 0 .. (2 + Len(Decimal[MaxLine]))
  /\ at # "replace" => command = <<>>

(* The terminal's cursor is where the editor takes it to be, after any     *)
(* sequence of its calls, the terminal shows what the editor takes it to   *)
(* show, and it is not left in the middle of a command, to swallow what is *)
(* printed next (mphalport.c:131-149).                                     *)
ScreenInStep ==
  at = "editor" =>
    /\ screen.reading = "text"
    /\ screen.column = cursor
    /\ screen.shown = length

(* "replace null char" (mphalport.c:140): the character that becomes D is  *)
(* the terminating NUL of the command, for every distance.                 *)
ReplacesNull ==
  at = "replace" => n \in DOMAIN command /\ command[n] = "NUL"

(* It is so for every distance of up to three digits.                      *)
ThreeDigitsFit == n <= Len(<<"ESC", "[">>) + 3 => ReplacesNull
=============================================================================
