---------------------------- MODULE ConsoleInput ----------------------------
(***************************************************************************)
(* Keys on their way from the user to Python code.  The user types         *)
(* whenever he likes and the loader queues the keys; the payload takes     *)
(* them one at a time: the REPL and sys.stdin read (mp_hal_stdin_rx_chr),  *)
(* select.poll asks whether there is a key (mp_hal_stdio_poll), and        *)
(* pyb.getch asks and then reads, so as not to wait (Extra/modpyb.c).      *)
(*                                                                         *)
(* ConsolePoll and ConsoleRead are services of the loader.  The code shows *)
(* two expectations of a read without a key: that it waits, or that it     *)
(* returns and has stored nothing; a loader may do either.                 *)
(***************************************************************************)
EXTENDS Integers, Sequences

CONSTANTS
  Keys,       \* what the user may type, as bytes; 0 means no key
  MaxTyped    \* bound: how many keys he types

ASSUME KeysAssumption     == Keys \subseteq 1..255
ASSUME MaxTypedAssumption == MaxTyped \in Nat

Junk == 256   \* a variable of the stack that was not initialised

VARIABLES
  waits,      \* the loader's ConsoleRead waits for a key; it stays that way
  typed,      \* history: the keys typed, in order
  queue,      \* the loader's queue
  received,   \* history: what Python code took for keys, in order
  ready,      \* history: a poll said there is a key, and none was read since
  at,         \* "python", or the function that is about to read
  ch          \* its local variable: ch of rx_chr, key of getch

vars == <<waits, typed, queue, received, ready, at, ch>>

Init ==
  /\ waits \in BOOLEAN
  /\ typed = <<>> /\ queue = <<>> /\ received = <<>>
  /\ ready = FALSE
  /\ at = "python" /\ ch = Junk

Type ==
  /\ Len(typed) < MaxTyped
  /\ \E key \in Keys : typed' = Append(typed, key) /\ queue' = Append(queue, key)
  /\ UNCHANGED <<waits, received, ready, at, ch>>

ConsolePoll == queue # <<>>

(* Python code takes what is returned for a key, unless it is 0.           *)
Return(value) ==
  /\ at' = "python"
  /\ received' = IF value = 0 THEN received ELSE Append(received, value)
  /\ ch' = Junk

(* ConsoleRead (&ch, 1), and the return of what is in ch then. *)
Read ==
  \/ /\ queue # <<>>
     /\ queue' = Tail(queue)
     /\ Return(Head(queue))
  \/ /\ queue = <<>> /\ ~waits
     /\ UNCHANGED queue
     /\ Return(ch)

BugNotInitialised ==
  /\ at = "python"
  /\ at' = "rx_chr"
  /\ UNCHANGED <<waits, typed, queue, received, ready, ch>>

(* mp_hal_stdin_rx_chr *)
RxChr ==
  /\ at = "python"
  /\ at' = "rx_chr" /\ ch' = 0
  /\ UNCHANGED <<waits, typed, queue, received, ready>>

BugNoPoll ==
  /\ at = "python"
  /\ at' = "getch"
  /\ UNCHANGED <<waits, typed, queue, received, ready, ch>>

(* pyb_getch: only a key that is there is read; key has no initial value.  *)
Getch ==
  /\ at = "python"
  /\ \/ ConsolePoll /\ at' = "getch" /\ UNCHANGED <<received, ch>>
     \/ ~ConsolePoll /\ Return(0)
  /\ UNCHANGED <<waits, typed, queue, ready>>

ReadKey ==
  /\ at \in {"rx_chr", "getch"}
  /\ Read
  /\ ready' = FALSE
  /\ UNCHANGED <<waits, typed>>

BugEither(rd) == rd \/ ConsolePoll

Readable(rd) == rd /\ ConsolePoll

(* mp_hal_stdio_poll, asked about reading or about something else. *)
StdioPoll ==
  /\ at = "python"
  /\ \E rd \in BOOLEAN : ready' = (ready \/ Readable(rd))
  /\ UNCHANGED <<waits, typed, queue, received, at, ch>>

Next == Type \/ RxChr \/ Getch \/ ReadKey \/ StdioPoll

Spec == Init /\ [][Next]_vars

(* A read that can return does: that is up to the loader alone.  Nobody    *)
(* has to type, and Python code need not ask.                              *)
FairSpec == Spec /\ WF_vars(ReadKey)
-----------------------------------------------------------------------------
(* Properties *)

(* The value every variable may have. *)
TypeOK ==
  /\ waits \in BOOLEAN
  /\ typed \in Seq(Keys) /\ queue \in Seq(Keys) /\ received \in Seq(Keys)
  /\ Len(typed) <= MaxTyped
  /\ ready \in BOOLEAN
  /\ at \in {"python", "rx_chr", "getch"}
  /\ ch \in {0, Junk}

(* Python code gets every key that is typed, once, in order, and nothing   *)
(* that was not: neither between the poll and the read of getch, nor when  *)
(* the three ways of asking are mixed, is a key lost or a variable used    *)
(* that was never set (modpyb.c:69-76, mphalport.c:120-128).               *)
KeysInOrder == typed = received \o queue

(* Nobody waits for a key it was told of: not getch, which asked, and not  *)
(* a read after a poll that said there is one (modpyb.c:71,                *)
(* mphalport.c:152-159).                                                   *)
ReadsPromised == at = "getch" \/ (at = "rx_chr" /\ ready)

NoWaitForPromisedKey == ReadsPromised => queue # <<>>

First(q) == IF q = <<>> THEN <<>> ELSE <<Head(q)>>

(* Such a read ends with the key that was the first when it was promised:  *)
(* nothing else takes it meanwhile, and neither a 0 nor what was on the    *)
(* stack takes its place (modpyb.c:69-76, mphalport.c:120-128).            *)
PromiseKept ==
  [][ReadsPromised =>
       \/ ReadsPromised' /\ First(queue') = First(queue) /\ UNCHANGED received
       \/ at' = "python" /\ received' = received \o First(queue)]_vars

(* getch comes back to Python code, and so does a read after a poll that   *)
(* promised a key, on a loader whose read waits, too, and if the user      *)
(* never types again (modpyb.c:71-76).                                     *)
Returns == ReadsPromised ~> at = "python"
=============================================================================
