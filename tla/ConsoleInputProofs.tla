------------------------- MODULE ConsoleInputProofs -------------------------
(***************************************************************************)
(* Keys arrive, in order and once, for every set of keys and any number of *)
(* them: see ConsoleInput.                                                 *)
(***************************************************************************)
EXTENDS ConsoleInput, SequenceTheorems, TLAPS

(* A key that is read goes from the front of the queue to the end of what  *)
(* was received.                                                           *)
LEMMA ReadFirst ==
  ASSUME NEW S, NEW p \in Seq(S), NEW q \in Seq(S), q # <<>>
  PROVE  Append(p, Head(q)) \o Tail(q) = p \o q
  BY SMT

(* rx_chr initialises its variable, and getch reads only what is there: no *)
(* variable is returned as it was found on the stack.                      *)
Local ==
  /\ at = "rx_chr" => ch = 0
  /\ at = "getch" => queue # <<>>

(* A promised key is still there. *)
Promised == ready => queue # <<>>

IInv == TypeOK /\ KeysInOrder /\ Local /\ Promised

-----------------------------------------------------------------------------
LEMMA InitIInv == Init => IInv
<1> SUFFICES ASSUME Init PROVE IInv
  OBVIOUS
<1>1. <<>> \in Seq(Keys) /\ Len(<<>>) = 0
  OBVIOUS
<1>2. TypeOK
  <2>1. ready \in BOOLEAN /\ waits \in BOOLEAN
    BY DEF Init
  <2>2. Len(typed) <= MaxTyped
    BY <1>1, MaxTypedAssumption DEF Init
  <2> QED
    BY <1>1, <2>1, <2>2 DEF Init, TypeOK
<1>3. KeysInOrder
  BY <1>1, ConcatEmptySeq DEF Init, KeysInOrder
<1>4. Local /\ Promised
  BY DEF Init, Local, Promised
<1> QED
  BY <1>2, <1>3, <1>4 DEF IInv

LEMMA TypeKeeps == IInv /\ Type => IInv'
<1> SUFFICES ASSUME IInv, Type PROVE IInv'
  OBVIOUS
<1>1. PICK key \in Keys : typed' = Append(typed, key)
                       /\ queue' = Append(queue, key)
  BY DEF Type
<1>2. UNCHANGED <<waits, received, ready, at, ch>> /\ Len(typed) < MaxTyped
  BY DEF Type
<1>3. TypeOK /\ KeysInOrder /\ Local /\ Promised
  BY DEF IInv
<1>4. typed' \in Seq(Keys) /\ queue' \in Seq(Keys) /\ queue' # <<>>
      /\ Len(typed') = Len(typed) + 1 /\ Len(typed) \in Nat
  BY <1>1, <1>3, AppendProperties DEF TypeOK
<1>5. TypeOK'
  BY <1>2, <1>3, <1>4, MaxTypedAssumption DEF TypeOK
<1>6. KeysInOrder'
  <2>0. received \in Seq(Keys) /\ queue \in Seq(Keys) /\ key \in Keys
    BY <1>1, <1>3 DEF TypeOK
  <2>1. Append(received \o queue, key) = received \o Append(queue, key)
    BY <2>0
  <2> QED
    BY <1>1, <1>2, <1>3, <2>1 DEF KeysInOrder
<1>7. Local' /\ Promised'
  BY <1>2, <1>3, <1>4 DEF Local, Promised
<1> QED
  BY <1>5, <1>6, <1>7 DEF IInv

(* The read of rx_chr or getch. *)
LEMMA ReadKeyKeeps == IInv /\ ReadKey => IInv'
<1> SUFFICES ASSUME IInv, ReadKey PROVE IInv'
  OBVIOUS
<1>1. TypeOK /\ KeysInOrder /\ Local /\ Promised
  BY DEF IInv
<1>2. ~ready' /\ typed' = typed /\ waits' = waits
  BY DEF ReadKey
<1>3. CASE queue # <<>>
  <2>1. Head(queue) \in Keys /\ Head(queue) # 0 /\ Tail(queue) \in Seq(Keys)
    BY <1>1, <1>3, HeadTailProperties, KeysAssumption DEF TypeOK
  <2>2. /\ queue' = Tail(queue) /\ received' = Append(received, Head(queue))
        /\ at' = "python" /\ ch' = Junk
    BY <1>3, <2>1 DEF ReadKey, Read, Return
  <2>3. TypeOK'
    <3>1. received' \in Seq(Keys)
      BY <1>1, <2>1, <2>2, AppendProperties DEF TypeOK
    <3>2. ready' \in BOOLEAN
      BY DEF ReadKey
    <3> QED
      BY <1>1, <1>2, <2>1, <2>2, <3>1, <3>2 DEF TypeOK
  <2>4. KeysInOrder'
    BY <1>1, <1>2, <1>3, <2>2, ReadFirst DEF TypeOK, KeysInOrder
  <2> QED
    BY <1>2, <2>2, <2>3, <2>4 DEF IInv, Local, Promised
<1>4. CASE queue = <<>>
  <2>1. ch = 0
    BY <1>1, <1>4 DEF Local, ReadKey
  <2>2. /\ queue' = queue /\ received' = received
        /\ at' = "python" /\ ch' = Junk
    BY <1>4, <2>1 DEF ReadKey, Read, Return
  <2>3. ready' \in BOOLEAN
    BY DEF ReadKey
  <2>4. TypeOK'
    BY <1>1, <1>2, <2>2, <2>3 DEF TypeOK
  <2> QED
    BY <1>1, <1>2, <2>2, <2>4 DEF IInv, KeysInOrder, Local, Promised
<1> QED
  BY <1>3, <1>4

LEMMA StepIInv == IInv /\ [Next]_vars => IInv'
<1> SUFFICES ASSUME IInv, [Next]_vars PROVE IInv'
  OBVIOUS
<1>1. CASE Type
  BY <1>1, TypeKeeps
<1>2. CASE ReadKey
  BY <1>2, ReadKeyKeeps
<1>3. CASE RxChr
  BY <1>3 DEF RxChr, IInv, TypeOK, KeysInOrder, Local, Promised
<1>4. CASE Getch
  <2>1. CASE ConsolePoll /\ at' = "getch" /\ UNCHANGED <<received, ch>>
    BY <1>4, <2>1 DEF Getch, ConsolePoll, IInv, TypeOK, KeysInOrder, Local,
                      Promised
  <2>2. CASE ~ConsolePoll /\ Return(0)
    BY <1>4, <2>2 DEF Getch, Return, IInv, TypeOK, KeysInOrder, Local,
                      Promised
  <2> QED
    BY <1>4, <2>1, <2>2 DEF Getch
<1>5. CASE StdioPoll
  <2>1. PICK rd \in BOOLEAN : ready' = (ready \/ Readable(rd))
    BY <1>5 DEF StdioPoll
  <2>2. ready' \in BOOLEAN /\ (ready' => queue # <<>>)
    BY <2>1 DEF Readable, ConsolePoll, IInv, TypeOK, Promised
  <2> QED
    BY <1>5, <2>2 DEF StdioPoll, IInv, TypeOK, KeysInOrder, Local, Promised
<1>6. CASE UNCHANGED vars
  BY <1>6 DEF vars, IInv, TypeOK, KeysInOrder, Local, Promised
<1> QED
  BY <1>1, <1>2, <1>3, <1>4, <1>5, <1>6 DEF Next

-----------------------------------------------------------------------------
(* The inductive invariant of the console's input. *)
THEOREM InputInvariant == Spec => []IInv
  BY InitIInv, StepIInv, PTL DEF Spec

(* Every variable keeps its type: no key is stored that nobody could type. *)
THEOREM TypeCorrect == Spec => []TypeOK
<1>1. IInv => TypeOK
  BY DEF IInv
<1> QED
  BY <1>1, InputInvariant, PTL

(* Whatever the order of keys, polls and reads, Python code gets every key *)
(* once, in order, and never what was on the stack.                        *)
THEOREM KeysArrive == Spec => []KeysInOrder
<1>1. IInv => KeysInOrder
  BY DEF IInv
<1> QED
  BY <1>1, InputInvariant, PTL

(* A read after a poll that promised a key, and the read of getch, find    *)
(* one.                                                                    *)
THEOREM PollsHold == Spec => []NoWaitForPromisedKey
<1>1. IInv => NoWaitForPromisedKey
  BY DEF IInv, Local, Promised, NoWaitForPromisedKey, ReadsPromised
<1> QED
  BY <1>1, InputInvariant, PTL

(* The first key of a queue that is not empty.                             *)
LEMMA FirstFacts ==
  ASSUME NEW S, NEW q \in Seq(S), q # <<>>
  PROVE  /\ First(q) = <<Head(q)>>
         /\ \A x \in S : First(Append(q, x)) = First(q)
<1>1. ASSUME NEW x \in S
      PROVE  Append(q, x) # <<>> /\ Head(Append(q, x)) = Head(q)
  OBVIOUS
<1> QED
  BY <1>1 DEF First

(* A read that was promised a key ends with that key: the one that was the *)
(* first when the poll looked, however many are typed in between, and      *)
(* neither a 0 nor what was on the stack (modpyb.c:69-76,                  *)
(* mphalport.c:120-128).                                                   *)
THEOREM PromisesKept == Spec => PromiseKept
<1> DEFINE A == ReadsPromised =>
                  \/ ReadsPromised' /\ First(queue') = First(queue)
                     /\ UNCHANGED received
                  \/ at' = "python" /\ received' = received \o First(queue)
<1>1. IInv /\ [Next]_vars => [A]_vars
  <2> SUFFICES ASSUME IInv, Next, ReadsPromised
               PROVE  A
    OBVIOUS
  <2>1. /\ queue \in Seq(Keys) /\ received \in Seq(Keys) /\ queue # <<>>
        /\ at # "python"
    BY DEF IInv, TypeOK, Local, Promised, ReadsPromised
  <2>2. CASE Type
    <3>1. PICK key \in Keys : queue' = Append(queue, key)
      BY <2>2 DEF Type
    <3>2. UNCHANGED <<received, ready, at>>
      BY <2>2 DEF Type
    <3>3. First(queue') = First(queue)
      BY <2>1, <3>1, FirstFacts
    <3> QED
      BY <3>2, <3>3 DEF ReadsPromised
  <2>3. CASE ReadKey
    <3>1. Head(queue) \in Keys /\ Head(queue) # 0
      BY <2>1, HeadTailProperties, KeysAssumption
    <3>2. at' = "python" /\ received' = Append(received, Head(queue))
      BY <2>1, <2>3, <3>1 DEF ReadKey, Read, Return
    <3>3. received \o <<Head(queue)>> = Append(received, Head(queue))
      BY <2>1, <3>1
    <3> QED
      BY <2>1, <3>2, <3>3, FirstFacts
  <2>4. ~RxChr /\ ~Getch /\ ~StdioPoll
    BY <2>1 DEF RxChr, Getch, StdioPoll
  <2> QED
    BY <2>2, <2>3, <2>4 DEF Next
<1>2. Spec => [][A]_vars
  BY <1>1, InputInvariant, PTL DEF Spec
<1> QED
  BY <1>2 DEF PromiseKept
=============================================================================
