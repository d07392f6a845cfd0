------------------------------- MODULE GcRoots -------------------------------
(***************************************************************************)
(* Where the garbage collector looks for Python objects that C code still  *)
(* uses (Extra/gccollect.c): the registers a function must preserve for    *)
(* its caller, and the stack from there up to stack_top, which main notes  *)
(* before it calls anything else (Extra/main.c).  An object all of whose   *)
(* pointers are elsewhere is freed while it is used.                       *)
(*                                                                         *)
(* The calling convention, the nlr buffers and the heap are external.  An  *)
(* object stands for all that can be reached from it; the interpreter's    *)
(* own root pointers are left out, they only keep more.                    *)
(***************************************************************************)
EXTENDS Integers, Sequences, FiniteSets

CONSTANTS
  Branches,   \* the branches of gccollect.c that are built
  Objects,    \* objects of the Python heap
  None,       \* a word that points at none of them
  WordSize,   \* sizeof(uintptr_t)
  TopByte,    \* how many bytes below main's frame stack_top is
  MaxWords,   \* bound: words of stack below main's frame, beside buffers
  MaxUsed,    \* bound: registers the functions running have saved
  MaxBuffers  \* bound: nlr buffers

ASSUME BranchesAssumption == Branches \subseteq {"i386", "x86_64", "arm", "setjmp"}
ASSUME NoneAssumption     == None \notin Objects
ASSUME SizesAssumption    == WordSize \in Nat \ {0}
ASSUME BoundsAssumption   == {MaxWords, MaxUsed, MaxBuffers} \subseteq Nat

(* stack_top is the address of a local variable of mp_stack_ctrl_init,     *)
(* which main calls first.  Not below it are that variable, the return     *)
(* address and, where it is built with a frame pointer, the one of main.   *)
ASSUME TopAssumption      == TopByte \in 0 .. 3 * WordSize

VARIABLES
  branch,     \* the branch that is built
  reg,        \* the preserved registers
  stack,      \* the words below main's frame, the highest address first
  frames,     \* the functions running: how many words are above the frame
              \* of each, and in which word it saved a register, or 0
  nlr,        \* nlr buffers: the frame each is in, and the words above it
  alloc       \* the objects that are allocated

vars == <<branch, reg, stack, frames, nlr, alloc>>

Words == Objects \cup {None}

(* The registers a function leaves as it found them. *)
Preserved ==
  [ i386   |-> <<"ebx", "esi", "edi", "ebp">>,
    x86_64 |-> <<"rbx", "rbp", "r12", "r13", "r14", "r15">>,
    arm    |-> <<"r4", "r5", "r6", "r7", "r8", "r9", "r10", "r11">>,
    setjmp |-> <<"rbx", "rbp", "rdi", "rsi", "r12", "r13", "r14", "r15">> ]

Regs(b) == {Preserved[b][i] : i \in DOMAIN Preserved[b]}

BugNoFramePointer ==
  [ i386   |-> <<"ebx", "esi", "edi">>,
    x86_64 |-> <<"rbx", "r12", "r13", "r14", "r15">>,
    arm    |-> <<"r4", "r5", "r6", "r7", "r8", "r9", "r10", "r12", "r13">>,
    setjmp |-> <<"rbx", "rdi", "rsi", "r12", "r13", "r14", "r15">> ]

(* What gc_helper_get_regs stores in regs_t; SetJump also stores where the *)
(* stack and the code are.                                                 *)
Captured ==
  [ i386   |-> <<"ebx", "esi", "edi", "ebp">>,
    x86_64 |-> <<"rbx", "rbp", "r12", "r13", "r14", "r15">>,
    arm    |-> <<"r4", "r5", "r6", "r7", "r8", "r9", "r10", "r11", "r12", "r13">>,
    setjmp |-> <<"rbx", "rsp", "rbp", "rdi", "rsi", "r12", "r13", "r14", "r15",
                 "rip">> ]

Value(r) == IF r \in Regs(branch) THEN reg[r] ELSE None

Init ==
  /\ branch \in Branches
  /\ reg = [r \in Regs(branch) |-> None]
  /\ stack = <<>> /\ frames = <<>> /\ nlr = <<>>
  /\ alloc = {}

-----------------------------------------------------------------------------
(* C functions, as the calling convention lets them be compiled.           *)

Top == frames[Len(frames)]

Count == Len(Preserved[branch])

Room == Len(stack) < MaxWords + Len(nlr) * Count

Saved(f) == {r \in DOMAIN f.saved : f.saved[r] # 0}

Used == UNION {Saved(frames[k]) : k \in DOMAIN frames}

(* A function is called: its return address is pushed. *)
Call ==
  /\ Room
  /\ stack' = Append(stack, None)
  /\ frames' = Append(frames, [base  |-> Len(stack),
                               saved |-> [r \in Regs(branch) |-> 0]])
  /\ UNCHANGED <<branch, reg, nlr, alloc>>

(* It has only pushed its return address and registers so far. *)
InPrologue ==
  \/ Len(stack) = Top.base + 1
  \/ \E r \in Saved(Top) : Top.saved[r] = Len(stack)

(* It saves a register it will use. *)
Save ==
  /\ frames # <<>> /\ Room /\ InPrologue
  /\ \E r \in Regs(branch) \ Saved(Top) :
       /\ Cardinality(Used \cup {r}) <= MaxUsed
       /\ stack' = Append(stack, reg[r])
       /\ frames' = [frames EXCEPT ![Len(frames)].saved[r] = Len(stack) + 1]
  /\ UNCHANGED <<branch, reg, nlr, alloc>>

(* It keeps an object, new or found in another one, in such a register, or *)
(* keeps something else there.                                             *)
UseRegister ==
  /\ frames # <<>>
  /\ \E r \in Saved(Top), v \in Words :
       /\ reg' = [reg EXCEPT ![r] = v]
       /\ alloc' = alloc \cup ({v} \ {None})
  /\ UNCHANGED <<branch, stack, frames, nlr>>

(* It keeps an object in a local variable.  That none of these lies as     *)
(* high as stack_top is assumed of the compiler: the words up there are    *)
(* return addresses and saved registers.                                   *)
UseStack ==
  /\ frames # <<>> /\ Room
  /\ WordSize * Len(stack) >= TopByte
  /\ \E v \in Objects :
       /\ stack' = Append(stack, v)
       /\ alloc' = alloc \cup {v}
  /\ UNCHANGED <<branch, reg, frames, nlr>>

BugReturnUnpopped ==
  /\ frames # <<>>
  /\ reg' = [r \in DOMAIN reg |->
               IF r \in Saved(Top) THEN stack[Top.saved[r]] ELSE reg[r]]
  /\ stack' = SubSeq(stack, 1, Top.base)
  /\ frames' = SubSeq(frames, 1, Len(frames) - 1)
  /\ UNCHANGED <<branch, nlr, alloc>>

(* It returns, with the registers it saved as they were. *)
Return ==
  /\ frames # <<>>
  /\ nlr # <<>> => nlr[Len(nlr)].depth < Len(frames)
  /\ reg' = [r \in DOMAIN reg |->
               IF r \in Saved(Top) THEN stack[Top.saved[r]] ELSE reg[r]]
  /\ stack' = SubSeq(stack, 1, Top.base)
  /\ frames' = SubSeq(frames, 1, Len(frames) - 1)
  /\ UNCHANGED <<branch, nlr, alloc>>

-----------------------------------------------------------------------------
(* nlr buffers: setjmp and longjmp, or the same in assembler.              *)

BufferWords == [i \in 1..Count |-> reg[Preserved[branch][i]]]

(* nlr_push: a local variable of the function takes the registers. *)
NlrPush ==
  /\ frames # <<>> /\ Room /\ Len(nlr) < MaxBuffers
  /\ WordSize * Len(stack) >= TopByte
  /\ stack' = stack \o BufferWords
  /\ nlr' = Append(nlr, [depth |-> Len(frames), at |-> Len(stack)])
  /\ UNCHANGED <<branch, reg, frames, alloc>>

NlrPop ==
  /\ nlr # <<>> /\ nlr[Len(nlr)].depth = Len(frames)
  /\ nlr' = SubSeq(nlr, 1, Len(nlr) - 1)
  /\ UNCHANGED <<branch, reg, stack, frames, alloc>>

Slot(r) == CHOOSE i \in 1..Count : Preserved[branch][i] = r

(* nlr_jump: back in the function that pushed the innermost buffer. *)
NlrJump ==
  /\ nlr # <<>>
  /\ LET buf == nlr[Len(nlr)]
     IN /\ reg' = [r \in DOMAIN reg |-> stack[buf.at + Slot(r)]]
        /\ stack' = SubSeq(stack, 1, buf.at + Count)
        /\ frames' = SubSeq(frames, 1, buf.depth)
  /\ nlr' = SubSeq(nlr, 1, Len(nlr) - 1)
  /\ UNCHANGED <<branch, alloc>>

-----------------------------------------------------------------------------
(* gc_collect_regs_and_stack: regs is the lowest word of the stack, below  *)
(* the address gc_collect returns to.                                      *)

RegsAndStack ==
  Append(stack, None) \o
           [i \in DOMAIN Captured[branch] |->
              Value(Captured[branch][Len(Captured[branch]) + 1 - i])]

(* How many words there are from &regs to stack_top: the difference of two *)
(* addresses, divided by the size of one.                                  *)
RootCount == (WordSize * Len(RegsAndStack) - TopByte) \div WordSize

(* The words gc_collect_root looks at. *)
Roots ==
  {RegsAndStack[i] :
     i \in (Len(RegsAndStack) - RootCount + 1) .. Len(RegsAndStack)}

(* gc_collect: what no root points at is freed.  Its callers up to the     *)
(* allocation that needs memory are functions like any other.              *)
Collect ==
  /\ frames # <<>>
  /\ alloc' = alloc \cap Roots
  /\ UNCHANGED <<branch, reg, stack, frames, nlr>>

Compiled == Call \/ Save \/ UseRegister \/ UseStack \/ Return

Next == Compiled \/ NlrPush \/ NlrPop \/ NlrJump \/ Collect

Spec == Init /\ [][Next]_vars
-----------------------------------------------------------------------------
(* Properties *)

(* The value every variable may have: saved registers and buffers are on   *)
(* the stack, inside of frames that are there.                             *)
TypeOK ==
  /\ branch \in Branches
  /\ reg \in [Regs(branch) -> Words]
  /\ stack \in Seq(Words)
  /\ frames \in Seq([base : Nat, saved : [Regs(branch) -> Nat]])
  /\ nlr \in Seq([depth : Nat, at : Nat])
  /\ alloc \subseteq Objects
  /\ \A k \in DOMAIN frames :
       /\ frames[k].base < Len(stack)
       /\ \A r \in Regs(branch) : frames[k].saved[r] <= Len(stack)
  /\ \A m \in DOMAIN nlr :
       /\ nlr[m].depth \in DOMAIN frames
       /\ nlr[m].at + Count <= Len(stack)

Held == {stack[i] : i \in DOMAIN stack} \cup {reg[r] : r \in DOMAIN reg}

(* No object that a function still running, at any depth, keeps in a       *)
(* variable or a register is collected, wherever a call, a saved register, *)
(* an nlr buffer or the jump to it has put the only pointer to it          *)
(* (gccollect.c:47-50, 143-150).                                           *)
LiveObjectsKept == Held \ {None} \subseteq alloc
=============================================================================
