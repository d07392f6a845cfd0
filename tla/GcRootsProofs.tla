--------------------------- MODULE GcRootsProofs ---------------------------
(***************************************************************************)
(* No object that a running function keeps is collected: for every word    *)
(* size, every depth of calls, and every branch of gccollect.c.            *)
(***************************************************************************)
EXTENDS GcRoots, SequenceTheorems, TLAPS

(* The words above stack_top point at nothing. *)
HiddenNone ==
  \A i \in DOMAIN stack : WordSize * (i - 1) < TopByte => stack[i] = None

(* Frames lie below one another; each starts with its return address and   *)
(* then what it saved.                                                     *)
FrameInv ==
  /\ \A k \in DOMAIN frames :
       /\ frames[k].base >= k - 1
       /\ \A r \in Saved(frames[k]) : frames[k].saved[r] > frames[k].base + 1
  /\ \A j, k \in DOMAIN frames : j < k =>
       /\ frames[j].base < frames[k].base
       /\ \A r \in Regs(branch) : frames[j].saved[r] <= frames[k].base

(* A buffer lies in its frame, below what that frame saved. *)
BufferInv ==
  /\ \A m \in DOMAIN nlr, k \in DOMAIN frames :
       /\ k <= nlr[m].depth =>
            /\ frames[k].base < nlr[m].at
            /\ \A r \in Regs(branch) : frames[k].saved[r] <= nlr[m].at
       /\ k > nlr[m].depth => nlr[m].at + Count <= frames[k].base
  /\ \A l, m \in DOMAIN nlr : l < m =>
       nlr[l].depth <= nlr[m].depth /\ nlr[l].at + Count <= nlr[m].at

(* The frames 1 to k have not saved r. *)
Untouched(r, k) ==
  \A j \in DOMAIN frames : j <= k => r \notin Saved(frames[j])

(* What main had in the registers pointed at nothing, and is still where   *)
(* the first function that needs the register, or a buffer, has put it.    *)
MainRegs ==
  /\ \A r \in Regs(branch) : Untouched(r, Len(frames)) => reg[r] = None
  /\ \A k \in DOMAIN frames : \A r \in Saved(frames[k]) :
       Untouched(r, k - 1) => stack[frames[k].saved[r]] = None
  /\ \A m \in DOMAIN nlr : \A i \in DOMAIN Preserved[branch] :
       Untouched(Preserved[branch][i], nlr[m].depth) =>
         stack[nlr[m].at + i] = None

IInv ==
  TypeOK /\ LiveObjectsKept /\ HiddenNone /\ FrameInv /\ BufferInv /\ MainRegs

Frame == [base : Nat, saved : [Regs(branch) -> Nat]]

Buffer == [depth : Nat, at : Nat]

-----------------------------------------------------------------------------
(* The tables of registers. *)

LEMMA PreservedRegs ==
  ASSUME branch \in Branches
  PROVE  /\ Count \in Nat \ {0} /\ DOMAIN Preserved[branch] = 1..Count
         /\ \A i \in 1..Count : Preserved[branch][i] \in Regs(branch)
         /\ \A r \in Regs(branch) :
              Slot(r) \in 1..Count /\ Preserved[branch][Slot(r)] = r
<1>1. Count \in Nat \ {0} /\ DOMAIN Preserved[branch] = 1..Count
  <2>1. CASE branch = "i386"
    BY <2>1 DEF Count, Preserved
  <2>2. CASE branch = "x86_64"
    BY <2>2 DEF Count, Preserved
  <2>3. CASE branch = "arm"
    BY <2>3 DEF Count, Preserved
  <2>4. CASE branch = "setjmp"
    BY <2>4 DEF Count, Preserved
  <2> QED
    BY <2>1, <2>2, <2>3, <2>4, BranchesAssumption
<1>2. \A r \in Regs(branch) : \E i \in 1..Count : Preserved[branch][i] = r
  BY <1>1 DEF Regs
<1>3. \A r \in Regs(branch) :
        Slot(r) \in 1..Count /\ Preserved[branch][Slot(r)] = r
  BY <1>2 DEF Slot
<1> QED
  BY <1>1, <1>3 DEF Regs

LEMMA BufferFacts ==
  ASSUME branch \in Branches, reg \in [Regs(branch) -> Words]
  PROVE  /\ Len(BufferWords) = Count /\ BufferWords \in Seq(Words)
         /\ \A i \in 1..Count : BufferWords[i] = reg[Preserved[branch][i]]
<1>1. \A i \in 1..Count : reg[Preserved[branch][i]] \in Words
  BY PreservedRegs
<1> QED
  BY <1>1, PreservedRegs DEF BufferWords

(* Every register a function must preserve is among those captured. *)
LEMMA CapturesAll ==
  ASSUME branch \in Branches, NEW r \in Regs(branch)
  PROVE  /\ Len(Captured[branch]) \in Nat
         /\ DOMAIN Captured[branch] = 1..Len(Captured[branch])
         /\ \E i \in 1..Len(Captured[branch]) : Captured[branch][i] = r
<1>1. CASE branch = "i386"
  BY <1>1 DEF Captured, Regs, Preserved
<1>2. CASE branch = "x86_64"
  BY <1>2 DEF Captured, Regs, Preserved
<1>3. CASE branch = "arm"
  BY <1>3 DEF Captured, Regs, Preserved
<1>4. CASE branch = "setjmp"
  BY <1>4 DEF Captured, Regs, Preserved
<1> QED
  BY <1>1, <1>2, <1>3, <1>4, BranchesAssumption

LEMMA CutProperties ==
  ASSUME NEW S, NEW s \in Seq(S), NEW n \in 0..Len(s)
  PROVE  /\ SubSeq(s, 1, n) \in Seq(S)
         /\ Len(SubSeq(s, 1, n)) = n
         /\ DOMAIN SubSeq(s, 1, n) = 1..n
         /\ \A i \in 1..n : SubSeq(s, 1, n)[i] = s[i]
  OBVIOUS

LEMMA JoinProperties ==
  ASSUME NEW S, NEW s \in Seq(S), NEW t \in Seq(S)
  PROVE  /\ s \o t \in Seq(S) /\ Len(s \o t) = Len(s) + Len(t)
         /\ DOMAIN (s \o t) = 1..(Len(s) + Len(t))
         /\ \A i \in 1..Len(s) : (s \o t)[i] = s[i]
         /\ \A i \in 1..Len(t) : (s \o t)[Len(s) + i] = t[i]
  OBVIOUS

LEMMA ReplaceProperties ==
  ASSUME NEW S, NEW s \in Seq(S), NEW n \in 1..Len(s), NEW v \in S
  PROVE  /\ [s EXCEPT ![n] = v] \in Seq(S)
         /\ Len([s EXCEPT ![n] = v]) = Len(s)
         /\ DOMAIN [s EXCEPT ![n] = v] = 1..Len(s)
         /\ \A k \in 1..Len(s) : k # n => [s EXCEPT ![n] = v][k] = s[k]
         /\ [s EXCEPT ![n] = v][n] = v
  OBVIOUS

-----------------------------------------------------------------------------
LEMMA InitIInv == Init => IInv
<1> SUFFICES ASSUME Init PROVE IInv
  OBVIOUS
<1>1. DOMAIN stack = {} /\ DOMAIN frames = {} /\ DOMAIN nlr = {}
      /\ Len(frames) = 0
  BY DEF Init
<1>2. TypeOK
  BY <1>1 DEF Init, TypeOK, Words
<1>3. LiveObjectsKept
  BY <1>1 DEF Init, LiveObjectsKept, Held
<1>4. HiddenNone /\ FrameInv /\ BufferInv
  BY <1>1 DEF HiddenNone, FrameInv, BufferInv
<1>5. MainRegs
  BY <1>1 DEF Init, MainRegs
<1> QED
  BY <1>2, <1>3, <1>4, <1>5 DEF IInv

(* What TypeOK says of the elements. *)
LEMMA Shape ==
  ASSUME TypeOK
  PROVE  /\ Len(stack) \in Nat /\ DOMAIN stack = 1..Len(stack)
         /\ \A i \in 1..Len(stack) : stack[i] \in Words
         /\ Len(frames) \in Nat /\ DOMAIN frames = 1..Len(frames)
         /\ Len(nlr) \in Nat /\ DOMAIN nlr = 1..Len(nlr)
         /\ Count \in Nat \ {0} /\ None \in Words
<1> QED
  BY PreservedRegs DEF TypeOK, Words

LEMMA FrameShape ==
  ASSUME TypeOK, NEW k \in 1..Len(frames)
  PROVE  /\ frames[k] \in Frame
         /\ frames[k].base \in Nat /\ frames[k].base < Len(stack)
         /\ frames[k].saved \in [Regs(branch) -> Nat]
         /\ \A r \in Regs(branch) :
              frames[k].saved[r] \in Nat /\ frames[k].saved[r] <= Len(stack)
         /\ Saved(frames[k]) \subseteq Regs(branch)
<1>0. frames \in Seq(Frame)
  BY DEF TypeOK, Frame
<1>1. frames[k] \in Frame
  BY <1>0
<1>2. frames[k].base \in Nat /\ frames[k].saved \in [Regs(branch) -> Nat]
  BY <1>1 DEF Frame
<1>3. frames[k].base < Len(stack)
      /\ \A r \in Regs(branch) : frames[k].saved[r] <= Len(stack)
  BY Shape DEF TypeOK
<1> QED
  BY <1>1, <1>2, <1>3 DEF Saved

LEMMA TopFacts ==
  ASSUME TypeOK, frames # <<>>
  PROVE  /\ Len(frames) \in Nat \ {0} /\ Len(frames) \in 1..Len(frames)
         /\ DOMAIN frames = 1..Len(frames) /\ Top = frames[Len(frames)]
         /\ Top \in Frame /\ Top.base \in Nat /\ Top.base < Len(stack)
         /\ Saved(Top) \subseteq Regs(branch)
         /\ \A r \in Regs(branch) :
              Top.saved[r] \in Nat /\ Top.saved[r] <= Len(stack)
<1>1. Len(frames) \in Nat \ {0} /\ DOMAIN frames = 1..Len(frames)
  BY DEF TypeOK
<1>2. Len(frames) \in 1..Len(frames)
  BY <1>1
<1> QED
  BY <1>1, <1>2, FrameShape DEF Top

LEMMA BufferShape ==
  ASSUME TypeOK, NEW m \in 1..Len(nlr)
  PROVE  /\ nlr[m].depth \in 1..Len(frames) /\ nlr[m].depth \in Nat
         /\ nlr[m].at \in Nat /\ nlr[m].at + Count <= Len(stack)
<1>0. nlr \in Seq(Buffer)
  BY DEF TypeOK, Buffer
<1>1. nlr[m] \in Buffer
  BY <1>0
<1>2. nlr[m].depth \in DOMAIN frames /\ nlr[m].at + Count <= Len(stack)
  BY Shape DEF TypeOK
<1> QED
  BY <1>1, <1>2, Shape DEF Buffer

LEMMA CallKeeps == IInv /\ Call => IInv'
<1> SUFFICES ASSUME IInv, Call PROVE IInv'
  OBVIOUS
<1> DEFINE new == [base |-> Len(stack), saved |-> [r \in Regs(branch) |-> 0]]
           n == Len(frames)
           s == Len(stack)
<1>1. /\ stack' = Append(stack, None) /\ frames' = Append(frames, new)
      /\ UNCHANGED <<branch, reg, nlr, alloc>>
  BY DEF Call
<1>2. TypeOK /\ stack \in Seq(Words) /\ frames \in Seq(Frame)
  BY DEF IInv, TypeOK, Frame
<1>3. new \in Frame /\ Saved(new) = {} /\ new.base = s
      /\ \A r \in Regs(branch) : new.saved[r] = 0
  BY <1>2, Shape DEF Frame, Saved
<1>4. /\ stack' \in Seq(Words) /\ Len(stack') = s + 1
      /\ DOMAIN stack' = 1..(s + 1)
      /\ \A i \in 1..s : stack'[i] = stack[i]
      /\ stack'[s + 1] = None
  BY <1>1, <1>2, Shape
<1>5. /\ frames' \in Seq(Frame) /\ Len(frames') = n + 1
      /\ DOMAIN frames' = 1..(n + 1)
      /\ \A k \in 1..n : frames'[k] = frames[k]
      /\ frames'[n + 1] = new
  BY <1>1, <1>2, <1>3, Shape
<1>6. Count' = Count /\ Regs(branch)' = Regs(branch)
  BY <1>1 DEF Count
<1> HIDE DEF new
<1>7. TypeOK'
  <2>1. frames' \in Seq([base : Nat, saved : [Regs(branch)' -> Nat]])
    BY <1>5, <1>6 DEF Frame
  <2>2. ASSUME NEW k \in 1..(n + 1)
        PROVE  /\ frames'[k].base < s + 1
               /\ \A r \in Regs(branch) : frames'[k].saved[r] <= s + 1
    <3>1. CASE k \in 1..n
      BY <1>2, <1>5, <3>1, Shape, FrameShape
    <3>2. CASE k = n + 1
      BY <1>2, <1>3, <1>5, <3>2, Shape
    <3> QED
      BY <1>2, <3>1, <3>2, Shape
  <2>3. ASSUME NEW m \in 1..Len(nlr)
        PROVE  nlr[m].depth \in 1..(n + 1) /\ nlr[m].at + Count <= s + 1
    BY <1>2, Shape, BufferShape
  <2>4. /\ branch \in Branches /\ reg \in [Regs(branch) -> Words]
        /\ nlr \in Seq([depth : Nat, at : Nat]) /\ alloc \subseteq Objects
        /\ DOMAIN nlr = 1..Len(nlr)
    BY <1>2, Shape DEF TypeOK
  <2>5. \A k \in DOMAIN frames' :
          /\ frames'[k].base < Len(stack')
          /\ \A r \in Regs(branch)' : frames'[k].saved[r] <= Len(stack')
    BY <1>4, <1>5, <1>6, <2>2
  <2>6. \A m \in DOMAIN nlr' :
          nlr'[m].depth \in DOMAIN frames' /\ nlr'[m].at + Count' <= Len(stack')
    BY <1>1, <1>4, <1>5, <1>6, <2>3, <2>4
  <2> QED
    BY <1>1, <1>4, <1>6, <2>1, <2>4, <2>5, <2>6 DEF TypeOK
<1>8. LiveObjectsKept'
  BY <1>1, <1>2, <1>4, Shape DEF IInv, LiveObjectsKept, Held
<1>9. HiddenNone'
  BY <1>2, <1>4, Shape DEF IInv, HiddenNone
<1>10. FrameInv'
  <2>1. s >= n
    <3>1. CASE n = 0
      BY <1>2, <3>1, Shape
    <3>2. CASE n # 0
      <4>1. n \in 1..n /\ frames[n].base >= n - 1
        BY <1>2, <3>2, Shape DEF IInv, FrameInv
      <4> QED
        BY <1>2, <4>1, Shape, FrameShape
    <3> QED
      BY <3>1, <3>2
  <2>2. ASSUME NEW k \in 1..(n + 1)
        PROVE  /\ frames'[k].base >= k - 1
               /\ \A r \in Saved(frames'[k]) :
                    frames'[k].saved[r] > frames'[k].base + 1
    BY <1>2, <1>3, <1>5, <2>1, Shape DEF IInv, FrameInv
  <2>3. ASSUME NEW j \in 1..(n + 1), NEW k \in 1..(n + 1), j < k
        PROVE  /\ frames'[j].base < frames'[k].base
               /\ \A r \in Regs(branch) : frames'[j].saved[r] <= frames'[k].base
    <3>1. CASE k \in 1..n
      BY <1>2, <1>5, <2>3, <3>1, Shape DEF IInv, FrameInv
    <3>2. CASE k = n + 1
      BY <1>2, <1>3, <1>5, <2>3, <3>2, Shape, FrameShape
    <3> QED
      BY <1>2, <3>1, <3>2, Shape
  <2> QED
    BY <1>5, <1>6, <2>2, <2>3 DEF FrameInv
<1>11. BufferInv'
  <2>1. ASSUME NEW m \in 1..Len(nlr), NEW k \in 1..(n + 1)
        PROVE  /\ k <= nlr[m].depth =>
                    /\ frames'[k].base < nlr[m].at
                    /\ \A r \in Regs(branch) : frames'[k].saved[r] <= nlr[m].at
               /\ k > nlr[m].depth => nlr[m].at + Count <= frames'[k].base
    <3>1. CASE k \in 1..n
      BY <1>2, <1>5, <3>1, Shape DEF IInv, BufferInv
    <3>2. CASE k = n + 1
      BY <1>2, <1>3, <1>5, <3>2, Shape, BufferShape
    <3> QED
      BY <1>2, <3>1, <3>2, Shape
  <2> QED
    BY <1>1, <1>2, <1>5, <1>6, <2>1, Shape DEF IInv, BufferInv
<1>12. MainRegs'
  <2>1. ASSUME NEW r, NEW k \in Nat, Untouched(r, k)'
        PROVE  Untouched(r, k)
    BY <1>2, <1>5, <2>1, Shape DEF Untouched
  <2>2. ASSUME NEW r \in Regs(branch), Untouched(r, Len(frames))'
        PROVE  reg'[r] = None
    <3>1. Untouched(r, n)
      BY <1>2, <1>5, <2>2, Shape DEF Untouched
    <3> QED
      BY <1>1, <3>1 DEF IInv, MainRegs
  <2>3. ASSUME NEW k \in 1..(n + 1), NEW r \in Saved(frames'[k]),
               Untouched(r, k - 1)'
        PROVE  stack'[frames'[k].saved[r]] = None
    <3>1. k \in 1..n /\ r \in Saved(frames[k])
      BY <1>2, <1>3, <1>5, <2>3, Shape
    <3>2. frames[k].saved[r] \in 1..s
      BY <1>2, <3>1, FrameShape DEF Saved
    <3>3. Untouched(r, k - 1) /\ frames'[k] = frames[k]
      BY <1>5, <2>1, <2>3, <3>1
    <3>4. stack[frames[k].saved[r]] = None
      BY <1>2, <3>1, <3>3, Shape DEF IInv, MainRegs
    <3> QED
      BY <1>4, <3>2, <3>3, <3>4
  <2>4. ASSUME NEW m \in 1..Len(nlr), NEW i \in DOMAIN Preserved[branch],
               Untouched(Preserved[branch][i], nlr[m].depth)'
        PROVE  stack'[nlr[m].at + i] = None
    <3>0. i \in 1..Count
      BY <1>2, PreservedRegs DEF TypeOK
    <3>1. nlr[m].at + i \in 1..s /\ nlr[m].depth \in Nat
      BY <1>2, <3>0, Shape, BufferShape
    <3>2. Untouched(Preserved[branch][i], nlr[m].depth)
      BY <1>1, <2>1, <2>4, <3>1
    <3> QED
      BY <1>2, <1>4, <3>1, <3>2, Shape DEF IInv, MainRegs
  <2>5. \A r \in Regs(branch)' : Untouched(r, Len(frames))' => reg'[r] = None
    BY <1>5, <1>6, <2>2
  <2>6. \A k \in DOMAIN frames' : \A r \in Saved(frames'[k]) :
          Untouched(r, k - 1)' => stack'[frames'[k].saved[r]] = None
    BY <1>5, <2>3
  <2>7. \A m \in DOMAIN nlr' : \A i \in DOMAIN Preserved[branch]' :
          Untouched(Preserved[branch][i], nlr[m].depth)' =>
            stack'[nlr'[m].at + i] = None
    BY <1>1, <1>2, <2>4, Shape
  <2> QED
    BY <2>5, <2>6, <2>7 DEF MainRegs
<1> QED
  BY <1>7, <1>8, <1>9, <1>10, <1>11, <1>12 DEF IInv

(* A frame stays the same, a word is pushed. *)
LEMMA PushKeepsFrames ==
  ASSUME IInv, NEW v \in Words, stack' = Append(stack, v),
         UNCHANGED <<branch, reg, frames, nlr>>
  PROVE  /\ stack' \in Seq(Words) /\ Len(stack') = Len(stack) + 1
         /\ \A i \in 1..Len(stack) : stack'[i] = stack[i]
         /\ stack'[Len(stack) + 1] = v
         /\ FrameInv' /\ BufferInv' /\ MainRegs'
<1> DEFINE s == Len(stack)
<1>1. TypeOK /\ stack \in Seq(Words)
  BY DEF IInv, TypeOK
<1>2. /\ stack' \in Seq(Words) /\ Len(stack') = s + 1
      /\ \A i \in 1..s : stack'[i] = stack[i]
      /\ stack'[s + 1] = v
  BY <1>1, Shape
<1>3. FrameInv' /\ BufferInv'
  BY DEF IInv, FrameInv, BufferInv, Count
<1>4. MainRegs'
  <2>1. ASSUME NEW k \in 1..Len(frames), NEW r \in Saved(frames[k]),
               Untouched(r, k - 1)
        PROVE  stack'[frames[k].saved[r]] = None
    <3>1. frames[k].saved[r] \in 1..s
      BY <1>1, FrameShape DEF Saved
    <3>2. stack[frames[k].saved[r]] = None
      BY <1>1, <2>1, Shape DEF IInv, MainRegs
    <3> QED
      BY <1>2, <3>1, <3>2
  <2>2. ASSUME NEW m \in 1..Len(nlr), NEW i \in DOMAIN Preserved[branch],
               Untouched(Preserved[branch][i], nlr[m].depth)
        PROVE  stack'[nlr[m].at + i] = None
    <3>1. i \in 1..Count
      BY <1>1, PreservedRegs DEF TypeOK
    <3>2. nlr[m].at + i \in 1..s
      BY <1>1, <3>1, Shape, BufferShape
    <3>3. stack[nlr[m].at + i] = None
      BY <1>1, <2>2, Shape DEF IInv, MainRegs
    <3> QED
      BY <1>2, <3>2, <3>3
  <2>3. \A r, k : Untouched(r, k)' <=> Untouched(r, k)
    BY DEF Untouched
  <2> QED
    BY <1>1, <2>1, <2>2, <2>3, Shape DEF IInv, MainRegs
<1> QED
  BY <1>2, <1>3, <1>4

LEMMA UseStackKeeps == IInv /\ UseStack => IInv'
<1> SUFFICES ASSUME IInv, UseStack PROVE IInv'
  OBVIOUS
<1> DEFINE s == Len(stack)
<1>1. PICK v \in Objects : stack' = Append(stack, v) /\ alloc' = alloc \cup {v}
  BY DEF UseStack
<1>2. UNCHANGED <<branch, reg, frames, nlr>> /\ WordSize * s >= TopByte
  BY DEF UseStack
<1>3. TypeOK /\ v \in Words
  BY DEF IInv, Words
<1>4. /\ stack' \in Seq(Words) /\ Len(stack') = s + 1
      /\ \A i \in 1..s : stack'[i] = stack[i]
      /\ stack'[s + 1] = v
      /\ FrameInv' /\ BufferInv' /\ MainRegs'
  BY <1>1, <1>2, <1>3, PushKeepsFrames
<1>5. DOMAIN stack' = 1..(s + 1)
  BY <1>4
<1>6. TypeOK'
  <2>1. \A k \in DOMAIN frames : frames[k].base < s + 1
          /\ \A r \in Regs(branch) : frames[k].saved[r] <= s + 1
    BY <1>3, Shape, FrameShape
  <2>2. \A m \in DOMAIN nlr : nlr[m].depth \in DOMAIN frames
                              /\ nlr[m].at + Count <= s + 1
    BY <1>3, Shape, BufferShape
  <2>3. alloc' \subseteq Objects
    BY <1>1, <1>3 DEF TypeOK
  <2> QED
    BY <1>2, <1>3, <1>4, <2>1, <2>2, <2>3 DEF TypeOK, Count
<1>7. LiveObjectsKept'
  BY <1>1, <1>2, <1>3, <1>4, <1>5, Shape DEF IInv, LiveObjectsKept, Held
<1>8. HiddenNone'
  <2>1. ASSUME NEW i \in 1..(s + 1), WordSize * (i - 1) < TopByte
        PROVE  stack'[i] = None
    <3>1. i # s + 1
      BY <1>2, <1>3, <2>1, SizesAssumption, TopAssumption, Shape
    <3> QED
      BY <1>3, <1>4, <2>1, <3>1, Shape DEF IInv, HiddenNone
  <2> QED
    BY <1>5, <2>1 DEF HiddenNone
<1> QED
  BY <1>4, <1>6, <1>7, <1>8 DEF IInv

LEMMA UseRegisterKeeps == IInv /\ UseRegister => IInv'
<1> SUFFICES ASSUME IInv, UseRegister PROVE IInv'
  OBVIOUS
<1>1. PICK q \in Saved(Top), v \in Words :
        reg' = [reg EXCEPT ![q] = v] /\ alloc' = alloc \cup ({v} \ {None})
  BY DEF UseRegister
<1>2. UNCHANGED <<branch, stack, frames, nlr>> /\ frames # <<>>
  BY DEF UseRegister
<1>3. TypeOK /\ reg \in [Regs(branch) -> Words]
  BY DEF IInv, TypeOK
<1>4. /\ reg' \in [Regs(branch) -> Words] /\ q \in Regs(branch)
      /\ \A r \in Regs(branch) : reg'[r] = IF r = q THEN v ELSE reg[r]
  BY <1>1, <1>2, <1>3, TopFacts
<1>5. TypeOK'
  <2>1. alloc' \subseteq Objects
    BY <1>1, <1>3 DEF TypeOK, Words
  <2> QED
    BY <1>2, <1>3, <1>4, <2>1 DEF TypeOK, Count
<1>6. LiveObjectsKept'
  <2>1. \A r \in Regs(branch) : reg'[r] \in Held \cup {v}
    BY <1>3, <1>4 DEF Held
  <2>2. Held' \subseteq Held \cup {v}
    BY <1>2, <1>4, <2>1 DEF Held
  <2> QED
    BY <1>1, <2>2 DEF IInv, LiveObjectsKept
<1>7. HiddenNone' /\ FrameInv' /\ BufferInv'
  BY <1>2 DEF IInv, HiddenNone, FrameInv, BufferInv, Count
<1>8. MainRegs'
  <2>1. \A r, k : Untouched(r, k)' <=> Untouched(r, k)
    BY <1>2 DEF Untouched
  <2>2. ~Untouched(q, Len(frames))
    BY <1>1, <1>2, <1>3, TopFacts DEF Untouched
  <2>3. \A r \in Regs(branch) : Untouched(r, Len(frames)) => reg'[r] = None
    BY <1>4, <2>2 DEF IInv, MainRegs
  <2> QED
    BY <1>2, <2>1, <2>3 DEF IInv, MainRegs
<1> QED
  BY <1>5, <1>6, <1>7, <1>8 DEF IInv

LEMMA NlrPopKeeps == IInv /\ NlrPop => IInv'
<1> SUFFICES ASSUME IInv, NlrPop PROVE IInv'
  OBVIOUS
<1> DEFINE b == Len(nlr)
<1>1. /\ nlr' = SubSeq(nlr, 1, b - 1) /\ nlr # <<>>
      /\ UNCHANGED <<branch, reg, stack, frames, alloc>>
  BY DEF NlrPop
<1>2. TypeOK /\ nlr \in Seq(Buffer) /\ b \in Nat \ {0} /\ DOMAIN nlr = 1..b
  BY <1>1 DEF IInv, TypeOK, Buffer
<1>3. /\ nlr' \in Seq(Buffer) /\ DOMAIN nlr' = 1..(b - 1)
      /\ \A m \in 1..(b - 1) : nlr'[m] = nlr[m] /\ m \in 1..b
  BY <1>1, <1>2, CutProperties
<1>4. TypeOK'
  BY <1>1, <1>2, <1>3 DEF TypeOK, Buffer, Count
<1>5. LiveObjectsKept' /\ HiddenNone' /\ FrameInv'
  BY <1>1 DEF IInv, LiveObjectsKept, Held, HiddenNone, FrameInv
<1>6. BufferInv'
  BY <1>1, <1>2, <1>3 DEF IInv, BufferInv, Count
<1>7. MainRegs'
  <2>1. \A r, k : Untouched(r, k)' <=> Untouched(r, k)
    BY <1>1 DEF Untouched
  <2> QED
    BY <1>1, <1>2, <1>3, <2>1 DEF IInv, MainRegs
<1> QED
  BY <1>4, <1>5, <1>6, <1>7 DEF IInv

(* Back to h words of stack, d frames and c buffers. *)
Cut(h, d, c) ==
  /\ stack' = SubSeq(stack, 1, h)
  /\ frames' = SubSeq(frames, 1, d)
  /\ nlr' = SubSeq(nlr, 1, c)

(* What is above the place the stack is cut at stays as it was. *)
LEMMA CutKeeps ==
  ASSUME IInv, NEW h \in 0..Len(stack), NEW d \in 0..Len(frames),
         NEW c \in 0..Len(nlr), Cut(h, d, c), UNCHANGED <<branch, alloc>>,
         reg' \in [Regs(branch) -> Held],
         \A k \in 1..d : /\ frames[k].base < h
                        /\ \A r \in Regs(branch) : frames[k].saved[r] <= h,
         \A m \in 1..c : nlr[m].depth <= d /\ nlr[m].at + Count <= h,
         \A r \in Regs(branch) : Untouched(r, d) => reg'[r] = None
  PROVE  IInv'
<1>1. /\ TypeOK /\ stack \in Seq(Words) /\ frames \in Seq(Frame)
      /\ nlr \in Seq(Buffer) /\ reg \in [Regs(branch) -> Words]
  BY DEF IInv, TypeOK, Frame, Buffer
<1>2. /\ stack' \in Seq(Words) /\ Len(stack') = h /\ DOMAIN stack' = 1..h
      /\ \A i \in 1..h : stack'[i] = stack[i] /\ i \in 1..Len(stack)
  BY <1>1, CutProperties, Shape DEF Cut
<1>3. /\ frames' \in Seq(Frame) /\ Len(frames') = d /\ DOMAIN frames' = 1..d
      /\ \A k \in 1..d : frames'[k] = frames[k] /\ k \in 1..Len(frames)
  BY <1>1, CutProperties, Shape DEF Cut
<1>4. /\ nlr' \in Seq(Buffer) /\ DOMAIN nlr' = 1..c
      /\ \A m \in 1..c : nlr'[m] = nlr[m] /\ m \in 1..Len(nlr)
  BY <1>1, CutProperties, Shape DEF Cut
<1>5. Count' = Count /\ Regs(branch)' = Regs(branch)
  BY DEF Count
<1>6. Held' \subseteq Held /\ Held \subseteq Words
  BY <1>1, <1>2, Shape DEF Held
<1>7. TypeOK'
  <2>1. frames' \in Seq([base : Nat, saved : [Regs(branch)' -> Nat]])
    BY <1>3, <1>5 DEF Frame
  <2>2. reg' \in [Regs(branch) -> Words] /\ branch \in Branches /\ alloc \subseteq Objects
    BY <1>1, <1>6 DEF TypeOK
  <2>3. \A m \in 1..c : nlr[m].depth \in 1..d
    BY <1>1, <1>4, BufferShape
  <2> QED
    BY <1>2, <1>3, <1>4, <1>5, <2>1, <2>2, <2>3 DEF TypeOK, Buffer
<1>8. LiveObjectsKept'
  BY <1>6 DEF IInv, LiveObjectsKept
<1>9. HiddenNone'
  BY <1>1, <1>2, Shape DEF IInv, HiddenNone
<1>10. FrameInv'
  BY <1>1, <1>3, <1>5, Shape DEF IInv, FrameInv
<1>11. BufferInv'
  BY <1>1, <1>3, <1>4, <1>5, Shape DEF IInv, BufferInv
<1>12. MainRegs'
  <2>1. ASSUME NEW r, NEW k \in 0..d PROVE Untouched(r, k)' <=> Untouched(r, k)
    BY <1>1, <1>3, Shape DEF Untouched
  <2>2. ASSUME NEW r \in Regs(branch), Untouched(r, Len(frames))'
        PROVE  reg'[r] = None
    <3>1. Untouched(r, d)
      BY <1>1, <1>3, <2>2, Shape DEF Untouched
    <3> QED
      BY <3>1
  <2>3. ASSUME NEW k \in 1..d, NEW r \in Saved(frames'[k]), Untouched(r, k - 1)'
        PROVE  stack'[frames'[k].saved[r]] = None
    <3>1. k \in 1..Len(frames) /\ frames'[k] = frames[k] /\ r \in Saved(frames[k])
      BY <1>3, <2>3
    <3>2. r \in Regs(branch) /\ frames[k].saved[r] \in Nat \ {0}
      BY <1>1, <3>1, FrameShape DEF Saved
    <3>3. frames[k].saved[r] \in 1..h
      BY <3>2
    <3>4. k - 1 \in 0..d
      OBVIOUS
    <3>5. stack[frames[k].saved[r]] = None
      BY <1>1, <2>1, <2>3, <3>1, <3>4, Shape DEF IInv, MainRegs
    <3> QED
      BY <1>2, <3>1, <3>3, <3>5
  <2>4. ASSUME NEW m \in 1..c, NEW i \in DOMAIN Preserved[branch],
               Untouched(Preserved[branch][i], nlr[m].depth)
        PROVE  stack'[nlr[m].at + i] = None
    <3>1. i \in 1..Count /\ m \in 1..Len(nlr)
      BY <1>1, <1>4, PreservedRegs DEF TypeOK
    <3>2. nlr[m].at + i \in 1..h
      BY <1>1, <3>1, Shape, BufferShape
    <3>3. stack[nlr[m].at + i] = None
      BY <1>1, <2>4, <3>1, Shape DEF IInv, MainRegs
    <3> QED
      BY <1>2, <3>2, <3>3
  <2>5. \A r \in Regs(branch)' : Untouched(r, Len(frames))' => reg'[r] = None
    BY <1>5, <2>2
  <2>6. \A k \in DOMAIN frames' : \A r \in Saved(frames'[k]) :
          Untouched(r, k - 1)' => stack'[frames'[k].saved[r]] = None
    BY <1>3, <2>3
  <2>7. \A m \in DOMAIN nlr' : \A i \in DOMAIN Preserved[branch]' :
          Untouched(Preserved[branch][i], nlr[m].depth)' =>
            stack'[nlr'[m].at + i] = None
    <3> SUFFICES ASSUME NEW m \in 1..c, NEW i \in DOMAIN Preserved[branch],
                        Untouched(Preserved[branch][i], nlr[m].depth)'
                 PROVE  stack'[nlr[m].at + i] = None
      BY <1>4
    <3>1. PICK k \in 0..d : k = nlr[m].depth
      BY <1>1, <1>4, BufferShape
    <3>2. Untouched(Preserved[branch][i], k)'
      BY <1>4, <3>1
    <3>3. Untouched(Preserved[branch][i], k)
      BY <2>1, <3>2
    <3> QED
      BY <2>4, <3>1, <3>3
  <2> QED
    BY <2>5, <2>6, <2>7 DEF MainRegs
<1> QED
  BY <1>7, <1>8, <1>9, <1>10, <1>11, <1>12 DEF IInv

LEMMA ReturnKeeps == IInv /\ Return => IInv'
<1> SUFFICES ASSUME IInv, Return PROVE IInv'
  OBVIOUS
<1> DEFINE n == Len(frames)
           h == Top.base
<1>1. /\ stack' = SubSeq(stack, 1, h) /\ frames' = SubSeq(frames, 1, n - 1)
      /\ UNCHANGED <<branch, nlr, alloc>> /\ frames # <<>>
      /\ reg' = [r \in DOMAIN reg |->
                   IF r \in Saved(Top) THEN stack[Top.saved[r]] ELSE reg[r]]
      /\ nlr # <<>> => nlr[Len(nlr)].depth < n
  BY DEF Return
<1>2. TypeOK /\ DOMAIN reg = Regs(branch)
  BY DEF IInv, TypeOK
<1>3. /\ n \in 1..n /\ n \in Nat \ {0} /\ Top = frames[n]
      /\ h \in 0..Len(stack) /\ n - 1 \in 0..n
  BY <1>1, <1>2, TopFacts, Shape
<1>4. nlr' = SubSeq(nlr, 1, Len(nlr))
  <2>1. nlr \in Seq(Buffer)
    BY <1>2 DEF TypeOK, Buffer
  <2>2. SubSeq(nlr, 1, Len(nlr)) = nlr
    BY <2>1
  <2> QED
    BY <1>1, <2>2
<1>5. reg' \in [Regs(branch) -> Held]
  <2>1. ASSUME NEW r \in Saved(Top) PROVE stack[Top.saved[r]] \in Held
    <3>1. Top.saved[r] \in 1..Len(stack)
      BY <1>1, <1>2, TopFacts DEF Saved
    <3> QED
      BY <1>2, <3>1, Shape DEF Held
  <2>2. \A r \in Regs(branch) : reg[r] \in Held
    BY <1>2 DEF Held
  <2> QED
    BY <1>1, <1>2, <2>1, <2>2
<1>6. \A k \in 1..(n - 1) :
        /\ frames[k].base < h
        /\ \A r \in Regs(branch) : frames[k].saved[r] <= h
  BY <1>2, <1>3, Shape DEF IInv, FrameInv
<1>7. ASSUME NEW m \in 1..Len(nlr)
      PROVE  nlr[m].depth <= n - 1 /\ nlr[m].at + Count <= h
  <2>1. nlr # <<>> /\ Len(nlr) \in 1..Len(nlr) /\ Len(nlr) \in Nat
    BY <1>2, Shape
  <2>2. nlr[m].depth < n
    <3>1. CASE m = Len(nlr)
      BY <1>1, <2>1, <3>1
    <3>2. CASE m < Len(nlr)
      <4>1. nlr[m].depth <= nlr[Len(nlr)].depth
        BY <1>2, <2>1, <3>2, Shape DEF IInv, BufferInv
      <4> QED
        BY <1>1, <1>2, <1>3, <2>1, <4>1, BufferShape
    <3> QED
      BY <2>1, <3>1, <3>2
  <2>3. nlr[m].at + Count <= h
    BY <1>2, <1>3, <2>2, Shape DEF IInv, BufferInv
  <2> QED
    BY <1>2, <1>3, <2>2, <2>3, BufferShape
<1>8. ASSUME NEW r \in Regs(branch), Untouched(r, n - 1) PROVE reg'[r] = None
  <2>1. CASE r \in Saved(Top)
    BY <1>1, <1>2, <1>3, <1>8, <2>1, Shape DEF IInv, MainRegs
  <2>2. CASE r \notin Saved(Top)
    <3>1. Untouched(r, n)
      BY <1>2, <1>3, <1>8, <2>2, Shape DEF Untouched
    <3> QED
      BY <1>1, <1>2, <2>2, <3>1 DEF IInv, MainRegs
  <2> QED
    BY <2>1, <2>2
<1>9. Len(nlr) \in 0..Len(nlr)
  BY <1>2, Shape
<1> HIDE DEF h
<1> QED
  BY <1>1, <1>3, <1>4, <1>5, <1>6, <1>7, <1>8, <1>9, CutKeeps
     DEF Cut

LEMMA NlrJumpKeeps == IInv /\ NlrJump => IInv'
<1> SUFFICES ASSUME IInv, NlrJump PROVE IInv'
  OBVIOUS
<1> DEFINE b == Len(nlr)
           d == nlr[b].depth
           a == nlr[b].at
           h == a + Count
<1>1. /\ stack' = SubSeq(stack, 1, h) /\ frames' = SubSeq(frames, 1, d)
      /\ nlr' = SubSeq(nlr, 1, b - 1)
      /\ UNCHANGED <<branch, alloc>> /\ nlr # <<>>
      /\ reg' = [r \in DOMAIN reg |-> stack[a + Slot(r)]]
  BY DEF NlrJump
<1>2. TypeOK /\ DOMAIN reg = Regs(branch) /\ branch \in Branches
  BY DEF IInv, TypeOK
<1>3. b \in 1..b /\ b \in Nat \ {0} /\ b - 1 \in 0..b
  BY <1>1, <1>2, Shape
<1>4. /\ a \in Nat /\ d \in 0..Len(frames) /\ h \in 0..Len(stack)
      /\ Count \in Nat \ {0}
  BY <1>2, <1>3, BufferShape, Shape
<1>5. reg' \in [Regs(branch) -> Held]
  <2>1. ASSUME NEW r \in Regs(branch) PROVE stack[a + Slot(r)] \in Held
    <3>1. Slot(r) \in 1..Count
      BY <1>2, PreservedRegs
    <3>2. a + Slot(r) \in 1..Len(stack)
      BY <1>2, <1>4, <3>1, Shape
    <3> QED
      BY <1>2, <3>2, Shape DEF Held
  <2> QED
    BY <1>1, <1>2, <2>1
<1>6. ASSUME NEW k \in 1..d
      PROVE  /\ frames[k].base < h
             /\ \A r \in Regs(branch) : frames[k].saved[r] <= h
  <2>1. k \in 1..Len(frames) /\ k <= d
    BY <1>2, <1>4, Shape
  <2>2. /\ frames[k].base < a
        /\ \A r \in Regs(branch) : frames[k].saved[r] <= a
    BY <1>2, <1>3, <2>1, Shape DEF IInv, BufferInv
  <2> QED
    BY <1>2, <1>4, <2>1, <2>2, FrameShape
<1>7. ASSUME NEW m \in 1..(b - 1)
      PROVE  nlr[m].depth <= d /\ nlr[m].at + Count <= h
  <2>1. m \in 1..b /\ m < b
    BY <1>3
  <2>2. nlr[m].depth <= d /\ nlr[m].at + Count <= a
    BY <1>2, <1>3, <2>1, Shape DEF IInv, BufferInv
  <2> QED
    BY <1>2, <1>4, <2>1, <2>2, BufferShape
<1>8. ASSUME NEW r \in Regs(branch), Untouched(r, d) PROVE reg'[r] = None
  <2>1. Slot(r) \in DOMAIN Preserved[branch] /\ Preserved[branch][Slot(r)] = r
    BY <1>2, PreservedRegs
  <2>2. stack[a + Slot(r)] = None
    BY <1>2, <1>3, <1>8, <2>1, Shape DEF IInv, MainRegs
  <2> QED
    BY <1>1, <1>2, <2>2
<1> HIDE DEF b, d, a, h
<1> QED
  BY <1>1, <1>3, <1>4, <1>5, <1>6, <1>7, <1>8, CutKeeps DEF b, Cut

(* A register is saved: only a function main calls does it where nothing   *)
(* is looked for, and then the register still is as main left it.          *)
LEMMA SaveKeeps == IInv /\ Save => IInv'
<1> SUFFICES ASSUME IInv, Save PROVE IInv'
  OBVIOUS
<1> DEFINE n == Len(frames)
           s == Len(stack)
<1>1. PICK q \in Regs(branch) \ Saved(Top) :
        /\ stack' = Append(stack, reg[q])
        /\ frames' = [frames EXCEPT ![n].saved[q] = s + 1]
  BY DEF Save
<1>2. UNCHANGED <<branch, reg, nlr, alloc>> /\ frames # <<>> /\ InPrologue
  BY DEF Save
<1>3. /\ TypeOK /\ stack \in Seq(Words) /\ frames \in Seq(Frame)
      /\ reg \in [Regs(branch) -> Words]
  BY DEF IInv, TypeOK, Frame
<1>4. n \in 1..n /\ n \in Nat \ {0} /\ Top = frames[n] /\ s \in Nat
  BY <1>2, <1>3, TopFacts, Shape
<1>5. /\ stack' \in Seq(Words) /\ Len(stack') = s + 1
      /\ DOMAIN stack' = 1..(s + 1)
      /\ \A i \in 1..s : stack'[i] = stack[i]
      /\ stack'[s + 1] = reg[q]
  BY <1>1, <1>3, Shape
<1>6. /\ frames' \in Seq(Frame) /\ Len(frames') = n /\ DOMAIN frames' = 1..n
      /\ \A k \in 1..n : k # n => frames'[k] = frames[k]
      /\ frames'[n].base = frames[n].base
      /\ \A r \in Regs(branch) :
           frames'[n].saved[r] = IF r = q THEN s + 1 ELSE frames[n].saved[r]
  <2>1. frames[n] \in Frame
    BY <1>3, <1>4
  <2>2. [frames[n] EXCEPT !.saved[q] = s + 1] \in Frame
    BY <1>4, <2>1 DEF Frame
  <2>3. frames' = [frames EXCEPT ![n] = [frames[n] EXCEPT !.saved[q] = s + 1]]
    BY <1>1
  <2> DEFINE g == [frames[n] EXCEPT !.saved[q] = s + 1]
  <2> HIDE DEF g
  <2>4. /\ frames' \in Seq(Frame) /\ Len(frames') = n /\ DOMAIN frames' = 1..n
        /\ \A k \in 1..n : k # n => frames'[k] = frames[k]
        /\ frames'[n] = g
    <3>1. g \in Frame /\ frames' = [frames EXCEPT ![n] = g]
      BY <2>2, <2>3 DEF g
    <3> QED
      BY <1>3, <1>4, <3>1, ReplaceProperties
  <2> QED
    BY <2>1, <2>4 DEF Frame, g
<1>7. /\ q \in Saved(frames'[n]) /\ q \notin Saved(frames[n])
      /\ \A k \in 1..n : \A r \in Saved(frames'[k]) :
           ~(k = n /\ r = q) =>
             r \in Saved(frames[k]) /\ frames'[k].saved[r] = frames[k].saved[r]
      /\ \A k \in 1..n : Saved(frames[k]) \subseteq Saved(frames'[k])
  <2>1. /\ DOMAIN frames'[n].saved = Regs(branch)
        /\ DOMAIN frames[n].saved = Regs(branch)
    <3>1. frames'[n] \in Frame
      <4>1. frames' \in Seq(Frame) /\ n \in 1..Len(frames')
        BY <1>4, <1>6
      <4> QED
        BY <4>1
    <3>2. frames[n] \in Frame
      BY <1>3, <1>4
    <3> QED
      BY <3>1, <3>2 DEF Frame
  <2> QED
    BY <1>1, <1>4, <1>6, <2>1 DEF Saved
<1>8. Count' = Count /\ Regs(branch)' = Regs(branch) /\ Count \in Nat \ {0}
  BY <1>2, <1>3, Shape DEF Count
<1>9. frames[n].base \in Nat /\ frames[n].base < s
  BY <1>3, <1>4, FrameShape
<1>10. TypeOK'
  <2>1. frames' \in Seq([base : Nat, saved : [Regs(branch)' -> Nat]])
    BY <1>6, <1>8 DEF Frame
  <2>2. ASSUME NEW k \in 1..n
        PROVE  /\ frames'[k].base < s + 1
               /\ \A r \in Regs(branch) : frames'[k].saved[r] <= s + 1
    <3>1. /\ frames[k].base \in Nat /\ frames[k].base < s
          /\ \A r \in Regs(branch) :
               frames[k].saved[r] \in Nat /\ frames[k].saved[r] <= s
      BY <1>3, FrameShape
    <3>2. /\ frames'[k].base = frames[k].base
          /\ \A r \in Regs(branch) :
               frames'[k].saved[r] \in {frames[k].saved[r], s + 1}
      BY <1>6
    <3> QED
      BY <1>4, <3>1, <3>2
  <2>3. \A m \in 1..Len(nlr) : nlr[m].depth \in 1..n /\ nlr[m].at + Count <= s + 1
    BY <1>3, <1>4, <1>8, BufferShape
  <2>4. DOMAIN nlr = 1..Len(nlr)
    BY <1>3, Shape
  <2>5. /\ branch \in Branches /\ reg \in [Regs(branch) -> Words]
        /\ nlr \in Seq([depth : Nat, at : Nat]) /\ alloc \subseteq Objects
    BY <1>3 DEF TypeOK
  <2> QED
    <3>1. \A k \in DOMAIN frames' :
            /\ frames'[k].base < Len(stack')
            /\ \A r \in Regs(branch)' : frames'[k].saved[r] <= Len(stack')
      BY <1>5, <1>6, <1>8, <2>2
    <3>2. \A m \in DOMAIN nlr' :
            nlr'[m].depth \in DOMAIN frames' /\ nlr'[m].at + Count' <= Len(stack')
      BY <1>2, <1>5, <1>6, <1>8, <2>3, <2>4
    <3> QED
      BY <1>2, <1>5, <1>8, <2>1, <2>5, <3>1, <3>2 DEF TypeOK
<1>11. LiveObjectsKept'
  <2>1. reg[q] \in Held /\ \A i \in 1..s : stack[i] \in Held
    BY <1>3, Shape DEF Held
  <2>2. Held' \subseteq Held
    BY <1>2, <1>4, <1>5, <2>1 DEF Held
  <2> QED
    BY <1>2, <2>2 DEF IInv, LiveObjectsKept
<1>12. HiddenNone'
  <2>1. ASSUME WordSize * s < TopByte PROVE reg[q] = None
    <3>1. s < 3
      <4>1. ASSUME s >= 3 PROVE FALSE
        <5>1. WordSize * s >= WordSize * 3
          BY <1>4, <4>1, SizesAssumption
        <5> QED
          BY <1>4, <2>1, <5>1, SizesAssumption, TopAssumption
      <4> QED
        BY <1>4, <4>1
    <3>2. ASSUME NEW j \in 1..n, q \in Saved(frames[j]) PROVE FALSE
      <4>1. j < n
        BY <1>4, <1>7, <3>2
      <4>2. /\ frames[j].base >= j - 1
            /\ frames[j].saved[q] > frames[j].base + 1
            /\ frames[j].saved[q] <= frames[n].base
        BY <1>3, <1>4, <3>2, <4>1, Shape DEF IInv, FrameInv
      <4>3. frames[j].base \in Nat /\ frames[j].saved[q] \in Nat
        BY <1>3, FrameShape
      <4> QED
        BY <1>4, <1>9, <3>1, <4>2, <4>3
    <3>3. Untouched(q, n)
      BY <1>3, <3>2, Shape DEF Untouched
    <3> QED
      BY <3>3 DEF IInv, MainRegs
  <2>2. ASSUME NEW i \in 1..(s + 1), WordSize * (i - 1) < TopByte
        PROVE  stack'[i] = None
    <3>1. CASE i = s + 1
      BY <1>4, <1>5, <2>1, <2>2, <3>1
    <3>2. CASE i \in 1..s
      BY <1>3, <1>5, <2>2, <3>2, Shape DEF IInv, HiddenNone
    <3> QED
      BY <1>4, <3>1, <3>2
  <2> QED
    BY <1>5, <2>2 DEF HiddenNone
<1>13. FrameInv'
  <2>1. ASSUME NEW k \in 1..n
        PROVE  /\ frames'[k].base = frames[k].base
               /\ frames[k].base >= k - 1
               /\ \A r \in Saved(frames'[k]) :
                    frames'[k].saved[r] > frames'[k].base + 1
    <3>1. frames'[k].base = frames[k].base
      BY <1>6
    <3>2. /\ frames[k].base >= k - 1
          /\ \A r \in Saved(frames[k]) : frames[k].saved[r] > frames[k].base + 1
      BY <1>3, Shape DEF IInv, FrameInv
    <3>3. frames'[n].saved[q] > frames[n].base + 1
      BY <1>1, <1>4, <1>6, <1>9
    <3> QED
      BY <1>7, <3>1, <3>2, <3>3
  <2>2. ASSUME NEW j \in 1..n, NEW k \in 1..n, j < k
        PROVE  /\ frames[j].base < frames[k].base /\ frames'[j] = frames[j]
               /\ \A r \in Regs(branch) : frames[j].saved[r] <= frames[k].base
    <3>1. j # n
      BY <1>4, <2>2
    <3> QED
      BY <1>3, <1>6, <2>2, <3>1, Shape DEF IInv, FrameInv
  <2> QED
    BY <1>6, <1>8, <2>1, <2>2 DEF FrameInv
<1>14. BufferInv'
  (* The innermost function has no buffer yet. *)
  <2>1. ASSUME NEW m \in 1..Len(nlr) PROVE nlr[m].depth < n
    <3>1. CASE nlr[m].depth = n
      <4>1. /\ frames[n].base < nlr[m].at
            /\ \A r \in Regs(branch) : frames[n].saved[r] <= nlr[m].at
        BY <1>3, <1>4, <3>1, Shape DEF IInv, BufferInv
      <4>2. nlr[m].at \in Nat /\ nlr[m].at + Count <= s
        BY <1>3, BufferShape
      <4>3. \A r \in Saved(Top) : r \in Regs(branch) /\ frames[n].saved[r] \in Nat
        BY <1>2, <1>3, <1>4, TopFacts
      <4> QED
        BY <1>2, <1>4, <1>8, <1>9, <4>1, <4>2, <4>3 DEF InPrologue
    <3> QED
      BY <1>3, <1>4, <3>1, BufferShape
  <2>2. ASSUME NEW m \in 1..Len(nlr), NEW k \in 1..n
        PROVE  /\ k <= nlr[m].depth =>
                    /\ frames'[k].base < nlr[m].at
                    /\ \A r \in Regs(branch) : frames'[k].saved[r] <= nlr[m].at
               /\ k > nlr[m].depth => nlr[m].at + Count <= frames'[k].base
    <3>1. /\ k <= nlr[m].depth =>
               /\ frames[k].base < nlr[m].at
               /\ \A r \in Regs(branch) : frames[k].saved[r] <= nlr[m].at
          /\ k > nlr[m].depth => nlr[m].at + Count <= frames[k].base
      BY <1>3, Shape DEF IInv, BufferInv
    <3>2. frames'[k].base = frames[k].base
      BY <1>6
    <3>3. k <= nlr[m].depth => k # n
      BY <1>3, <1>4, <2>1, BufferShape
    <3> QED
      BY <1>6, <3>1, <3>2, <3>3
  <2>3. \A l, m \in DOMAIN nlr : l < m =>
          nlr[l].depth <= nlr[m].depth /\ nlr[l].at + Count <= nlr[m].at
    BY DEF IInv, BufferInv
  <2>4. DOMAIN nlr = 1..Len(nlr)
    BY <1>3, Shape
  <2> QED
    BY <1>2, <1>6, <1>8, <2>2, <2>3, <2>4 DEF BufferInv
<1>15. MainRegs'
  <2>1. ASSUME NEW r, NEW k \in Nat, Untouched(r, k)'
        PROVE  Untouched(r, k)
    BY <1>3, <1>6, <1>7, <2>1, Shape DEF Untouched
  <2>2. ASSUME NEW r \in Regs(branch), Untouched(r, Len(frames))'
        PROVE  reg[r] = None
    <3>1. Untouched(r, n)
      BY <1>3, <1>6, <1>7, <2>2, Shape DEF Untouched
    <3> QED
      BY <3>1 DEF IInv, MainRegs
  <2>3. ASSUME NEW k \in 1..n, NEW r \in Saved(frames'[k]), Untouched(r, k - 1)'
        PROVE  stack'[frames'[k].saved[r]] = None
    <3>0. Untouched(r, k - 1) /\ k - 1 \in Nat
      BY <1>4, <2>1, <2>3
    <3>1. CASE k = n /\ r = q
      <4>1. Untouched(q, n)
        BY <1>3, <1>4, <1>7, <3>0, <3>1, Shape DEF Untouched
      <4>2. reg[q] = None
        BY <4>1 DEF IInv, MainRegs
      <4> QED
        BY <1>1, <1>5, <1>6, <3>1, <4>2
    <3>2. CASE ~(k = n /\ r = q)
      <4>1. r \in Saved(frames[k]) /\ frames'[k].saved[r] = frames[k].saved[r]
        BY <1>7, <3>2
      <4>2. frames[k].saved[r] \in 1..s
        BY <1>3, <4>1, FrameShape DEF Saved
      <4>3. stack[frames[k].saved[r]] = None
        BY <1>3, <3>0, <4>1, Shape DEF IInv, MainRegs
      <4> QED
        BY <1>5, <4>1, <4>2, <4>3
    <3> QED
      BY <3>1, <3>2
  <2>4. ASSUME NEW m \in 1..Len(nlr), NEW i \in DOMAIN Preserved[branch],
               Untouched(Preserved[branch][i], nlr[m].depth)'
        PROVE  stack'[nlr[m].at + i] = None
    <3>0. i \in 1..Count
      BY <1>3, PreservedRegs DEF TypeOK
    <3>1. nlr[m].at + i \in 1..s /\ nlr[m].depth \in Nat
      BY <1>3, <3>0, Shape, BufferShape
    <3>2. Untouched(Preserved[branch][i], nlr[m].depth)
      BY <1>2, <2>1, <2>4, <3>1
    <3>3. stack[nlr[m].at + i] = None
      BY <1>3, <3>2, Shape DEF IInv, MainRegs
    <3> QED
      BY <1>5, <3>1, <3>3
  <2>5. \A r \in Regs(branch)' : Untouched(r, Len(frames))' => reg'[r] = None
    BY <1>2, <1>8, <2>2
  <2>6. \A k \in DOMAIN frames' : \A r \in Saved(frames'[k]) :
          Untouched(r, k - 1)' => stack'[frames'[k].saved[r]] = None
    BY <1>6, <2>3
  <2>7. \A m \in DOMAIN nlr' : \A i \in DOMAIN Preserved[branch]' :
          Untouched(Preserved[branch][i], nlr[m].depth)' =>
            stack'[nlr'[m].at + i] = None
    BY <1>2, <1>3, <2>4, Shape
  <2> QED
    BY <2>5, <2>6, <2>7 DEF MainRegs
<1> QED
  BY <1>10, <1>11, <1>12, <1>13, <1>14, <1>15 DEF IInv

LEMMA NlrPushKeeps == IInv /\ NlrPush => IInv'
<1> SUFFICES ASSUME IInv, NlrPush PROVE IInv'
  OBVIOUS
<1> DEFINE n == Len(frames)
           s == Len(stack)
           b == Len(nlr)
           new == [depth |-> n, at |-> s]
<1>1. stack' = stack \o BufferWords /\ nlr' = Append(nlr, new)
  BY DEF NlrPush
<1>2. /\ UNCHANGED <<branch, reg, frames, alloc>> /\ frames # <<>>
      /\ WordSize * s >= TopByte
  BY DEF NlrPush
<1>3. /\ TypeOK /\ stack \in Seq(Words) /\ nlr \in Seq(Buffer)
      /\ branch \in Branches /\ reg \in [Regs(branch) -> Words]
  BY DEF IInv, TypeOK, Buffer
<1>4. /\ n \in 1..n /\ n \in Nat \ {0} /\ s \in Nat /\ b \in Nat
      /\ Count \in Nat \ {0} /\ DOMAIN nlr = 1..b /\ DOMAIN frames = 1..n
      /\ new \in Buffer /\ new.depth = n /\ new.at = s
  BY <1>2, <1>3, TopFacts, Shape DEF Buffer
<1> HIDE DEF new
<1>5. /\ stack' \in Seq(Words) /\ Len(stack') = s + Count
      /\ DOMAIN stack' = 1..(s + Count)
      /\ \A i \in 1..s : stack'[i] = stack[i]
      /\ \A i \in 1..Count : stack'[s + i] = reg[Preserved[branch][i]]
  <2>1. /\ BufferWords \in Seq(Words) /\ Len(BufferWords) = Count
        /\ \A i \in 1..Count : BufferWords[i] = reg[Preserved[branch][i]]
    BY <1>3, BufferFacts
  <2>2. /\ stack' \in Seq(Words) /\ Len(stack') = s + Count
        /\ DOMAIN stack' = 1..(s + Count)
        /\ \A i \in 1..s : stack'[i] = stack[i]
        /\ \A i \in 1..Count : stack'[s + i] = BufferWords[i]
    <3>1. stack' \in Seq(Words) /\ Len(stack') = s + Len(BufferWords)
      BY <1>1, <1>3, <2>1, JoinProperties
    <3>2. DOMAIN stack' = 1..(s + Len(BufferWords))
      BY <1>1, <1>3, <2>1, JoinProperties
    <3>3. \A i \in 1..s : stack'[i] = stack[i]
      BY <1>1, <1>3, <2>1, JoinProperties
    <3>4. \A i \in 1..Len(BufferWords) : stack'[s + i] = BufferWords[i]
      BY <1>1, <1>3, <2>1, JoinProperties
    <3> QED
      BY <2>1, <3>1, <3>2, <3>3, <3>4
  <2> QED
    BY <2>1, <2>2
<1>6. /\ nlr' \in Seq(Buffer) /\ DOMAIN nlr' = 1..(b + 1)
      /\ \A m \in 1..b : nlr'[m] = nlr[m]
      /\ nlr'[b + 1] = new
  BY <1>1, <1>3, <1>4
<1>7. Count' = Count /\ Regs(branch)' = Regs(branch)
  BY <1>2 DEF Count
<1>8. TypeOK'
  <2>1. \A k \in 1..n : /\ frames[k].base < s + Count
                        /\ \A r \in Regs(branch) : frames[k].saved[r] <= s + Count
    BY <1>3, <1>4, FrameShape
  <2>2. ASSUME NEW m \in 1..(b + 1)
        PROVE  nlr'[m].depth \in 1..n /\ nlr'[m].at + Count <= s + Count
    <3>1. CASE m \in 1..b
      BY <1>3, <1>4, <1>6, <3>1, BufferShape
    <3>2. CASE m = b + 1
      BY <1>4, <1>6, <3>2
    <3> QED
      BY <1>4, <3>1, <3>2
  <2>3. /\ alloc \subseteq Objects
        /\ frames \in Seq([base : Nat, saved : [Regs(branch) -> Nat]])
    BY <1>3 DEF TypeOK
  <2> QED
    BY <1>2, <1>3, <1>4, <1>5, <1>6, <1>7, <2>1, <2>2, <2>3 DEF TypeOK, Buffer
<1>9. LiveObjectsKept'
  <2>1. \A i \in 1..Count : reg[Preserved[branch][i]] \in Held
    BY <1>3, PreservedRegs DEF Held
  <2>2. \A i \in 1..s : stack[i] \in Held
    BY <1>3, Shape DEF Held
  <2>3. ASSUME NEW i \in 1..(s + Count) PROVE stack'[i] \in Held
    <3>1. CASE i \in 1..s
      BY <1>5, <2>2, <3>1
    <3>2. CASE i \notin 1..s
      <4>1. i - s \in 1..Count /\ i = s + (i - s)
        BY <1>4, <3>2
      <4> QED
        BY <1>5, <2>1, <4>1
    <3> QED
      BY <3>1, <3>2
  <2>4. Held' \subseteq Held
    BY <1>2, <1>5, <2>3 DEF Held
  <2> QED
    BY <1>2, <2>4 DEF IInv, LiveObjectsKept
<1>10. HiddenNone'
  <2>1. ASSUME NEW i \in 1..(s + Count), WordSize * (i - 1) < TopByte
        PROVE  i \in 1..s
    <3>1. CASE i - 1 >= s
      <4>1. WordSize * (i - 1) >= WordSize * s
        BY <1>4, <3>1, SizesAssumption
      <4> QED
        BY <1>2, <1>4, <2>1, <4>1, SizesAssumption, TopAssumption
    <3> QED
      BY <1>4, <3>1
  <2> QED
    BY <1>3, <1>4, <1>5, <2>1, Shape DEF IInv, HiddenNone
<1>11. FrameInv'
  BY <1>2, <1>7 DEF IInv, FrameInv
<1>12. BufferInv'
  <2>1. ASSUME NEW m \in 1..(b + 1), NEW k \in 1..n
        PROVE  /\ k <= nlr'[m].depth =>
                    /\ frames[k].base < nlr'[m].at
                    /\ \A r \in Regs(branch) : frames[k].saved[r] <= nlr'[m].at
               /\ k > nlr'[m].depth => nlr'[m].at + Count <= frames[k].base
    <3>1. CASE m \in 1..b
      BY <1>3, <1>4, <1>6, <3>1 DEF IInv, BufferInv
    <3>2. CASE m = b + 1
      BY <1>3, <1>4, <1>6, <3>2, FrameShape
    <3> QED
      BY <1>4, <3>1, <3>2
  <2>2. ASSUME NEW l \in 1..(b + 1), NEW m \in 1..(b + 1), l < m
        PROVE  nlr'[l].depth <= nlr'[m].depth /\ nlr'[l].at + Count <= nlr'[m].at
    <3>1. l \in 1..b
      BY <1>4, <2>2
    <3>2. CASE m \in 1..b
      BY <1>3, <1>4, <1>6, <2>2, <3>1, <3>2 DEF IInv, BufferInv
    <3>3. CASE m = b + 1
      BY <1>3, <1>4, <1>6, <3>1, <3>3, BufferShape
    <3> QED
      BY <1>4, <3>2, <3>3
  <2> QED
    BY <1>2, <1>4, <1>6, <1>7, <2>1, <2>2 DEF BufferInv
<1>13. MainRegs'
  <2>1. \A r, k : Untouched(r, k)' <=> Untouched(r, k)
    BY <1>2 DEF Untouched
  <2>2. ASSUME NEW k \in 1..n, NEW r \in Saved(frames[k]), Untouched(r, k - 1)
        PROVE  stack'[frames[k].saved[r]] = None
    <3>1. frames[k].saved[r] \in 1..s
      BY <1>3, FrameShape DEF Saved
    <3>2. stack[frames[k].saved[r]] = None
      BY <1>3, <1>4, <2>2 DEF IInv, MainRegs
    <3> QED
      BY <1>5, <3>1, <3>2
  <2>3. ASSUME NEW m \in 1..(b + 1), NEW i \in DOMAIN Preserved[branch],
               Untouched(Preserved[branch][i], nlr'[m].depth)
        PROVE  stack'[nlr'[m].at + i] = None
    <3>0. i \in 1..Count /\ Preserved[branch][i] \in Regs(branch)
      BY <1>3, PreservedRegs
    <3>1. CASE m \in 1..b
      <4>1. nlr[m].at + i \in 1..s
        BY <1>3, <1>4, <3>0, <3>1, BufferShape
      <4>2. stack[nlr[m].at + i] = None
        BY <1>4, <1>6, <2>3, <3>1 DEF IInv, MainRegs
      <4> QED
        BY <1>5, <1>6, <3>1, <4>1, <4>2
    <3>2. CASE m = b + 1
      <4>1. Untouched(Preserved[branch][i], n)
        BY <1>4, <1>6, <2>3, <3>2
      <4>2. reg[Preserved[branch][i]] = None
        BY <3>0, <4>1 DEF IInv, MainRegs
      <4> QED
        BY <1>4, <1>5, <1>6, <3>0, <3>2, <4>2
    <3> QED
      BY <1>4, <3>1, <3>2
  <2>4. \A r \in Regs(branch)' : Untouched(r, Len(frames))' => reg'[r] = None
    BY <1>2, <1>7, <2>1 DEF IInv, MainRegs
  <2>5. \A k \in DOMAIN frames' : \A r \in Saved(frames'[k]) :
          Untouched(r, k - 1)' => stack'[frames'[k].saved[r]] = None
    BY <1>2, <1>4, <2>1, <2>2
  <2>6. \A m \in DOMAIN nlr' : \A i \in DOMAIN Preserved[branch]' :
          Untouched(Preserved[branch][i], nlr[m].depth)' =>
            stack'[nlr'[m].at + i] = None
    BY <1>2, <1>6, <2>1, <2>3
  <2> QED
    BY <2>4, <2>5, <2>6 DEF MainRegs
<1> QED
  BY <1>8, <1>9, <1>10, <1>11, <1>12, <1>13 DEF IInv

-----------------------------------------------------------------------------
(* The words looked at are those that start at stack_top or below. *)
LEMMA Scanned ==
  ASSUME NEW L \in Nat, NEW i \in 1..L, WordSize * (i - 1) >= TopByte
  PROVE  L - (WordSize * L - TopByte) \div WordSize + 1 <= i
<1> DEFINE x == WordSize * L - TopByte
           q == x \div WordSize
<1>1. WordSize * L - WordSize * (i - 1) = WordSize * (L - i + 1)
  BY SizesAssumption
<1>2. x \in Int /\ WordSize * (L - i + 1) <= x
  BY <1>1, SizesAssumption, TopAssumption
<1>3. q \in Int /\ x < WordSize * (q + 1)
  <2>1. ASSUME NEW y \in Int, NEW w \in Nat \ {0}
        PROVE  y \div w \in Int /\ y < w * (y \div w) + w
    OBVIOUS
  <2>2. q \in Int /\ x < WordSize * q + WordSize
    BY <1>2, <2>1, SizesAssumption
  <2> QED
    BY <1>2, <2>2, SizesAssumption
<1>4. L - i + 1 <= q
  <2>1. ASSUME L - i + 1 >= q + 1 PROVE FALSE
    <3>1. WordSize * (L - i + 1) >= WordSize * (q + 1)
      BY <1>3, <2>1, SizesAssumption
    <3> QED
      BY <1>2, <1>3, <3>1, SizesAssumption
  <2> QED
    BY <1>3, <2>1
<1> QED
  BY <1>3, <1>4

(* Whatever is held by the stack or a register is found.  Hidden words     *)
(* point at nothing; if even a captured register is hidden, no function    *)
(* has saved one.                                                          *)
LEMMA CollectKeeps == IInv /\ Collect => IInv'
<1> SUFFICES ASSUME IInv, Collect PROVE IInv'
  OBVIOUS
<1> DEFINE n == Len(frames)
           s == Len(stack)
           C == Len(Captured[branch])
           L == s + 1 + C
<1>1. /\ alloc' = alloc \cap Roots /\ frames # <<>>
      /\ UNCHANGED <<branch, reg, stack, frames, nlr>>
  BY DEF Collect
<1>2. /\ TypeOK /\ branch \in Branches /\ stack \in Seq(Words)
      /\ reg \in [Regs(branch) -> Words]
  BY DEF IInv, TypeOK
<1>3. /\ n \in Nat \ {0} /\ n \in 1..n /\ s \in Nat /\ s >= 1
      /\ DOMAIN stack = 1..s /\ DOMAIN frames = 1..n
  BY <1>1, <1>2, TopFacts, Shape
<1>4. C \in Nat /\ DOMAIN Captured[branch] = 1..C /\ L \in Nat
  <2>1. PICK r : r \in Regs(branch)
    BY <1>2, PreservedRegs
  <2>2. C \in Nat /\ DOMAIN Captured[branch] = 1..C
    BY <1>2, <2>1, CapturesAll
  <2> HIDE DEF C, s
  <2>3. L \in Nat
    BY <1>3, <2>2
  <2> QED
    BY <2>2, <2>3
<1>5. /\ Len(RegsAndStack) = L
      /\ \A i \in 1..s : RegsAndStack[i] = stack[i]
      /\ \A i \in 1..C :
           RegsAndStack[s + 1 + i] = Value(Captured[branch][C + 1 - i])
  <2> DEFINE high == Append(stack, None)
             low == [i \in 1..C |-> Value(Captured[branch][C + 1 - i])]
  <2>1. RegsAndStack = high \o low
    BY <1>4 DEF RegsAndStack
  <2>2. low \in Seq(Words) /\ Len(low) = C
    <3>1. \A r : Value(r) \in Words
      BY <1>2 DEF Value, Words
    <3> QED
      BY <1>4, <3>1
  <2>3. \A i \in 1..C : low[i] = Value(Captured[branch][C + 1 - i])
    OBVIOUS
  <2>4. /\ high \in Seq(Words) /\ Len(high) = s + 1
        /\ \A i \in 1..s : high[i] = stack[i]
    BY <1>2, <1>3 DEF Words
  <2> HIDE DEF low, high
  <2>5. /\ Len(high \o low) = s + 1 + C
        /\ \A i \in 1..s : (high \o low)[i] = stack[i]
        /\ \A i \in 1..C : (high \o low)[s + 1 + i] = low[i]
    <3>1. Len(high \o low) = Len(high) + Len(low)
      BY <2>2, <2>4, JoinProperties
    <3>2. \A i \in 1..Len(high) : (high \o low)[i] = high[i]
      BY <2>2, <2>4, JoinProperties
    <3>3. \A i \in 1..Len(low) : (high \o low)[Len(high) + i] = low[i]
      BY <2>2, <2>4, JoinProperties
    <3>4. \A i \in 1..s : i \in 1..Len(high)
      BY <1>3, <2>4
    <3> QED
      BY <2>2, <2>4, <3>1, <3>2, <3>3, <3>4
  <2> QED
    BY <2>1, <2>3, <2>5
<1>5a. L = s + 1 + C
  OBVIOUS
<1> HIDE DEF L, C
<1>6. ASSUME NEW i \in 1..L, WordSize * (i - 1) >= TopByte
      PROVE  RegsAndStack[i] \in Roots
  <2>1. L - RootCount + 1 <= i
    BY <1>4, <1>5, <1>6, Scanned DEF RootCount
  <2>2. RootCount \in Int
    BY <1>4, <1>5, SizesAssumption, TopAssumption DEF RootCount
  <2> QED
    BY <1>4, <1>5, <2>1, <2>2 DEF Roots
<1>7. ASSUME NEW i \in 1..s, stack[i] # None PROVE stack[i] \in Roots
  <2>1. ~(WordSize * (i - 1) < TopByte)
    BY <1>3, <1>7 DEF IInv, HiddenNone
  <2>2. WordSize * (i - 1) >= TopByte /\ i \in 1..L
    <3>1. i \in 1..L
      BY <1>3, <1>4, <1>5a
    <3> QED
      BY <2>1, <3>1, SizesAssumption, TopAssumption
  <2> QED
    BY <1>5, <1>6, <2>2
<1>8. ASSUME NEW r \in Regs(branch), reg[r] # None PROVE reg[r] \in Roots
  <2>1. s >= 2
    <3>1. ~Untouched(r, n)
      BY <1>8 DEF IInv, MainRegs
    <3>2. PICK k \in 1..n : r \in Saved(frames[k])
      BY <1>3, <3>1 DEF Untouched
    <3>3. /\ frames[k].saved[r] > frames[k].base + 1
          /\ frames[k].base \in Nat
          /\ frames[k].saved[r] \in Nat /\ frames[k].saved[r] <= s
      BY <1>2, <1>3, <3>2, FrameShape DEF IInv, FrameInv
    <3> QED
      BY <1>3, <3>3
  <2>2. PICK j \in 1..C : Captured[branch][j] = r
    BY <1>2, CapturesAll DEF C
  <2> DEFINE i == C + 1 - j
  <2>3. i \in 1..C /\ C + 1 - i = j /\ s + 1 + i \in 1..L
    BY <1>3, <1>4, <1>5a
  <2>4. RegsAndStack[s + 1 + i] = reg[r]
    BY <1>5, <2>2, <2>3 DEF Value
  <2>5. WordSize * (s + 1 + i - 1) >= TopByte
    <3>1. s + 1 + i - 1 >= 3 /\ s + 1 + i - 1 \in Nat
      BY <1>3, <2>1, <2>3
    <3>2. WordSize * (s + 1 + i - 1) >= WordSize * 3
      BY <3>1, SizesAssumption
    <3> QED
      BY <3>1, <3>2, SizesAssumption, TopAssumption
  <2> QED
    BY <1>6, <2>3, <2>4, <2>5
<1>9. LiveObjectsKept'
  <2>1. Held \ {None} \subseteq Roots
    BY <1>2, <1>3, <1>7, <1>8 DEF Held
  <2>2. Held \ {None} \subseteq alloc
    BY DEF IInv, LiveObjectsKept
  <2> QED
    BY <1>1, <2>1, <2>2 DEF LiveObjectsKept, Held
<1>10. TypeOK'
  BY <1>1, <1>2 DEF TypeOK, Count
<1>11. HiddenNone' /\ FrameInv' /\ BufferInv'
  BY <1>1 DEF IInv, HiddenNone, FrameInv, BufferInv, Count
<1>12. MainRegs'
  BY <1>1 DEF IInv, MainRegs, Untouched
<1> QED
  BY <1>9, <1>10, <1>11, <1>12 DEF IInv

-----------------------------------------------------------------------------
LEMMA NextKeeps == IInv /\ [Next]_vars => IInv'
<1>1. CASE UNCHANGED vars
  BY <1>1 DEF vars, IInv, TypeOK, LiveObjectsKept, Held, HiddenNone, FrameInv,
              BufferInv, MainRegs, Untouched, Count
<1>2. CASE Next
  BY <1>2, CallKeeps, SaveKeeps, UseRegisterKeeps, UseStackKeeps, ReturnKeeps,
     NlrPushKeeps, NlrPopKeeps, NlrJumpKeeps, CollectKeeps DEF Next, Compiled
<1> QED
  BY <1>1, <1>2

(* What the collector relies on of the stack: frames and buffers lie below *)
(* one another, and what main had in its registers is where it put it.     *)
THEOREM StackInvariant == Spec => []IInv
  BY InitIInv, NextKeeps, PTL DEF Spec

(* The stack, the frames and the buffers stay well formed. *)
THEOREM TypeCorrect == Spec => []TypeOK
<1>1. IInv => TypeOK
  BY DEF IInv
<1> QED
  BY <1>1, StackInvariant, PTL

(* No object a running function keeps is collected (gccollect.c:143-161),  *)
(* for any size of a word, place of stack_top, depth of calls and number   *)
(* of objects, and for every branch of gccollect.c.                        *)
THEOREM NothingLiveFreed == Spec => []LiveObjectsKept
<1>1. IInv => LiveObjectsKept
  BY DEF IInv
<1> QED
  BY <1>1, StackInvariant, PTL
=============================================================================
