----------------------------- MODULE PybProofs ------------------------------
(***************************************************************************)
(* The properties of Pyb, for every width of the machine word and every    *)
(* buffer, number and message.                                             *)
(***************************************************************************)
EXTENDS Pyb, SequenceTheorems, TLAPS

(* What the script takes to be built, the loader has built. *)
BuiltBuffers == \A buf \in built : data[buf] = "built"

IInv ==
  /\ TypeOK /\ BlitInBuffer /\ SentInOrder /\ KeptIsBuilt /\ BuiltBuffers

-----------------------------------------------------------------------------
(* Arithmetic *)

LEMMA Cut ==
  ASSUME NEW x \in Int
  PROVE  UINT32(x) \in 0 .. U32 - 1 /\ (x \in 0 .. U32 - 1 => UINT32(x) = x)
  BY WordAssumption DEF UINT32

LEMMA Division ==
  ASSUME NEW x \in Nat, NEW d \in Nat \ {0}
  PROVE  /\ x \div d \in Nat /\ x \div d <= x
         /\ d * (x \div d) <= x /\ x < d * ((x \div d) + 1)
<1>1. /\ x \div d \in Nat
      /\ d * (x \div d) <= x /\ x < d * (x \div d) + d
  OBVIOUS
<1>2. x \div d <= d * (x \div d)
  BY <1>1
<1>3. d * ((x \div d) + 1) = d * (x \div d) + d
  BY <1>1
<1> QED
  BY <1>1, <1>2, <1>3

(* A width is half of its divisor. *)
LEMMA WidthDivisor ==
  ASSUME NEW col \in Widths
  PROVE  Divisor(col) = 2 * col /\ UINT32(col) = col /\ col \in Nat \ {0}
<1> DEFINE h == U32 \div 2
<1>1. h \in Nat /\ U32 = 2 * h
  BY WordAssumption
<1>2. col \in 1 .. h - 1
  BY <1>1 DEF Widths
<1>3. col * 2 \in 0 .. U32 - 1 /\ col \in 0 .. U32 - 1 /\ col * 2 = 2 * col
  BY <1>1, <1>2
<1> QED
  BY <1>2, <1>3, Cut DEF Divisor

(* The lines fb_blt asks for. *)
LEMMA WholeLines ==
  ASSUME NEW col \in Widths, NEW len \in 0 .. U32 - 1
  PROVE  LET row == UINT32(len \div Divisor(col))
         IN  2 * row * UINT32(col) <= len /\ len < 2 * (row + 1) * UINT32(col)
<1> DEFINE d == 2 * col
           q == len \div d
<1>1. /\ Divisor(col) = d /\ UINT32(col) = col /\ col \in Nat \ {0}
      /\ len \in Nat /\ d \in Nat \ {0}
  BY WidthDivisor, WordAssumption
<1>2. q \in Nat /\ q <= len /\ d * q <= len /\ len < d * (q + 1)
  BY <1>1, Division
<1>3. q \in 0 .. U32 - 1
  BY <1>2, WordAssumption
<1>4. UINT32(q) = q
  BY <1>2, <1>3, Cut
<1>5. 2 * q * col = d * q /\ 2 * (q + 1) * col = d * (q + 1)
  BY <1>1, <1>2
<1> QED
  BY <1>1, <1>2, <1>4, <1>5

LEMMA SentOn ==
  ASSUME NEW n \in 0 .. Len(Message), NEW w \in 0 .. Len(Message) - n
  PROVE  /\ SubSeq(Message, 1, n) \o SubSeq(Message, n + 1, n + w)
              = SubSeq(Message, 1, n + w)
         /\ SubSeq(Message, 1, n + w) \in Seq(Nat)
         /\ n + w \in 0 .. Len(Message)
<1> DEFINE head == SubSeq(Message, 1, n)
           next == SubSeq(Message, n + 1, n + w)
           both == SubSeq(Message, 1, n + w)
<1>1. Message \in Seq(Nat) /\ n + w \in 0 .. Len(Message) /\ n \in Nat /\ w \in Nat
  BY MessageAssumption
<1>2. /\ head \in Seq(Nat) /\ Len(head) = n
      /\ \A i \in 1 .. n : head[i] = Message[i]
  BY <1>1
<1>3. /\ next \in Seq(Nat) /\ Len(next) = w
      /\ \A i \in 1 .. w : next[i] = Message[n + i]
  BY <1>1
<1>4. /\ both \in Seq(Nat) /\ Len(both) = n + w
      /\ \A i \in 1 .. n + w : both[i] = Message[i]
  BY <1>1
<1> HIDE DEF head, next, both
<1> DEFINE sum == head \o next
<1>5. /\ sum \in Seq(Nat) /\ Len(sum) = n + w
      /\ \A i \in 1 .. n + w : sum[i] = IF i <= n THEN head[i] ELSE next[i - n]
  BY <1>1, <1>2, <1>3, ConcatProperties
<1> HIDE DEF sum
<1>6. ASSUME NEW i \in 1 .. n + w PROVE sum[i] = both[i]
  <2>1. CASE i \in 1 .. n
    <3>1. i <= n
      BY <1>1, <2>1
    <3>2. head[i] = Message[i]
      BY <1>2, <2>1
    <3> QED
      BY <1>4, <1>5, <3>1, <3>2
  <2>2. CASE i \notin 1 .. n
    <3>1. i - n \in 1 .. w /\ n + (i - n) = i /\ ~(i <= n)
      BY <1>1, <2>2
    <3>2. next[i - n] = Message[i]
      BY <1>3, <3>1
    <3> QED
      BY <1>4, <1>5, <3>1, <3>2
  <2> QED
    BY <2>1, <2>2
<1>7. head \o next = both
  BY <1>4, <1>5, <1>6, SeqEqual DEF sum
<1> QED
  BY <1>1, <1>4, <1>7 DEF head, next, both

-----------------------------------------------------------------------------
LEMMA InitIInv == Init => IInv
<1> SUFFICES ASSUME Init PROVE IInv
  OBVIOUS
<1>1. TypeOK
  <2>1. 0 \in 0 .. U32 - 1 /\ 0 \in 0 .. Len(Message)
    BY WordAssumption, MessageAssumption
  <2>2. uart \in Seq(Nat) /\ blit = {} /\ fault = {} /\ built = {}
    BY DEF Init
  <2>3. console \in [row : 0 .. U32 - 1, col : 0 .. U32 - 1]
    BY <2>1 DEF Init
  <2> QED
    BY <2>1, <2>2, <2>3 DEF Init, TypeOK
<1>2. SentInOrder
  BY MessageAssumption DEF Init, SentInOrder
<1> QED
  BY <1>1, <1>2 DEF Init, IInv, BlitInBuffer, KeptIsBuilt,
                    BuiltBuffers

LEMMA ConsoleKeeps == IInv /\ console_init => IInv'
<1> SUFFICES ASSUME IInv, console_init PROVE IInv'
  OBVIOUS
<1>1. console' \in [row : 0 .. U32 - 1, col : 0 .. U32 - 1]
  BY Cut, NumberAssumption DEF console_init
<1>2. UNCHANGED <<blit, fault, config, serial>>
  BY DEF console_init
<1> QED
  BY <1>1, <1>2 DEF IInv, TypeOK, BlitInBuffer, SentInOrder,
                    KeptIsBuilt, BuiltBuffers, config, serial

LEMMA BlitKeeps == IInv /\ fb_blt => IInv'
<1> SUFFICES ASSUME IInv, fb_blt PROVE IInv'
  OBVIOUS
<1>1. UNCHANGED <<console, config, serial>>
  BY DEF fb_blt
<1>2. PICK buf \in Buffers, col \in Int :
        IF Divisor(col) = 0
        THEN fault' = {col} /\ UNCHANGED blit
        ELSE /\ blit' = {[first  |-> UINT32(Length[buf] \div Divisor(col)),
                          second |-> UINT32(col), buf |-> buf, col |-> col]}
             /\ UNCHANGED fault
  BY NumberAssumption DEF fb_blt
<1>3. TypeOK' /\ BlitInBuffer'
  <2>1. CASE Divisor(col) = 0
    BY <1>1, <1>2, <2>1 DEF IInv, TypeOK, BlitInBuffer, config, serial
  <2>2. CASE Divisor(col) # 0
    <3> DEFINE row == Length[buf] \div Divisor(col)
               d == [first |-> UINT32(row), second |-> UINT32(col),
                     buf |-> buf, col |-> col]
    <3>1. /\ Length[buf] \in 0 .. U32 - 1 /\ Length[buf] \in Nat
          /\ Divisor(col) \in Nat \ {0}
      BY <2>2, Cut, BufferAssumption, WordAssumption DEF Divisor
    <3>2. row \in Int
      BY <3>1, Division
    <3>3. UINT32(row) \in 0 .. U32 - 1 /\ UINT32(col) \in 0 .. U32 - 1
      BY <3>2, Cut
    <3>4. d \in [first : 0 .. U32 - 1, second : 0 .. U32 - 1,
                 buf : Buffers, col : Int]
      BY <3>3
    <3>5. ASSUME col \in Widths
          PROVE  /\ 2 * UINT32(row) * UINT32(col) <= Length[buf]
                 /\ Length[buf] < 2 * (UINT32(row) + 1) * UINT32(col)
      BY <3>1, <3>5, WholeLines
    <3>6. /\ d.first = UINT32(row) /\ d.second = UINT32(col)
          /\ d.buf = buf /\ d.col = col
      OBVIOUS
    <3>7. blit' = {d} /\ UNCHANGED fault
      BY <1>2, <2>2
    <3> HIDE DEF d, row
    <3>8. TypeOK'
      BY <1>1, <3>4, <3>7 DEF IInv, TypeOK, config, serial
    <3>9. BlitInBuffer'
      BY <3>5, <3>6, <3>7 DEF BlitInBuffer
    <3> QED
      BY <3>8, <3>9
  <2> QED
    BY <2>1, <2>2
<1> QED
  BY <1>1, <1>3 DEF IInv, SentInOrder, KeptIsBuilt, BuiltBuffers, config, serial

LEMMA WriteKeeps == IInv /\ uart_write => IInv'
<1> SUFFICES ASSUME IInv, uart_write PROVE IInv'
  OBVIOUS
<1>1. UNCHANGED <<console, blit, fault, config>>
  BY DEF uart_write
<1>2. PICK w \in 0 .. Len(Message) - sent :
        /\ uart' = uart \o SubSeq(Message, sent + 1, sent + w)
        /\ sent' = sent + w
  BY DEF uart_write, Answer
<1>3. sent \in 0 .. Len(Message) /\ uart = SubSeq(Message, 1, sent)
  BY DEF IInv, TypeOK, SentInOrder
<1>4. /\ uart' = SubSeq(Message, 1, sent') /\ uart' \in Seq(Nat)
      /\ sent' \in 0 .. Len(Message)
  BY <1>2, <1>3, SentOn
<1> QED
  BY <1>1, <1>4 DEF IInv, TypeOK, BlitInBuffer, SentInOrder,
                    KeptIsBuilt, BuiltBuffers, config

LEMMA ConfigKeeps == IInv /\ (Edit \/ build_cfgd \/ save_cfgd) => IInv'
<1> SUFFICES ASSUME IInv, Edit \/ build_cfgd \/ save_cfgd PROVE IInv'
  OBVIOUS
<1>1. UNCHANGED <<console, blit, fault, serial>>
  BY DEF Edit, build_cfgd, save_cfgd
<1>2. /\ data' \in [Buffers -> {"raw", "built"}] /\ built' \subseteq Buffers
      /\ BuiltBuffers'
  <2>1. CASE Edit
    BY <2>1 DEF Edit, IInv, TypeOK, BuiltBuffers
  <2>2. CASE build_cfgd
    BY <2>2 DEF build_cfgd, IInv, TypeOK, BuiltBuffers, Writable, IsSuccess
  <2>3. CASE save_cfgd
    BY <2>3 DEF save_cfgd, IInv, TypeOK, BuiltBuffers
  <2> QED
    BY <2>1, <2>2, <2>3
<1>3. /\ flash' \in {"raw", "built", "torn"} /\ stored' \in BOOLEAN
      /\ KeptIsBuilt'
  <2>1. CASE Edit \/ build_cfgd
    BY <2>1 DEF Edit, build_cfgd, IInv, TypeOK, KeptIsBuilt
  <2>2. CASE save_cfgd
    BY <2>2 DEF save_cfgd, IInv, TypeOK, KeptIsBuilt, BuiltBuffers, IsSuccess
  <2> QED
    BY <2>1, <2>2
<1> QED
  BY <1>1, <1>2, <1>3 DEF IInv, TypeOK, BlitInBuffer,
                          SentInOrder, serial

LEMMA NextKeeps == IInv /\ [Next]_vars => IInv'
<1>1. CASE UNCHANGED vars
  BY <1>1 DEF vars, config, serial, IInv, TypeOK, BlitInBuffer,
              SentInOrder, KeptIsBuilt, BuiltBuffers
<1> QED
  BY <1>1, ConsoleKeeps, BlitKeeps, WriteKeeps, ConfigKeeps DEF Next

(* The invariant of the calls, from which the following are read off. *)
THEOREM CallsInvariant == Spec => []IInv
  BY InitIInv, NextKeeps, PTL DEF Spec

(* Every variable keeps its type. *)
THEOREM TypeCorrect == Spec => []TypeOK
<1>1. IInv => TypeOK
  BY DEF IInv
<1> QED
  BY <1>1, CallsInvariant, PTL

(* fb_blt never makes the loader read beyond the buffer for a width that   *)
(* has half of its double in 32 bits (modpyb.c:53-54).                     *)
THEOREM BlitsStayInBuffer == Spec => []BlitInBuffer
<1>1. IInv => BlitInBuffer
  BY DEF IInv
<1> QED
  BY <1>1, CallsInvariant, PTL

(* A script that goes by what uart_write returns sends its message once    *)
(* and in order (modpyb.c:59-64).                                          *)
THEOREM MessageSent == Spec => []SentInOrder
<1>1. IInv => SentInOrder
  BY DEF IInv
<1> QED
  BY <1>1, CallsInvariant, PTL

(* What the script takes to be kept, the loader has built and keeps        *)
(* (modpyb.c:102-121).                                                     *)
THEOREM ConfigurationKept == Spec => []KeptIsBuilt
<1>1. IInv => KeptIsBuilt
  BY DEF IInv
<1> QED
  BY <1>1, CallsInvariant, PTL
=============================================================================
