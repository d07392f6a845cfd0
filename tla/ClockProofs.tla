----------------------------- MODULE ClockProofs ----------------------------
(***************************************************************************)
(* The two promises of the clock, for every width of the machine word,     *)
(* every frequency, and all times: see Clock.                              *)
(***************************************************************************)
EXTENDS Clock, TLAPS

(* Division with rest, for a positive divisor. *)
LEMMA DivMod ==
  ASSUME NEW x \in Nat, NEW d \in Nat \ {0}
  PROVE  /\ x = d * (x \div d) + (x % d)
         /\ x % d \in 0 .. (d - 1)
         /\ x \div d \in Nat
  BY SMT

(* A counter of k cycles a microsecond, divided by k. *)
LEMMA DivProduct ==
  ASSUME NEW x \in Nat, NEW k \in Nat \ {0}
  PROVE  (x * k) \div k = x
  BY SMT

-----------------------------------------------------------------------------
(* On a processor that knows its frequency, the counter runs at it, and    *)
(* what Python code noted is the time it looked, cut to the word.          *)
Noted ==
  ratio # 0 => mhz = ratio * 100 /\ mark = (markedAt % Word) \div 1000

IInv == TypeOK /\ Noted

(* Reading the ticks cuts the true time to the word. *)
LEMMA TicksCutTime ==
  ASSUME TypeOK, ratio # 0, mhz = ratio * 100
  PROVE  mp_hal_ticks_ms = (now % Word) \div 1000
<1>1. now \in Nat /\ ratio \in 1..255 /\ Word \in Nat \ {0}
  BY RatiosAssumption, TimeAssumption, WordAssumption DEF TypeOK
<1>2. AsmReadTsc = now * (ratio * 100)
  BY <1>1 DEF AsmReadTsc
<1>3. ratio * 100 \in Nat \ {0}
  BY <1>1
<1>4. AsmReadTsc \div (ratio * 100) = now
  BY <1>1, <1>2, <1>3, DivProduct
<1> QED
  BY <1>4 DEF mp_hal_ticks_ms, mp_hal_ticks_us, Ratio, Truncated

(* Whatever the frequency, the ticks fit their type. *)
LEMMA TicksInRange ==
  ASSUME TypeOK
  PROVE  mp_hal_ticks_ms \in 0 .. (Word - 1) \div 1000
<1>1. now \in Nat /\ mhz \in Nat /\ Ratio * 100 \in Nat \ {0}
  BY RatiosAssumption, TimeAssumption, GuestAssumption DEF TypeOK, Ratio
<1>2. AsmReadTsc \in Nat
  BY <1>1 DEF AsmReadTsc
<1>3. AsmReadTsc \div (Ratio * 100) \in Nat
  BY <1>1, <1>2, DivMod
<1>4. mp_hal_ticks_us \in 0 .. (Word - 1)
  BY <1>3, WordAssumption, DivMod DEF mp_hal_ticks_us, Truncated
<1> QED
  BY <1>4, WordAssumption DEF mp_hal_ticks_ms

-----------------------------------------------------------------------------
LEMMA InitIInv == Init => IInv
<1> SUFFICES ASSUME Init PROVE IInv
  OBVIOUS
<1>1. TypeOK
  BY RatiosAssumption, TimeAssumption, WordAssumption DEF Init, TypeOK
<1>2. 0 % Word = 0
  BY WordAssumption
<1>3. Noted
  BY <1>2 DEF Init, Noted
<1> QED
  BY <1>1, <1>3 DEF IInv

(* A sleep moves the time forward, whatever became of the product. *)
LEMMA SleepMovesOn ==
  ASSUME NEW ms \in Sleeps
  PROVE  /\ Microseconds(ms) \in Nat
         /\ ms * 1000 < Word => Microseconds(ms) = ms * 1000
<1>1. ms * 1000 \in Nat
  BY TimeAssumption
<1>2. (ms * 1000) % Word \in Nat
  <2>1. \A x \in Nat : x % Word \in Nat
    BY WordAssumption, DivMod
  <2> QED
    BY <1>1, <2>1
<1>3. ms * 1000 < Word => (ms * 1000) % Word = ms * 1000
  BY <1>1, WordAssumption
<1> QED
  BY <1>2, <1>3 DEF Microseconds, Truncated

(* The same for any delay. *)
LEMMA NapMovesOn ==
  ASSUME NEW us \in Naps
  PROVE  /\ Truncated(us) \in Nat
         /\ us < Word => Truncated(us) = us
<1>1. us \in Nat
  BY TimeAssumption
<1>2. us % Word \in Nat
  <2>1. \A x \in Nat : x % Word \in Nat
    BY WordAssumption, DivMod
  <2> QED
    BY <1>1, <2>1
<1>3. us < Word => us % Word = us
  BY <1>1, WordAssumption
<1> QED
  BY <1>2, <1>3 DEF Truncated

(* The service never ends early, and touches nothing but the time. *)
LEMMA DelayMovesOn ==
  ASSUME TypeOK, NEW us \in Nat, usleep(us)
  PROVE  /\ now' \in 0..MaxTime /\ now' - now >= us /\ now <= now'
         /\ UNCHANGED <<ratio, mhz, mark, markedAt>>
<1>1. PICK late \in {0} \cup Steps : now' = now + us + late
  BY DEF usleep
<1>2. late \in Nat /\ now \in Nat /\ MaxTime \in Nat
  BY TimeAssumption DEF TypeOK
<1>3. now' <= MaxTime /\ UNCHANGED <<ratio, mhz, mark, markedAt>>
  BY DEF usleep
<1> QED
  BY <1>1, <1>2, <1>3

LEMMA StepIInv == IInv /\ [Next]_vars => IInv'
<1> SUFFICES ASSUME IInv, [Next]_vars PROVE IInv'
  OBVIOUS
<1> USE DEF IInv
<1>1. CASE Compute
  <2>1. PICK d \in Steps : now + d <= MaxTime /\ now' = now + d
    BY <1>1 DEF Compute
  <2>2. now' \in 0..MaxTime /\ now <= now'
    BY <2>1, TimeAssumption DEF TypeOK
  <2> QED
    BY <1>1, <2>2, TimeAssumption DEF Compute, TypeOK, Noted
<1>2. CASE Mark
  <2>1. mark' \in 0 .. (Word - 1) \div 1000
    BY <1>2, TicksInRange DEF Mark
  <2>2. TypeOK'
    BY <1>2, <2>1, TimeAssumption DEF Mark, TypeOK
  <2>3. ratio # 0 => mark' = (now % Word) \div 1000
    BY <1>2, TicksCutTime DEF Mark, Noted
  <2> QED
    BY <1>2, <2>2, <2>3 DEF Mark, Noted
<1>3. CASE mp_hal_delay_ms
  <2>1. PICK ms \in Sleeps : usleep(Microseconds(ms)) /\ asked' = ms * 1000
    BY <1>3 DEF mp_hal_delay_ms
  <2>2. /\ now' \in 0..MaxTime /\ now <= now'
        /\ UNCHANGED <<ratio, mhz, mark, markedAt>>
    BY <2>1, SleepMovesOn, DelayMovesOn
  <2> QED
    BY <2>1, <2>2, TimeAssumption DEF TypeOK, Noted
<1>4. CASE mp_hal_delay_us
  <2>1. PICK us \in Naps : usleep(Truncated(us)) /\ asked' = us
    BY <1>4 DEF mp_hal_delay_us
  <2>2. /\ now' \in 0..MaxTime /\ now <= now'
        /\ UNCHANGED <<ratio, mhz, mark, markedAt>>
    BY <2>1, NapMovesOn, DelayMovesOn
  <2> QED
    BY <2>1, <2>2, TimeAssumption DEF TypeOK, Noted
<1>5. CASE UNCHANGED vars
  BY <1>5 DEF vars, TypeOK, Noted
<1> QED
  BY <1>1, <1>2, <1>3, <1>4, <1>5 DEF Next

(* The invariant gives the promise of the ticks. *)
LEMMA IInvTicks == IInv => TicksTellTime
<1> SUFFICES ASSUME IInv, ratio # 0
             PROVE  1000 * (mp_hal_ticks_ms - mark) + Word * Wraps
                      - (now - markedAt) \in -999 .. 999
  BY DEF TicksTellTime
<1> USE DEF IInv
<1>1. now \in Nat /\ markedAt \in Nat /\ Word \in Nat \ {0}
  BY TimeAssumption, WordAssumption DEF TypeOK
<1>2. /\ now = Word * (now \div Word) + (now % Word)
      /\ now % Word \in Nat /\ now \div Word \in Nat
  BY <1>1, DivMod
<1>3. /\ markedAt = Word * (markedAt \div Word) + (markedAt % Word)
      /\ markedAt % Word \in Nat /\ markedAt \div Word \in Nat
  BY <1>1, DivMod
<1>4. Word * Wraps = Word * (now \div Word) - Word * (markedAt \div Word)
  BY <1>1, <1>2, <1>3 DEF Wraps
<1>5. /\ mp_hal_ticks_ms = (now % Word) \div 1000
      /\ mark = (markedAt % Word) \div 1000
  BY TicksCutTime DEF Noted
<1>6. \A x \in Nat : x - 1000 * (x \div 1000) \in 0..999 /\ x \div 1000 \in Nat
  OBVIOUS
<1> DEFINE a == now % Word
           b == markedAt % Word
<1>7. /\ a - 1000 * (a \div 1000) \in 0..999 /\ a \div 1000 \in Nat
      /\ b - 1000 * (b \div 1000) \in 0..999 /\ b \div 1000 \in Nat
  <2>1. a \in Nat /\ b \in Nat
    BY <1>2, <1>3
  <2> HIDE DEF a, b
  <2> QED
    BY <2>1, <1>6
<1>8. Word * Wraps - (now - markedAt) = b - a
  <2>1. Word * (now \div Word) \in Int /\ Word * (markedAt \div Word) \in Int
    BY <1>1, <1>2, <1>3
  <2> QED
    BY <1>2, <1>3, <1>4, <2>1
<1>9. Word * Wraps \in Int
  BY <1>1, <1>2, <1>3 DEF Wraps
<1> HIDE DEF a, b
<1>10. 1000 * (a \div 1000 - b \div 1000) + (b - a) \in -999 .. 999
  <2>1. a \in Int /\ b \in Int
    BY <1>2, <1>3 DEF a, b
  <2> QED
    BY <1>7, <2>1
<1> QED
  BY <1>1, <1>5, <1>7, <1>8, <1>9, <1>10 DEF a, b

-----------------------------------------------------------------------------
(* The inductive invariant of the clock. *)
THEOREM ClockInvariant == Spec => []IInv
  BY InitIInv, StepIInv, PTL DEF Spec

(* Every variable keeps its type: ticks fit into the machine word.         *)
THEOREM TypeCorrect == Spec => []TypeOK
<1>1. IInv => TypeOK
  BY DEF IInv
<1> QED
  BY <1>1, ClockInvariant, PTL

(* For every width of the word, ticks differ by the time between two looks *)
(* at the clock, to less than a millisecond and up to whole wraps of the   *)
(* microseconds.                                                           *)
THEOREM TicksRight == Spec => []TicksTellTime
  BY ClockInvariant, IInvTicks, PTL

(* A sleep whose microseconds fit into the word is not cut short. *)
THEOREM SleepsRight == Spec => SleepsLongEnough
<1>1. IInv /\ [Next]_vars => [asked' < Word => now' - now >= asked']_vars
  <2> SUFFICES ASSUME IInv, Next, asked' < Word
               PROVE  now' - now >= asked'
    BY DEF vars
  <2>0. now \in Int
    BY DEF IInv, TypeOK
  <2>1. CASE Compute
    BY <2>0, <2>1, TimeAssumption DEF Compute
  <2>2. CASE Mark
    BY <2>0, <2>2 DEF Mark
  <2>3. CASE mp_hal_delay_ms
    <3>1. PICK ms \in Sleeps : usleep(Microseconds(ms)) /\ asked' = ms * 1000
      BY <2>3 DEF mp_hal_delay_ms
    <3>2. now' - now >= Microseconds(ms)
      BY <3>1, SleepMovesOn, DelayMovesOn DEF IInv
    <3> QED
      BY <3>1, <3>2, SleepMovesOn
  <2>4. CASE mp_hal_delay_us
    <3>1. PICK us \in Naps : usleep(Truncated(us)) /\ asked' = us
      BY <2>4 DEF mp_hal_delay_us
    <3>2. now' - now >= Truncated(us)
      BY <3>1, NapMovesOn, DelayMovesOn DEF IInv
    <3> QED
      BY <3>1, <3>2, NapMovesOn
  <2> QED
    BY <2>1, <2>2, <2>3, <2>4 DEF Next
<1> QED
  BY <1>1, ClockInvariant, PTL DEF Spec, SleepsLongEnough
=============================================================================
