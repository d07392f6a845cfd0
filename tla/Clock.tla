-------------------------------- MODULE Clock -------------------------------
(***************************************************************************)
(* Time in the payload (Extra/mphalport.c): ticks are read off the         *)
(* processor's time stamp counter, divided by what the processor says of   *)
(* its frequency; sleeping is a service of the loader, which takes         *)
(* microseconds.  Everything passes through mp_uint_t, the machine word:   *)
(* the default build is for IA32.                                          *)
(*                                                                         *)
(* The counter, the frequency register and the loader's delay are          *)
(* external.                                                               *)
(***************************************************************************)
EXTENDS Integers

CONSTANTS
  Word,       \* values of mp_uint_t and UINTN: 2^32, or 2^64
  Ratios,     \* the frequency in register 0xCE, in 100 MHz; 0: an emulator
  GuestMHz,   \* how fast an emulator's counter may run
  Steps,      \* the microseconds that pass while Python code computes
  Sleeps,     \* the milliseconds it asks to sleep
  Naps,       \* the microseconds it asks to sleep
  MaxTime     \* bound: microseconds since the counter was 0

ASSUME WordAssumption    == Word \in Nat \ {0}
ASSUME RatiosAssumption  == Ratios \subseteq 0..255
ASSUME TimeAssumption    == MaxTime \in Nat /\ Steps \subseteq Nat
                              /\ Sleeps \subseteq Nat /\ Naps \subseteq Nat
ASSUME GuestAssumption   == GuestMHz \subseteq Nat \ {0}

VARIABLES
  ratio,      \* bits 8 to 15 of the register
  mhz,        \* cycles of the counter in a microsecond
  now,        \* true microseconds since the counter was 0
  mark,       \* what ticks_ms was when Python code last looked
  markedAt,   \* history: now, then
  asked       \* history: microseconds asked of the sleep just done, or 0

vars == <<ratio, mhz, now, mark, markedAt, asked>>

AsmReadTsc == now * mhz

(* What a 64-bit value or product becomes when it is a mp_uint_t. *)
Truncated(x) == x % Word

(* The register is 0 under an emulator: then 800 MHz is a guess. *)
Ratio == IF ratio = 0 THEN 8 ELSE ratio

BugBusClock == Truncated(AsmReadTsc \div Ratio)

mp_hal_ticks_us == Truncated(AsmReadTsc \div (Ratio * 100))

BugFullWidth == (AsmReadTsc \div (Ratio * 100)) \div 1000

mp_hal_ticks_ms == mp_hal_ticks_us \div 1000

BugMilliseconds(ms) == Truncated(ms)

(* What mp_hal_delay_ms asks of MicroSecondDelay: the product is made in   *)
(* mp_uint_t, before usleep takes 64 bits.                                 *)
Microseconds(ms) == Truncated(ms * 1000)

-----------------------------------------------------------------------------
Init ==
  /\ ratio \in Ratios
  /\ mhz \in IF ratio = 0 THEN GuestMHz ELSE {ratio * 100}
  /\ now = 0 /\ mark = 0 /\ markedAt = 0
  /\ asked = 0

(* Python code computes. *)
Compute ==
  /\ \E d \in Steps : now + d <= MaxTime /\ now' = now + d
  /\ asked' = 0
  /\ UNCHANGED <<ratio, mhz, mark, markedAt>>

(* Python code notes the time. *)
Mark ==
  /\ mark' = mp_hal_ticks_ms
  /\ markedAt' = now
  /\ asked' = 0
  /\ UNCHANGED <<ratio, mhz, now>>

(* The service delays for no less than it was asked. *)
usleep(us) ==
  /\ \E late \in {0} \cup Steps : now' = now + us + late
  /\ now' <= MaxTime
  /\ UNCHANGED <<ratio, mhz, mark, markedAt>>

mp_hal_delay_ms == \E ms \in Sleeps : usleep(Microseconds(ms)) /\ asked' = ms * 1000

mp_hal_delay_us == \E us \in Naps : usleep(Truncated(us)) /\ asked' = us

Next == Compute \/ Mark \/ mp_hal_delay_ms \/ mp_hal_delay_us

Spec == Init /\ [][Next]_vars
-----------------------------------------------------------------------------
(* Properties *)

(* The value every variable may have. *)
TypeOK ==
  /\ ratio \in Ratios /\ mhz \in GuestMHz \cup {r * 100 : r \in Ratios \ {0}}
  /\ now \in 0..MaxTime /\ markedAt \in 0..now
  /\ mark \in 0 .. (Word - 1) \div 1000
  /\ asked \in {ms * 1000 : ms \in Sleeps} \cup Naps \cup {0}

Wraps == now \div Word - markedAt \div Word

(* The ticks of two looks at the clock differ by the time between them, to *)
(* less than a millisecond, and by Word microseconds for every wrap of the *)
(* microseconds in between.  So they wrap at Word / 1000, not at a power   *)
(* of two (mphalport.c:93-107).  An emulator's clock is not promised to be *)
(* right.                                                                  *)
TicksTellTime ==
  ratio # 0 =>
    1000 * (mp_hal_ticks_ms - mark) + Word * Wraps - (now - markedAt)
      \in -999 .. 999

(* A sleep lasts as long as Python code asked, if the microseconds fit     *)
(* into the word: up to 71 minutes where it has 32 bits (mphalport.c:78-91)*)
SleepsLongEnough ==
  [][asked' < Word => now' - now >= asked']_vars
=============================================================================
