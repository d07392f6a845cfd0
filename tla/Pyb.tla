-------------------------------- MODULE Pyb --------------------------------
(***************************************************************************)
(* The functions of the pyb module that hand a buffer or numbers of Python *)
(* to a loader service (Extra/modpyb.c): console_init, fb_blt, uart_write, *)
(* build_cfgd and save_cfgd.  The services take numbers of 32 bits         *)
(* (Extra/sblservice.h), Python's are as wide as it likes, and mp_int_t is *)
(* as wide as a pointer.  An argument of the wrong type or one that does   *)
(* not fit raises an exception and changes nothing.                        *)
(*                                                                         *)
(* The caller is a script as scripts should be: it sends again what        *)
(* uart_write has left, and saves configuration data only if build_cfgd    *)
(* has answered True since the script last touched it.                     *)
(***************************************************************************)
EXTENDS Integers, Sequences

CONSTANTS
  U32,        \* 2^32
  Word,       \* the number of values of mp_int_t
  Numbers,    \* numbers Python passes
  Buffers,    \* objects with the buffer protocol
  ReadOnly,   \* those that are bytes or str
  Length,     \* their lengths in bytes; the heap has 2^24
  Message     \* what the script sends over the serial port

ASSUME WordAssumption    == /\ U32 \in Nat \ {0} /\ Word \in Nat
                            /\ U32 % 2 = 0 /\ Word % U32 = 0
ASSUME NumberAssumption  == Numbers \subseteq Int
ASSUME BufferAssumption  == /\ ReadOnly \subseteq Buffers
                            /\ Length \in [Buffers -> 0 .. U32 - 1]
ASSUME MessageAssumption == Message \in Seq(Nat)

VARIABLES
  console,   \* the rows and columns ConsoleInit was last called with
  blit,      \* the last call of DrawFrameBuffer, if any: its numbers, the
             \* buffer, and the col Python passed
  fault,     \* the col Python passed to a call that divided by zero, if any
  data,      \* the configuration data in a buffer: built by the loader or not
  built,     \* the buffers the script takes to be built
  flash,     \* the configuration data the loader keeps
  stored,    \* the script takes its data to be kept
  uart,      \* what has left the serial port
  sent       \* how much of Message the script takes to be sent

config == <<data, built, flash, stored>>
serial == <<uart, sent>>
vars == <<console, blit, fault, config, serial>>

BugUncut(x) == x

UINT32(x) == x % U32

(* mp_obj_get_int raises an exception for any other number. *)
Fits(x) == -Word <= 2 * x /\ 2 * x < Word

Running == fault = {}

Init ==
  /\ console = [row |-> 0, col |-> 0] /\ blit = {} /\ fault = {}
  /\ data = [b \in Buffers |-> "raw"] /\ built = {}
  /\ flash = "raw" /\ stored = FALSE
  /\ uart = <<>> /\ sent = 0

console_init ==
  /\ Running
  /\ \E icol, irow \in {x \in Numbers : Fits(x)} :
       console' = [row |-> UINT32(irow), col |-> UINT32(icol)]
  /\ UNCHANGED <<blit, fault, config, serial>>

BugOneByte(col) == UINT32(col)

(* Two bytes a pixel; the divisor of DivU64x32 has 32 bits. *)
Divisor(col) == UINT32(col * 2)

(* Nothing stops a divisor of 0: the DebugLib is BaseDebugLibNull. *)
fb_blt ==
  /\ Running
  /\ \E buf \in Buffers, col \in {x \in Numbers : Fits(x)} :
       IF Divisor(col) = 0
       THEN fault' = {col} /\ UNCHANGED blit
       ELSE /\ blit' = {[first  |-> UINT32(Length[buf] \div Divisor(col)),
                         second |-> UINT32(col), buf |-> buf, col |-> col]}
            /\ UNCHANGED fault
  /\ UNCHANGED <<console, config, serial>>

BugAll(left, written) == left

(* uart_write returns what SerialPortWrite does. *)
Answer(left, written) == written

uart_write ==
  /\ Running
  /\ \E written \in 0 .. Len(Message) - sent :
       /\ uart' = uart \o SubSeq(Message, sent + 1, sent + written)
       /\ sent' = sent + Answer(Len(Message) - sent, written)
  /\ UNCHANGED <<console, blit, fault, config>>

-----------------------------------------------------------------------------
(* Configuration data *)

Edit ==
  /\ Running
  /\ \E buf \in Buffers \ ReadOnly :
       /\ data' = [data EXCEPT ![buf] = "raw"]
       /\ built' = built \ {buf}
  /\ UNCHANGED <<console, blit, fault, flash, stored, serial>>

(* mp_get_buffer_raise with MP_BUFFER_WRITE *)
Writable == Buffers \ ReadOnly

BugNotZero(ret) == ret # "success"

(* ret == 0 *)
IsSuccess(ret) == ret = "success"

(* BuildConfigData works in the buffer, and may stop in the middle. *)
build_cfgd ==
  /\ Running
  /\ \E buf \in Writable, ret \in {"success", "error"} :
       /\ data' = [data EXCEPT ![buf] = IF ret = "success" THEN "built" ELSE "raw"]
       /\ built' = IF IsSuccess(ret) THEN built \cup {buf} ELSE built \ {buf}
  /\ UNCHANGED <<console, blit, fault, flash, stored, serial>>

save_cfgd ==
  /\ Running
  /\ \E buf \in built, ret \in {"success", "error"} :
       /\ flash' \in IF ret = "success" THEN {data[buf]} ELSE {flash, "torn"}
       /\ stored' = IsSuccess(ret)
  /\ UNCHANGED <<console, blit, fault, data, built, serial>>

Next ==
  \/ console_init \/ fb_blt \/ uart_write
  \/ Edit \/ build_cfgd \/ save_cfgd

Spec == Init /\ [][Next]_vars
-----------------------------------------------------------------------------
(* Properties *)

(* The value every variable may have. *)
TypeOK ==
  /\ console \in [row : 0 .. U32 - 1, col : 0 .. U32 - 1]
  /\ blit \subseteq [first : 0 .. U32 - 1, second : 0 .. U32 - 1,
                     buf : Buffers, col : Int]
  /\ fault \subseteq Int
  /\ data \in [Buffers -> {"raw", "built"}]
  /\ built \subseteq Buffers
  /\ flash \in {"raw", "built", "torn"} /\ stored \in BOOLEAN
  /\ uart \in Seq(Nat) /\ sent \in 0 .. Len(Message)

(* The widths that have half of their double in 32 bits. *)
Widths == 1 .. (U32 \div 2) - 1

(* For a width a picture can have, the loader is told all whole lines of   *)
(* the buffer, and not one more: it does not read beyond it, although the  *)
(* numbers have been cut to 32 bits three times (modpyb.c:53-54).          *)
BlitInBuffer ==
  \A d \in blit : d.col \in Widths =>
    /\ 2 * d.first * d.second <= Length[d.buf]
    /\ Length[d.buf] < 2 * (d.first + 1) * d.second

(* What the script takes to be sent is what has left the port, however     *)
(* many calls it took (modpyb.c:59-64).                                    *)
SentInOrder == uart = SubSeq(Message, 1, sent)

(* When the script takes its configuration data to be kept, the loader     *)
(* keeps what it has built itself, whatever failed before, and whatever    *)
(* was edited, built and saved in between (modpyb.c:102-121).              *)
KeptIsBuilt == stored => flash = "built"

(* The loader draws lines of the width Python asked for: the first number  *)
(* of DRAW_FRAME_BUFFER is Col (sblservice.h:27).                          *)
DrawnAsWide == \A d \in blit : d.col \in Widths => d.first = d.col
=============================================================================
