------------------------------ MODULE Payload ------------------------------
(***************************************************************************)
(* The one thread of the MicroPython payload, from the entry the boot      *)
(* loader calls to the dead loop it never leaves: SecStartup fills the     *)
(* service table (MicroPython.c), main brings the interpreter up over a    *)
(* heap of loader pages, runs the start script and the REPL and takes the  *)
(* interpreter down (Extra/main.c), and Python code calls pyb.load_file    *)
(* and pyb.reboot (Extra/modpyb.c).  An exception is a jump to the         *)
(* innermost nlr buffer, or to nlr_jump_fail (Extra/mphalport.c).          *)
(*                                                                         *)
(* The interpreter (the MicroPython submodule) and the loader's services   *)
(* are external; they are modelled by what the code relies on.             *)
(***************************************************************************)
EXTENDS Integers, Sequences, Pages

CONSTANTS
  MaxPages,   \* the loader manages pages 1 .. MaxPages
  Missing,    \* the sets of services the loader may not implement
  Reserved,   \* the sets of pages the loader itself may have in use
  HeapSize,   \* bytes of Python heap main asks for
  FileSizes,  \* the sizes in bytes of the files LoadFile may find
  MaxTry      \* bound: Python try blocks entered at the same time

ASSUME MaxPagesAssumption  == MaxPages \in Nat \ {0}
ASSUME ReservedAssumption  == Reserved \subseteq SUBSET (1..MaxPages)
ASSUME HeapSizeAssumption  == HeapSize \in Nat \ {0}
ASSUME FileSizesAssumption == FileSizes \subseteq Nat \ {0}
ASSUME MaxTryAssumption    == MaxTry \in Nat

VARIABLES
  pc,          \* where the thread is
  idx,         \* SecStartup: the entry of ServiceTable looked up next
  exports,     \* the services the loader implements
  service,     \* sbl_service_tbl: the names whose pointer is not NULL
  reserved,    \* pages the loader uses itself
  owned,       \* pages in use, as the loader's allocator sees them
  heap,        \* main: the heap pointer
  image,       \* pyb_load_file: the pointer to the file's pages
  image_size,  \* pyb_load_file: the file's size in bytes
  lost,        \* history: blocks whose only pointer was in a frame unwound
  mp,          \* the interpreter: "down", "gc" (gc_init done), "up"
  nlr          \* the chain of nlr buffers, innermost last

vars == <<pc, idx, exports, service, reserved, owned, heap, image,
          image_size, lost, mp, nlr>>

boot == <<idx, exports, service, reserved>>
file == <<image, image_size, lost>>
memory == <<owned, heap, file>>

(* serivce_map_tbl, in its order. *)
ServiceTable ==
  << "DebugPrint", "ConsoleInit", "ConsolePoll", "ConsoleRead",
     "ConsoleWrite", "MicroSecondDelay", "AllocatePages", "FreePages",
     "DrawFrameBuffer", "SerialPortWrite", "LoadFile", "BuildConfigData",
     "SaveConfigData", "PlatformReset" >>

ServiceNames == {ServiceTable[i] : i \in DOMAIN ServiceTable}

(* Control points.  Python code, and what it calls, runs at PythonPcs;     *)
(* the thread never leaves StoppedPcs.                                     *)
PythonPcs  == {"python", "new_bytes", "free_image"}
StoppedPcs == {"hang", "wild", "fatal", "dead_loop", "reset"}
BootPcs    == {"lookup", "assert", "alloc_heap", "mp_init", "do_str"}
MainPcs    == {"print_exc", "repl", "deinit", "free_heap"}

Init ==
  /\ pc = "lookup"
  /\ idx = 1
  /\ exports \in {ServiceNames \ missing : missing \in Missing}
  /\ service = {}
  /\ reserved \in Reserved
  /\ owned = reserved
  /\ heap = NULL /\ image = NULL /\ image_size = 0 /\ lost = {}
  /\ mp = "down"
  /\ nlr = <<>>

-----------------------------------------------------------------------------
(* SecStartup *)

(* Where a missing service leads: CpuDeadLoop, or assert. *)
BugAssertAlways == "assert"

OnMissing == IF idx > 1 THEN "assert" ELSE "hang"

(* One round of the lookup loop: the pointer GetProcAddress returns goes   *)
(* into the table; a missing DebugPrint stops the payload at once, any     *)
(* other missing service through assert, which prints before it stops.     *)
LookupService ==
  /\ pc = "lookup" /\ idx <= Len(ServiceTable)
  /\ \/ /\ ServiceTable[idx] \in exports
        /\ service' = service \cup {ServiceTable[idx]}
        /\ idx' = idx + 1
        /\ UNCHANGED pc
     \/ /\ ServiceTable[idx] \notin exports
        /\ pc' = OnMissing
        /\ UNCHANGED <<service, idx>>
  /\ UNCHANGED <<exports, reserved, memory, mp, nlr>>

(* debug_assert: print, then CpuDeadLoop. *)
DebugAssert ==
  /\ pc = "assert"
  /\ pc' = "hang"
  /\ UNCHANGED <<boot, memory, mp, nlr>>

(* The table is complete: announce the start and call main. *)
CallMain ==
  /\ pc = "lookup" /\ idx > Len(ServiceTable)
  /\ pc' = "alloc_heap"
  /\ UNCHANGED <<boot, memory, mp, nlr>>

-----------------------------------------------------------------------------
(* The loader's page services, as operators on the set of pages in use.    *)

FreeBlocks(count) ==
  {b \in {Block(p, count) : p \in 1..MaxPages} :
     PagesOf(b) \subseteq (1..MaxPages) \ owned}

FreePages(p, count) == owned' = owned \ PagesOf(Block(p, count))

(* Whole pages for a file, the last one possibly part empty. *)
FilePages(size) == (size + PageSize - 1) \div PageSize

-----------------------------------------------------------------------------
(* main *)

(* AllocatePages and gc_init.  The pointer is not tested: with no heap,    *)
(* gc_init writes through NULL, and nothing is known from there on.        *)
AllocHeap ==
  /\ pc = "alloc_heap"
  /\ \/ \E b \in FreeBlocks(SizeToPages(HeapSize)) :
          /\ heap' = b.first
          /\ owned' = owned \cup PagesOf(b)
          /\ mp' = "gc"
          /\ pc' = "mp_init"
     \/ /\ FreeBlocks(SizeToPages(HeapSize)) = {}
        /\ pc' = "wild"
        /\ UNCHANGED <<heap, owned, mp>>
  /\ UNCHANGED <<boot, file, nlr>>

MpInit ==
  /\ pc = "mp_init"
  /\ mp' = "up"
  /\ pc' = "do_str"
  /\ UNCHANGED <<boot, memory, nlr>>

(* do_str pushes an nlr buffer, compiles the start script and calls it. *)
DoStr ==
  /\ pc = "do_str"
  /\ nlr' = Append(nlr, "do_str")
  /\ pc' = "python"
  /\ UNCHANGED <<boot, memory, mp>>

(* Where the thread goes on after a jump to an nlr buffer.  A SystemExit   *)
(* ends the REPL, but not the start script, which prints it like any other *)
(* exception.                                                              *)
BugExitAnywhere(h, exc) ==
  CASE h = "try"            -> "python"
    [] exc = "SystemExit"   -> "deinit"
    [] OTHER                -> "print_exc"

BugRetryScript(h, exc) ==
  CASE h = "try"            -> "python"
    [] h = "do_str"         -> "do_str"
    [] OTHER                -> "print_exc"

AfterCatch(h, exc) ==
  CASE h = "try"                               -> "python"
    [] h = "pyexec" /\ exc = "SystemExit"      -> "deinit"
    [] OTHER                                   -> "print_exc"

(* nlr_jump: the thread goes on after the innermost nlr_push, or in        *)
(* nlr_jump_fail when there is none.                                       *)
Raise(exc) ==
  \/ /\ nlr = <<>>
     /\ pc' = "fatal"
     /\ UNCHANGED nlr
  \/ /\ nlr # <<>>
     /\ nlr' = SubSeq(nlr, 1, Len(nlr) - 1)
     /\ pc' = AfterCatch(nlr[Len(nlr)], exc)

(* The uncaught exception is printed outside every nlr buffer: what its    *)
(* printing raises has no handler.                                         *)
PrintException ==
  /\ pc = "print_exc"
  /\ \/ pc' = "repl" /\ UNCHANGED nlr
     \/ Raise("Exception")
  /\ UNCHANGED <<boot, memory, mp>>

(* pyexec_friendly_repl reads a line outside every nlr buffer (memory for  *)
(* it may run out), then runs it inside one; end of input ends the REPL.   *)
Repl ==
  /\ pc = "repl"
  /\ \/ pc' = "python" /\ nlr' = Append(nlr, "pyexec")
     \/ pc' = "deinit" /\ UNCHANGED nlr
     \/ Raise("MemoryError")
  /\ UNCHANGED <<boot, memory, mp>>

BugFreeFirst ==
  /\ pc = "deinit"
  /\ FreePages(heap, SizeToPages(HeapSize))
  /\ pc' = "free_heap"
  /\ UNCHANGED <<boot, heap, file, mp, nlr>>

MpDeinit ==
  /\ pc = "deinit"
  /\ mp' = "down"
  /\ pc' = "free_heap"
  /\ UNCHANGED <<boot, memory, nlr>>

BugWholePagesOnly ==
  /\ pc = "free_heap"
  /\ FreePages(heap, HeapSize \div PageSize)
  /\ heap' = NULL
  /\ pc' = "dead_loop"
  /\ UNCHANGED <<boot, file, mp, nlr>>

(* The heap goes back, main returns, SecStartup enters CpuDeadLoop. *)
FreeHeap ==
  /\ pc = "free_heap"
  /\ FreePages(heap, SizeToPages(HeapSize))
  /\ heap' = NULL
  /\ pc' = "dead_loop"
  /\ UNCHANGED <<boot, file, mp, nlr>>

-----------------------------------------------------------------------------
(* Python code: the start script or a REPL line.                           *)

EnterTry ==
  /\ pc = "python" /\ Len(nlr) <= MaxTry
  /\ nlr' = Append(nlr, "try")
  /\ UNCHANGED <<pc, boot, memory, mp>>

LeaveTry ==
  /\ pc = "python" /\ Len(nlr) > 1
  /\ nlr' = SubSeq(nlr, 1, Len(nlr) - 1)
  /\ UNCHANGED <<pc, boot, memory, mp>>

(* Also what the argument checks of the pyb functions raise. *)
PythonRaise ==
  /\ pc = "python"
  /\ \E exc \in {"Exception", "SystemExit"} : Raise(exc)
  /\ UNCHANGED <<boot, memory, mp>>

BugNoPop ==
  /\ pc = "python" /\ Len(nlr) = 1
  /\ pc' = "repl"
  /\ UNCHANGED <<boot, memory, mp, nlr>>

(* The code returned: do_str, or the REPL, pops its buffer.  Both go on    *)
(* with the REPL.                                                          *)
PythonReturn ==
  /\ pc = "python" /\ Len(nlr) = 1
  /\ nlr' = SubSeq(nlr, 1, Len(nlr) - 1)
  /\ pc' = "repl"
  /\ UNCHANGED <<boot, memory, mp>>

(* LoadFile failed: image and image_size keep their initial values. *)
BugUninitialised ==
  image' \in 0 .. (MaxPages + 1) /\ image_size' = 0 /\ UNCHANGED owned

NotLoaded == image' = NULL /\ image_size' = 0 /\ UNCHANGED owned

(* pyb.load_file calls LoadFile; the status is not looked at. *)
LoadFile ==
  /\ pc = "python"
  /\ \/ \E size \in FileSizes : \E b \in FreeBlocks(FilePages(size)) :
          /\ image' = b.first /\ image_size' = size
          /\ owned' = owned \cup PagesOf(b)
     \/ NotLoaded
  /\ pc' = "new_bytes"
  /\ UNCHANGED <<boot, heap, lost, mp, nlr>>

(* The file's bytes are copied to an object on the Python heap, which may  *)
(* be full: the exception unwinds the frame that holds the image pointer.  *)
NewBytes ==
  /\ pc = "new_bytes"
  /\ \/ pc' = "free_image" /\ UNCHANGED <<image, image_size, lost, nlr>>
     \/ /\ Raise("MemoryError")
        /\ lost' = lost \cup BlockAt(image, FilePages(image_size))
        /\ image' = NULL /\ image_size' = 0
  /\ UNCHANGED <<boot, owned, heap, mp>>

FreeImage ==
  /\ pc = "free_image"
  /\ IF image # NULL THEN FreePages(image, SizeToPages(image_size))
                     ELSE UNCHANGED owned
  /\ image' = NULL /\ image_size' = 0
  /\ pc' = "python"
  /\ UNCHANGED <<boot, heap, lost, mp, nlr>>

(* pyb.reboot: PlatformReset does not return, or returns an error status.  *)
Reboot ==
  /\ pc = "python"
  /\ pc' \in {"reset", "python"}
  /\ UNCHANGED <<boot, memory, mp, nlr>>

-----------------------------------------------------------------------------
(* A halted processor, or one that spins in CpuDeadLoop. *)
Stopped == pc \in StoppedPcs /\ UNCHANGED vars

Boot   == LookupService \/ DebugAssert \/ CallMain
Main   == AllocHeap \/ MpInit \/ DoStr \/ PrintException \/ Repl
            \/ MpDeinit \/ FreeHeap
Python == EnterTry \/ LeaveTry \/ PythonRaise \/ PythonReturn
            \/ LoadFile \/ NewBytes \/ FreeImage \/ Reboot

Next == Boot \/ Main \/ Python \/ Stopped

Spec == Init /\ [][Next]_vars

(* The payload is the only thing the processor runs. *)
FairSpec == Spec /\ WF_vars(Next)
-----------------------------------------------------------------------------
(* Properties *)

(* The value every variable may have. *)
TypeOK ==
  /\ pc \in BootPcs \cup MainPcs \cup PythonPcs \cup StoppedPcs
  /\ idx \in 1 .. (Len(ServiceTable) + 1)
  /\ exports \subseteq ServiceNames /\ service \subseteq ServiceNames
  /\ reserved \subseteq 1..MaxPages /\ owned \subseteq 1..MaxPages
  /\ heap \in 0..MaxPages /\ image \in 0..MaxPages
  /\ image_size \in FileSizes \cup {0}
  /\ lost \subseteq [first : 1..MaxPages, count : Nat \ {0}]
  /\ mp \in {"down", "gc", "up"}
  /\ nlr \in Seq({"do_str", "pyexec", "try"})

(* The services that may be called at a control point. *)
Calls(at) ==
  CASE at = "assert"                -> {"DebugPrint"}
    [] at = "alloc_heap"            -> {"DebugPrint", "AllocatePages"}
    [] at = "repl"                  -> {"ConsoleRead", "ConsoleWrite"}
    [] at \in {"print_exc", "fatal"} -> {"ConsoleWrite"}
    [] at \in {"free_image", "free_heap"} -> {"FreePages"}
    [] at = "python"                -> ServiceNames
    [] OTHER                        -> {}

(* No call goes through a NULL pointer of the service table: not even the  *)
(* one that reports a service missing (MicroPython.c:53-63).               *)
NoNullCall == Calls(pc) \subseteq service

(* The blocks the payload has to answer for. *)
HeapBlock  == BlockAt(heap, SizeToPages(HeapSize))
ImageBlock == BlockAt(image, FilePages(image_size))
Held == HeapBlock \cup ImageBlock \cup lost

(* The loader's view and the payload's agree: the pages in use are the     *)
(* loader's own and those of blocks taken and not returned, none of them   *)
(* twice.  A page returned twice, too few or too many pages returned, or a *)
(* return of somebody else's page would break it (modpyb.c:94-96,          *)
(* main.c:85,97).                                                          *)
Accounting ==
  /\ owned = reserved \cup AllPages(Held)
  /\ AllPages(Held) \cap reserved = {}
  /\ PairwiseDisjoint(Held)
  /\ HeapBlock \cap ImageBlock = {}
  /\ (HeapBlock \cup ImageBlock) \cap lost = {}

(* Pages in use that the payload has no pointer to.                        *)
Stray == owned \ (reserved \cup AllPages(HeapBlock \cup ImageBlock))

(* Pages get out of the payload's reach in one way only: a MemoryError     *)
(* leaves load_file between LoadFile and FreePages, and with it goes one   *)
(* file (modpyb.c:91-96).  A script that catches the exception may do that *)
(* again until the loader has no page left; but no other exception, return *)
(* or end of the payload loses a page, and a lost one is never given back. *)
OnlyLoadFileLosesPages ==
  [][Stray' # Stray =>
       /\ pc = "new_bytes" /\ pc' # "free_image"
       /\ Stray' = Stray \cup AllPages(ImageBlock)]_vars

(* While the interpreter is up its heap is memory the loader granted and   *)
(* has not got back, and no Python code runs before or after (main.c:84-97)*)
HeapBacked ==
  /\ mp # "down" =>
       /\ heap # NULL
       /\ PagesOf(Block(heap, SizeToPages(HeapSize))) \subseteq owned
  /\ pc \in PythonPcs \cup {"do_str", "print_exc", "repl"} => mp = "up"

(* Every nlr buffer on the chain belongs to a frame that is still there:   *)
(* none outside do_str and the REPL's line, and there one of theirs with   *)
(* the try blocks entered since.  So an exception of Python code always    *)
(* has a handler, and none jumps into a frame that has returned            *)
(* (main.c:62-72).                                                         *)
NlrBalanced ==
  /\ pc \in PythonPcs =>
       /\ nlr # <<>> /\ nlr[1] \in {"do_str", "pyexec"}
       /\ \A i \in 2..Len(nlr) : nlr[i] = "try"
  /\ pc \notin PythonPcs \cup {"reset"} => nlr = <<>>

(* The interpreter is taken down only by the REPL's end or SystemExit in   *)
(* it: the start script, whatever it raises, never ends the payload.       *)
DeinitOnlyByRepl ==
  [][pc # "deinit" /\ pc' = "deinit" =>
       pc = "repl" \/ (nlr # <<>> /\ nlr[1] = "pyexec")]_vars

(* The payload's use of the page services is one the loader may expect.    *)
Client == INSTANCE PageClient WITH blocks <- Held
RespectsLoader == Client!Spec

(* Whatever the start script does, short of running for ever, the user     *)
(* gets a prompt, or the payload has visibly stopped.                      *)
PromptOrStop == <>(pc \in {"repl"} \cup StoppedPcs) \/ <>[](pc \in PythonPcs)

(* A bound on the steps to the first prompt, not counting those of Python  *)
(* code; 0 once the prompt was reached or the payload has stopped.         *)
StepsAhead(at, entry, chain) ==
  CASE at = "lookup"     -> 8 + Len(ServiceTable) - entry
    [] at = "alloc_heap" -> 6
    [] at = "mp_init"    -> 5
    [] at = "do_str"     -> 4
    [] at \in PythonPcs /\ chain[1] = "do_str" -> 3
    [] at = "print_exc"  -> 2
    [] at = "assert"     -> 1
    [] OTHER             -> 0

ToPrompt == StepsAhead(pc, idx, nlr)

(* On the way to the first prompt every step but one of the start script   *)
(* comes closer: nothing is done twice, whatever is raised and by whom,    *)
(* and only the prompt or a stop is at the end of the way                  *)
(* (MicroPython.c:53-69, main.c:59-92).                                    *)
TowardsPrompt ==
  [][ToPrompt > 0 =>
       /\ ToPrompt' < ToPrompt \/ (pc \in PythonPcs /\ ToPrompt' = ToPrompt)
       /\ ToPrompt' = 0 => pc' \in {"repl"} \cup StoppedPcs]_vars
=============================================================================
