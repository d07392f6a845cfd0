# MicroPython payload for Slim Bootloader: TLA+ models and proofs

The repository builds one program, a MicroPython interpreter that the Slim
Bootloader ("the loader") starts as a payload, and holds the Python scripts that
generate its headers and build it.  The modules in this directory model both,
TLC checks them on small instances, and TLAPS proves what matters most of them
for every value of their constants.

## The system

| Component | Files under `src/` | State | Operations |
|---|---|---|---|
| Payload entry and service table | `MicroPython/MicroPython.c`, `Extra/sblservice.h` | `sbl_service_tbl`: 14 function pointers into the loader | `SecStartup` |
| Interpreter life cycle | `Extra/main.c` | heap pointer, the chain of nlr (exception) buffers, whether the interpreter is up | `main`, `do_str`, stubs for `import` and `open` |
| `pyb` module | `Extra/modpyb.c` | none of its own; between two lines of `load_file` the pages of a file; what it has told the loader | nine functions of Python code over the services |
| Hardware abstraction layer | `Extra/mphalport.c` | none | console in and out, cursor, clock, `debug_assert`, `nlr_jump_fail` |
| Garbage collector port | `Extra/gccollect.c`, `stack_top` of `main.c` | the registers and the stack of the C functions running | `gc_collect` |
| C library shims | `Extra/string.c`, `Include/` | none | memory and string functions over the firmware's library |
| Interpreter configuration | `Extra/mpconfigport.h`, `Extra/modutime.c` | compile-time constants | - |
| Header generator | `MicroPython/Tools/genhdr.py` | files: split macro files, collected files, three headers | one run; it may stop anywhere |
| Build scripts | `BuildMicroPython.py`, `Tools/prep.py` | two directories with sources and a `genhdr` directory each: the repository, and its copy in the loader's tree | `build`, `clean`, `prep.py` |
| Build descriptions | `MicroPython.inf`, `PayloadModPkg.dsc`, `.dec` | data | - |
| MicroPython itself | a git submodule, empty here | the Python heap and objects | external |

How they interact.  The loader calls `SecStartup`, which fills the service table
and calls `main`.  From there everything is one thread: `main` and the
interpreter call each other, Python code calls `pyb` functions, they call the
loader through the table, and an exception jumps back to the innermost nlr
buffer, unwinding C frames without running anything in them.  There are no
interrupts and no second processor.  The build scripts share files: what one run
of `genhdr.py` leaves behind, whole or cut, is what the next one and the compiler
find.

Where it is hard:

- *Failure in the middle.*  Any service may be missing, `AllocatePages` may
  return NULL, `LoadFile` may fail, and every allocation of Python memory may
  raise `MemoryError` between two lines of C, with loader pages in hand.
- *Non-local jumps.*  Who catches what depends on which buffers are on the
  chain; a buffer left on the chain is a jump into a dead frame much later.
- *Two counts of one thing.*  Pages are counted when they are taken and again
  when they are returned, by different code.
- *Restart over leftovers.*  `genhdr.py` clears some of what an interrupted run
  left and not the rest; the scripts around it do not look at how it ended, and
  copy leftovers from one directory over those of another.
- *The user's timing.*  Keys arrive whenever they like, between a poll and a read.
- *Widths.*  The clock and the cursor code work in 32 bits, 8 bits and 6 bytes,
  the services in 32 bits, Python in as many as it needs.
- *Pointers nobody declared.*  The collector has to find every object that C code
  uses, wherever a compiler, a saved register or a jump has put the pointer to it.

What makes each component correct:

- entry: no call through a pointer that has not been filled;
- life cycle: heap memory the loader granted under a running interpreter, a
  balanced nlr chain, a REPL whatever the start script does;
- `load_file`: the pages of a file go back, all of them, once, unless an exception
  unwinds the frame that knows of them;
- console: keys in order, none lost, nobody waits for a key the poll promised;
  the cursor where the line editor thinks it is;
- clock: a sleep is not shorter than asked; differences of ticks are time;
- the other `pyb` functions: the loader is told what the buffer holds, the script
  what the loader did;
- collector: no object a running function keeps is freed;
- generator: a run that succeeds produces the headers of the sources as they
  are, whatever earlier runs left;
- build: the compiler sees the strings of the sources being built.

## Modules

| Module | Models | State and how it corresponds to the code |
|---|---|---|
| `Pages` | pages and blocks of loader memory; `EFI_SIZE_TO_PAGES` | operators only; page 0 is the NULL pointer |
| `PageClient` | the abstract specification: what the loader may expect of a payload that uses its page services | `owned` (pages in use), `blocks` (taken and not returned) |
| `Payload` | the one thread from `SecStartup` to the dead loop | below |
| `Pyb` | `console_init`, `fb_blt`, `uart_write`, `build_cfgd`, `save_cfgd` and a script that calls them | below |
| `GcRoots` | the collector's view of registers and stack, under C functions that call, save, push buffers and jump | below |
| `ConsoleInput` | keys from the user to Python code | the loader's queue, whether its read waits, the local variable a key is read into, history of what was typed and received |
| `ConsoleOutput` | cursor and text on the user's terminal | what the line editor believes, what the terminal shows, `vt100_command` and `n` |
| `Clock` | ticks and sleeps | true time, the counter's frequency, the last ticks Python code noted |
| `Genhdr` | one run of `genhdr.py` after the other | below |
| `HeaderStore` | the abstract specification: what the compiler may expect of the generated headers, whatever failed | which headers are finished, what they hold, what a run has still to do, where leftovers of an earlier run may be |
| `MpyBuild` | `BuildMicroPython.py` and `prep.py` around `Genhdr` | extends `Genhdr`; adds the command's step, the directory that is not worked in, the submodule, the loader's tree |
| `PayloadProofs`, `ConsoleInputProofs`, `ConsoleOutputProofs`, `ClockProofs`, `PybProofs`, `GcRootsProofs`, `GenhdrProofs`, `MpyBuildProofs` | proofs | - |
| `MC...` | values of the constants for TLC | - |

Definitions whose names begin with `Bug` are plausible mistakes in the definition
that follows them: each makes one of the properties fail, which shows that the
property says something about the code.  Nothing else refers to them.

### Payload

`pc` is the point the thread has reached; every action moves it.  `service` is
the set of names whose pointer in `sbl_service_tbl` is not NULL, `exports` what
the loader implements.  `heap`, `image` and `image_size` are the C variables of
`main` and `pyb_load_file`; `owned` is the loader's allocator; `nlr` is the chain
of nlr buffers, each named after the code that pushed it (`do_str`, the REPL's
`pyexec`, a Python `try`).  Actions and code:

- `LookupService`, `DebugAssert`, `CallMain`: the loop of `SecStartup`.  Only the
  first entry may stop without printing; for any other `assert` prints through
  the entry that has just been filled.  `assert` is active: no build file of the
  repository defines `NDEBUG`.
- `AllocHeap` ... `FreeHeap`: `main`, line by line.  `gc_init` over a NULL heap
  leads to `wild`, a state about which nothing is promised.
- `DoStr`, `PrintException`, `PythonReturn`: `do_str`, both sides of its
  `nlr_push`.
- `Repl`: `pyexec_friendly_repl`, as `main` relies on it.  A line is run inside
  a buffer of its own, `SystemExit` and the end of input end it.  (The raw REPL
  is entered and left inside the same call and looks the same from here.)
- `Raise`: `nlr_jump`, with `AfterCatch` the place the thread goes on at, and
  `nlr_jump_fail` when the chain is empty.
- `LoadFile`, `NewBytes`, `FreeImage`: `pyb_load_file` in three steps, because
  the second may not come back.  Blocks whose only pointer was in the frame it
  unwound are kept in the history variable `lost`: they are in use for ever, and
  a script that catches the exception can lose more.
- `EnterTry`, `LeaveTry`, `PythonRaise`, `Reboot`: what Python code may do.

The interpreter is external.  What is assumed of it: it pops what it pushes, it
raises only where a buffer or `nlr_jump_fail` takes over, and after `mp_init` it
touches no memory but its heap.

### Pyb

`blit`, `console`, `uart`, `flash` are what the loader was last told or has kept,
`data` what a buffer holds; `sent`, `built` and `stored` are what the script knows
from the answers it got.  Python's numbers are any integers; one that does not
fit into `mp_int_t` raises an exception before anything happens, and the services
cut what they get to 32 bits (`UINT32`).  The division of `fb_blt` has nothing
before it: the `ASSERT` of `DivU64x32` is empty with the `DebugLib` of
`PayloadModPkg.dsc`, so a divisor of 0 is a processor fault, after which nothing
runs (`fault`).  Negative widths, 0, and those of 2^31 and more are no pictures:
`Widths` leaves them out of the properties, not out of the model.  The loader's
side is external: `BuildConfigData` may fail half-way in the caller's buffer,
`SaveConfigData` in the middle of a write.  The script is written as scripts
should be: it sends on from the number `uart_write` returns, and saves only what
it takes to be built and has not touched since.

### GcRoots

`stack` is the words below `main`'s frame, `reg` the registers a function must
preserve, `frames` the functions running, `nlr` the buffers among their local
variables, `alloc` the objects of the heap.  `Captured` is what
`gc_helper_get_regs` stores on each of its four branches, in the order of the
code; `RootCount` is the difference of the two addresses divided by the size of a
word, with `stack_top` up to three words below `main`'s frame and not aligned to
anything: the return address, a frame pointer and the local variable whose address
it is.  The collection itself is `Collect`, below the return address of
`gc_collect`.  What is assumed and not shown: no local variable or buffer of a
function lies above `stack_top`, only return addresses and saved registers (the
guards of `UseStack` and `NlrPush`); a compiler that put one there would hide it
from the collector.  External, and modelled as the
calling convention has it: a function may save any preserved register before it
uses it, keeps objects in saved registers and in local variables, restores on
return what it saved; a buffer holds the preserved registers and a jump brings
them back.  What a function keeps in other registers is on the stack or dead when
it calls.  `mp_thread_gc_others` is for threads, which are not built.

### Genhdr and MpyBuild

A set of macros is represented by the set of sources it comes from; `tree` says
which kinds of macros each source has, and each source may change by itself.  `split[kind]` is the directory of that
kind, `header[kind]` the generated header and `whole` the headers that were
written to their end.  One action is one call in the script's main loop; each may
instead end the run, because a tool failed (`check_call` raises) or somebody
stopped it, and leaves its files in every state the code can leave them in: no
split file removed or some, a header not opened, opened and empty, or written.
A run stopped inside `rmtree` has removed part of the qstr directory
(`SomeRemoved`).
The temporary files of a run that stopped are overwritten before the next run
reads them, and a failure to remove one counts as a failure of the step after it.
`swept` and `unnoticed` remember the two failures the script does not notice
itself: `clear_tree` swallows every exception, and the exit status of
`makemoduledefs` and `make_root_pointers` is not looked at.

`MpyBuild` extends that model and takes its `Start` and `Step` from the scripts'
own steps.  `genhdr.py` is run in two directories: the repository and its copy in
the loader's tree.  The variables of `Genhdr` are the files of the directory at
hand, `aside` those of the other one; `Open` and `Return` exchange them.
`inTree` distinguishes the two ways to work: the repository cloned into a loader's
tree as `PayloadModPkg`, where `prep.py` and a `build` that is given that tree work
in it, or anywhere else.  In both, a `build` that is not given the repository's
own tree makes a copy.  `copytree` takes everything but `.git`, `slimbootloader`,
`Build` and `Conf`, and so the repository's `genhdr` directory: its split files
join those in the copy, its headers replace the copy's, and what a failed `prep.py`
left in it is put there again before every run (`Overwritten`; `run` is "failed"
then, as after a failed run in the copy itself).  A copy may also stop anywhere
(`CopyStopped`).  Sources are edited between commands and not during one, and one
command runs at a time.  A script stopped in one of its own steps leaves nothing
that the step's failure does not.

### ConsoleInput, ConsoleOutput, Clock

A loader's read without a key either waits or stores nothing (`waits`, which a
loader never changes): `rx_chr` is written for the second (it sets `ch` to 0
first), `getch` for the first (it polls).  `ReadKey` is checked with both.  Keys
are 1 to 255: the functions return 0 for no key, so a NUL that is typed cannot be
told from none.  There is no interrupt character (`mphalport.h:30`).

In `ConsoleOutput` a character sequence is what matters, so it is modelled:
`Decimal` and `Snprintf` do what the conversion does, with the buffer's size, and
`Display` is a terminal that reads one character after the other, so a command
cut short swallows what comes next.  A store outside of `vt100_command` leads to
`wild`.  The terminal does not wrap lines; the real one, of 100 columns
(README.md:51), does, and the cursor code knows nothing of that.

A sleep comes from `mp_hal_delay_ms` or `mp_hal_delay_us`; both go through
`usleep`, which takes as long as it is asked, or longer.  `Clock` keeps 1000, 100
and the 8-bit ratio of the code; only the word is a constant.  Under an emulator
(ratio 0) the code guesses 800 MHz, so nothing is promised of its ticks beyond
their range.

## Runs

| Run | Shows | Bounds, and why they are enough |
|---|---|---|
| `payload` | no call through NULL; loader and payload agree on every page, and only a `MemoryError` in `load_file` loses any; the heap is there while Python runs; every nlr buffer belongs to a live frame; the clean-up is reached from the REPL only; `PageClient` is implemented; every step before the first prompt comes closer to it or to a stop, and the user gets a prompt or the payload stops, unless Python code runs for ever | a loader with all services and one without each of the 14: the loop looks at them one by one.  Six pages, of which the loader uses none, one in the middle, or so many that no heap fits; a heap of two pages with the last part used; files of one byte, a whole page and a page and a byte: the three ways a size rounds.  Two nested `try` blocks: handlers inside and outside of one another |
| `console_input` | keys arrive once and in order; nobody waits for a promised key; a read that was promised one ends with the key that was first; `getch`, and a read after a poll that promised a key, come back although nobody types again | loaders whose read waits and loaders whose does not; two keys, five of them typed: the queue is empty, has one, has more; orders can be told apart |
| `console_output` | the terminal's cursor is where the editor takes it to be, until a step does not fit the command's buffer; steps of up to 999 do | lines of up to 1000, filled with text of 5 or 200 characters; distances on both sides of every change: backspaces or command, one, two, three or four digits |
| `console_output_long` | **violation**: a step of 1000 does not replace the NUL | |
| `clock` | ticks tell the time up to wraps; sleeps are long enough | a 16-bit word, which 200 ms wrap three times, and sleeps in milliseconds and in microseconds that just fit into it and just do not |
| `genhdr` | a successful run is right about the strings whatever earlier runs left; modules and root pointers are complete, and exact unless the run before failed; `HeaderStore` is implemented | two sources, one listed twice as in the INF; each may have all kinds of macros, strings only, or none; any number of runs, failures and edits |
| `pyb` | `fb_blt` announces all whole lines of the buffer and not one more, for every width of a picture; a message leaves the port once and in order; configuration data taken to be kept are what the loader built | a `UINT32` of 4 bits and an `mp_int_t` of 6, with numbers on both sides of every limit: they fit neither, one or both; a buffer of 15 bytes that widths divide with and without rest, and a constant one; a message of three bytes, sent in any pieces |
| `pyb_header` | **violation**: `fb_blt` passes the rows where the header has the columns | the same |
| `gc_roots` | no object a running function keeps is collected, on all four branches | one object: a collection treats each by itself.  Five words beside buffers, two registers saved, one buffer: a register saved by one function and used by the next, with a buffer and a jump in between; `stack_top` two and a half words below the frame, where the division rounds |
| `mpy_build` | what the compiler finds in all three headers after any sequence of build, clean, `prep.py`, edits and failures, in the repository or in its copy | one source, with macros of two kinds or of none: whether a macro is stale is a question about one source, and how sources mix, and the third kind, are questions of `genhdr`.  The submodule is empty or current (`SubmoduleBound`): for `genhdr.py` an old one is like a current one |
| `mpy_build_headers` | **violation**: the payload is built although `genhdr.py` failed | |
| `mpy_build_submodule` | **violation**: a build goes on without the submodule | |

Deadlock is checked, and a thread that has stopped stutters, but for two models
where the system really may stop: `ConsoleInput`, when all keys have been typed
and a read waits for one more, and `Pyb`, after a division by zero.

Fairness is assumed twice.  `payload` assumes `WF_vars(Next)`: the payload's
thread is the only thing the processor runs, and no step waits for another actor.
It does not say that Python code ends: `PromptOrStop` has that case of its own.
`console_input` assumes `WF_vars(ReadKey)` and nothing of the user or of Python
code: a call of `ConsoleRead` that finds a key, or does not wait for one, comes
back.  All other runs check safety and need none.

## What the runs found

- `mphalport.c:140`, "replace null char": for distances of 1000 and more the D is
  stored outside of the six characters and the NUL stays (`console_output_long`).
- `BuildMicroPython.py:48` ignores how `genhdr.py` ended, although README.md:21-22
  says its headers are required.  The harm is limited: the compiler sees an
  unfinished qstr header or the right one, except after a run that ended before
  `clear_file` (`StaleStringsOnlyIfNotCleared`).
- `sblservice.h:27` declares `DRAW_FRAME_BUFFER` with the columns first;
  `modpyb.c:54` passes `row` first (`pyb_header`).  A loader that goes by the
  header draws lines as long as the picture is high.
- `BuildMicroPython.py:57` means to "make sure" the submodule is fetched, and
  does not look whether it was.

Seen while modelling, and part of the models, without a line of the repository
that says otherwise: a `MemoryError` in `load_file` loses the file's pages
(`lost`); a NULL heap is used (`wild`); `fb_blt` with a width of 0 or of 2^31
divides by zero, and one a little larger makes the loader read beyond the buffer;
module and root pointer macros of a failed run turn up once more
(`CleanAfterSuccess` says when not), and those of a `prep.py` that failed in the
repository turn up in every build that copies it, until a `prep.py` there succeeds
(`LoaderSeesHeaders` excludes those builds); `ticks_ms` wraps at 2^32 / 1000 on IA32
and a sleep of more than 71 minutes is cut short, of which `SleepsLongEnough` does
not speak; a failure of two of the three generators goes unnoticed (`unnoticed`),
and so does a file `rmtree` could not remove (`swept`): the properties of headers
name these two exceptions.

## Proofs

TLAPS checks every theorem; nothing is assumed but the named assumptions on the
constants (page counts and sizes are positive, files and the heap are not empty,
the word is not 0, keys are 1 to 255, `stack_top` is within three words of `main`'s
frame).

`PayloadProofs` proves all safety properties of the `payload` run, for every
memory, heap and file size and every depth of `try` blocks.  None of them is
inductive alone: that `FreePages` returns exactly what `AllocatePages` gave needs
to know where the thread can be while a pointer is not NULL, and that needs the
nlr chain, because an exception decides where it goes on.  So
`IInv` is `TypeOK`, `NlrBalanced` and `Accounting` with

- `TableInv`: the entries below `idx` are filled, all of them outside the loop;
- `HeapInv`: at which points the interpreter is up and the heap pointer not NULL;
- `ImageInv`: at which points the file's pointer may be not NULL.

Its step is proved part by part: `NlrStep`, `TableStep`, `HeapStep`, `ImageStep`,
`AccountStep`, `TypeStep`, each with a case for every action that can disturb the
part, over lemmas about blocks (a size rounds up to the same count as the loader's
formula; adding and removing a disjoint block).
`LostByLoadFile` reads off the same parts that what nobody holds and the loader
does not use grows in one step only, the exception in `mp_obj_new_bytes`.
`ImplementsPageClient` maps `blocks` to the blocks held or lost: initial states to
initial states, `AllocHeap` and `LoadFile` to `Take`, `FreeImage` and `FreeHeap`
to `Return`, everything else to a stutter.
`TowardsPrompt` is the safety half of `PromptOrStop`: `StepsAhead` counts what is
left of the way to the first prompt, and every step takes something off it, but
for Python code that runs on.  `AlwaysForward` proves it for any number of nested
`try` blocks; what is left to TLC is that the thread goes on taking steps.

`ConsoleInputProofs`: `IInv` adds that `rx_chr` has set its variable and that the
queue is not empty where `getch` reads or a poll has promised a key; then
`KeysInOrder` is two facts on sequences.  `PromisesKept` follows the first key of
the queue from the poll to Python code, past whatever is typed behind it.

`ConsoleOutputProofs` needs to know what `snprintf` writes and what the terminal
makes of it, for every number: `Decimal` and the fold over characters are
recursive functions.  The library's induction theorems cannot be used, but that
the natural numbers are well-founded can: `Smallest` says that a set of naturals
has a least element, and the set of numbers for which a claim fails has none.
With it, `DecimalEquation` and `ReadInOrder` show that the two functions satisfy
the equations they are defined by, and `DigitsMean` that a terminal that reads the
digits of a number holds that number.  `IInv` is `TypeOK`, `ScreenInStep`,
`NotMidCommand` and `Pending`: while the command waits for its D, the terminal is
still where it was before the step back, `command` is what `snprintf` left of some
distance, and the editor is already that distance behind.  Without `Pending`,
`ScreenInStep` says nothing about the moment before the command is sent.
`ShortStepsFit` is the other side of `console_output_long`: with all distances
below 1000, the D replaces the NUL and no store leaves the array.

`ClockProofs`: `IInv` says that the noted ticks are the true time cut to the word;
the rest is division with remainder, for any word and any frequency.

`PybProofs`: `IInv` adds that a buffer the script takes to be built is built.
`WidthDivisor` and `WholeLines` are the arithmetic of `fb_blt`: for a width in
`Widths` neither the product nor the quotient is cut, for any buffer the heap can
hold.  `SentOn` is that two parts of a message that meet are one part.

`GcRootsProofs` proves `LiveObjectsKept` for any word size, any depth of calls and
any `stack_top` of the assumption; three words are the most it can be: a register
saved, used, and saved once more by the next function is in the fourth.  The
property is not inductive: words above `stack_top`
are not looked at, so they must never hold a pointer (`HiddenNone`).  The only way
into them is a register that a function `main` calls saves, so such a register
must still be as `main` left it (`MainRegs`): a statement about every register, every
frame and every buffer, which needs to know that frames and buffers lie below
one another (`FrameInv`, `BufferInv`) to survive a return and a jump.  `Scanned`
is the rounding of `RootCount`, `CapturesAll` that no branch forgets a register.

`GenhdrProofs` proves all properties of `genhdr`, for any set of sources, any
list of them with or without repetitions, any macros, and any number of edits and
failures.  `IInv` follows the macros of each kind through a run (`Progress`): the
macros found so far are in the split files until they are concatenated, then in
the collected file, then in the header; and nothing else is there, if the run
before did not fail or, for strings, if the directory was cleared (`Clean`).

`ImplementsStore` maps a run to `HeaderStore`: `Left` is what the stage still has
before it, `Leftovers` the kinds an earlier run may have left macros of.  Of the twelve
stages of a run only `clear` and the three generators are steps of the store; the
others change nothing a compiler can see.

`MpyBuildProofs` takes that invariant over: a step of the build leaves the
generator's files alone, is a step of the generator, or puts the files of a
directory at hand (`Open`), and those must be such that a run may start over them.
`FilesOK` says so of both directories; `OverwrittenFine` and `CleanedFine` show
that a copy, whole or stopped, and a clean keep it.  `Copied` adds that the sources
at hand are the repository's from the copy on, `Ended` and `HeadersDone` that nothing
touches the headers between the end of `genhdr.py` and the loader's build, `Complete`
that all three are then as the run left them.  So what is proved of the headers
after a run alone (`QstrFresh`, `NothingMissing`, `CleanAfterSuccess`) holds of the
runs the scripts start, with copies, edits and cleans in between.  `HeaderStore` is
not among it: a copy writes headers of another directory, which is no step of the
store.

Model-checked only: `PromptOrStop` and `Returns`, as liveness under fairness is
out of the prover's reach.  The properties of the violation runs about a header, a
comment or README.md do not hold, so there is nothing to prove of them.

## Not modelled, and why

- `Extra/string.c`: each function hands its arguments to one function of the
  firmware's library, which is not in the repository, and keeps no state.  A model
  would state what that library does and then find it to be so.  (`memcpy`,
  `memmove` and `memset` return nothing; whether a caller looks cannot be read
  here.)
- The headers of `Include/`: declarations and macros.
- `Extra/mpconfigport.h`, `Extra/modutime.c`: compile-time constants, and a table of
  a file the INF does not build.
- `genhdr.py` 137-155 and 184-259, which read the INF and the DEC files: they
  change nothing and yield the list of sources, the constant `SrcFiles`, and the
  options of the preprocessor.
- The build descriptions: data for the loader's tools.
- The interpreter: its sources are not in the repository.  What the models rely on
  of it is named where they do.
- `setjmp` and `longjmp` of `mphalport.c` hand over to the firmware's library; in
  the models they are the jumps of `Raise` and `NlrJump`.  That `setjmp` is itself
  a function whose frame is gone when the jump comes back is a matter of the
  compiler, below the models.  `mp_hal_ticks_cpu` returns the counter as it is.
- What happens after a NULL heap is used: a model can only say that nothing is
  known.

What could be added: `GcRoots` composed with `Payload`, with the heap's objects in
the blocks the loader granted.
