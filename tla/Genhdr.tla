------------------------------- MODULE Genhdr -------------------------------
(***************************************************************************)
(* Tools/genhdr.py: the generator of the three headers MicroPython is      *)
(* compiled with.  A run collects, for every source of the INF, the qstr,  *)
(* module and root pointer macros into one split file per source and kind, *)
(* concatenates the split files of each kind, and generates a header from  *)
(* the result.  It works on files that outlive it: a run may stop in any   *)
(* step, by the failure of a tool or from outside, and the next run finds  *)
(* what it left.                                                           *)
(*                                                                         *)
(* A set of macros is represented by the set of sources they come from.    *)
(* The compiler and MicroPython's scripts (makeqstrdefs, makeqstrdata,     *)
(* makemoduledefs, make_root_pointers) are external.                       *)
(***************************************************************************)
EXTENDS Integers, Sequences

CONSTANTS
  Srcs,       \* source files
  SrcFiles,   \* src_files: the C files of the INF, in order
  Macros      \* the kinds of macros a source may have: sets of kinds

Kinds == {"qstr", "module", "root_pointer"}

ASSUME SrcFilesAssumption ==
  /\ SrcFiles \in Seq(Srcs) /\ SrcFiles # <<>>
  /\ \A s \in Srcs : \E i \in DOMAIN SrcFiles : SrcFiles[i] = s

ASSUME MacrosAssumption == Macros \subseteq SUBSET Kinds

(* Each source may change by itself. *)
Trees == [Srcs -> Macros]

VARIABLES
  tree,       \* the kinds of macros in each source
  split,      \* genhdr/<kind>: the sources that have a split file there
  collected,  \* the file the split files of the kind at hand went to
  header,     \* the macros in the generated header of each kind
  whole,      \* the kinds whose header a generator has written in full
  run,        \* "none", "running", "ok", or "failed": the last run
  stage,      \* the step the run is in, or ended in
  idx,        \* the source it is at
  before,     \* history: run, as the run before left it
  swept,      \* history: clear_tree met no error
  unnoticed   \* history: a generator failed and the run went on

vars == <<tree, split, collected, header, whole, run, stage, idx,
          before, swept, unnoticed>>
history == <<before, swept, unnoticed>>
headers == <<header, whole>>
files == <<split, collected, headers>>

Running(at) == run = "running" /\ stage = at

Init ==
  /\ tree \in Trees
  /\ split = [k \in Kinds |-> {}]
  /\ collected = {}
  /\ header = [k \in Kinds |-> {}] /\ whole = {}
  /\ run = "none" /\ stage = "version" /\ idx = 1
  /\ before = "none" /\ swept = TRUE /\ unnoticed = FALSE

(* A header that was only opened for writing. *)
Truncate(kind) ==
  /\ header' = [header EXCEPT ![kind] = {}]
  /\ whole' = whole \ {kind}

(* Sources change between runs. *)
Edit ==
  /\ run # "running"
  /\ tree' \in Trees
  /\ UNCHANGED <<files, run, stage, idx, history>>

(* The tools are there, and the INF has been read. *)
Start ==
  /\ run # "running"
  /\ run' = "running" /\ stage' = "version" /\ idx' = 1
  /\ before' = run /\ swept' = TRUE /\ unnoticed' = FALSE
  /\ UNCHANGED <<tree, files>>

(* python or the preprocessor is missing, or the build environment, or the *)
(* INF: the script ends before it has touched a file.                      *)
NotReady ==
  /\ run # "running"
  /\ run' = "failed" /\ stage' = "version" /\ idx' = 1
  /\ before' = run /\ swept' = TRUE /\ unnoticed' = FALSE
  /\ UNCHANGED <<tree, files>>

(* A tool failed (check_call raised), or the run was stopped. *)
Fail == run' = "failed" /\ UNCHANGED <<tree, stage, idx, history>>

-----------------------------------------------------------------------------
GenVersion ==
  /\ Running("version")
  /\ \/ stage' = "clear" /\ UNCHANGED <<tree, files, run, idx, history>>
     \/ Fail /\ UNCHANGED files

(* Some of a kind's split files, none, or all.                             *)
SomeRemoved(kind) ==
  \E left \in SUBSET split[kind] : split' = [split EXCEPT ![kind] = left]

(* rmtree stops at the first file it cannot remove, and nobody is told. *)
BugNoClear == UNCHANGED split /\ swept' = TRUE

ClearTree ==
  \/ split' = [split EXCEPT !["qstr"] = {}] /\ UNCHANGED swept
  \/ /\ \E left \in SUBSET split["qstr"] \ {{}} :
          split' = [split EXCEPT !["qstr"] = left]
     /\ swept' = FALSE

BugKeepQstrHeader ==
  /\ Running("clear")
  /\ \/ stage' = "preprocess" /\ UNCHANGED <<tree, collected, headers, run, idx,
                                             before, unnoticed>>
        /\ ClearTree
     \/ Fail /\ UNCHANGED files

(* clear_file, then clear_tree on the qstr directory.  The directories of  *)
(* the other kinds are left as they are.                                   *)
Clear ==
  /\ Running("clear")
  /\ \/ /\ stage' = "preprocess"
        /\ Truncate("qstr")
        /\ ClearTree
        /\ UNCHANGED <<tree, collected, run, idx, before, unnoticed>>
     \/ /\ Fail
        /\ \/ Truncate("qstr") /\ SomeRemoved("qstr")
           \/ UNCHANGED <<headers, split>>
        /\ UNCHANGED collected

Preprocess ==
  /\ Running("preprocess")
  /\ \/ stage' = "collect_qstr" /\ UNCHANGED <<tree, files, run, idx, history>>
     \/ Fail /\ UNCHANGED files

(* makeqstrdefs split: no macros, no file. *)
Split(kind) ==
  split' = IF kind \in tree[SrcFiles[idx]]
           THEN [split EXCEPT ![kind] = @ \cup {SrcFiles[idx]}]
           ELSE split

CollectQstr ==
  /\ Running("collect_qstr")
  /\ \/ /\ Split("qstr") /\ stage' = "collect_module"
        /\ UNCHANGED <<tree, collected, headers, run, idx, history>>
     \/ Fail /\ UNCHANGED files

CollectModules ==
  /\ Running("collect_module")
  /\ \/ /\ Split("module") /\ stage' = "collect_root_pointer"
        /\ UNCHANGED <<tree, collected, headers, run, idx, history>>
     \/ Fail /\ UNCHANGED files

BugSkipLast(i) == IF i + 1 < Len(SrcFiles) THEN "preprocess" ELSE "cat_qstr"

BugOneMore(i) == IF i <= Len(SrcFiles) THEN "preprocess" ELSE "cat_qstr"

AfterSource(i) == IF i < Len(SrcFiles) THEN "preprocess" ELSE "cat_qstr"

(* The last step of a source: on to the next, or out of the loop. *)
CollectRootPointers ==
  /\ Running("collect_root_pointer")
  /\ \/ /\ Split("root_pointer")
        /\ stage' = AfterSource(idx) /\ idx' = idx + 1
        /\ UNCHANGED <<tree, collected, headers, run, history>>
     \/ Fail /\ UNCHANGED files

-----------------------------------------------------------------------------
BugNoWipe(kind) ==
  collected' = split[kind] /\ UNCHANGED split

(* makeqstrdefs cat; then every split file of the kind is removed. *)
CatAndWipe(kind) ==
  /\ collected' = split[kind]
  /\ split' = [split EXCEPT ![kind] = {}]

(* Stopped on the way, with some split files removed or none.  What was    *)
(* concatenated is overwritten before it is read again.                    *)
CatStopped(kind) ==
  /\ SomeRemoved(kind)
  /\ collected' = {}

Cat(kind, next) ==
  /\ \/ /\ CatAndWipe(kind) /\ stage' = next
        /\ UNCHANGED <<tree, run, idx, history>>
     \/ Fail /\ CatStopped(kind)
  /\ UNCHANGED headers

CatQstr         == Running("cat_qstr") /\ Cat("qstr", "gen_qstr")
CatModule       == Running("cat_module") /\ Cat("module", "gen_module")
CatRootPointers == Running("cat_root") /\ Cat("root_pointer", "gen_root")

(* A whole header, from what was collected; the collected file is removed. *)
Generate(kind) ==
  /\ header' = [header EXCEPT ![kind] = collected]
  /\ whole' = whole \cup {kind}
  /\ collected' = {}

(* The header was opened for writing, or not yet.  A failure to remove the *)
(* collected file afterwards counts as one of the step that follows.       *)
GenStopped(kind) ==
  /\ Truncate(kind) \/ UNCHANGED headers
  /\ collected' = {}

(* The preprocessor and makeqstrdata are checked. *)
GenQstr ==
  /\ Running("gen_qstr")
  /\ \/ /\ Generate("qstr") /\ stage' = "cat_module"
        /\ UNCHANGED <<tree, run, idx, history>>
     \/ Fail /\ GenStopped("qstr")
  /\ UNCHANGED split

(* The exit status of makemoduledefs and make_root_pointers is not looked  *)
(* at: what they printed before they failed becomes the header.            *)
GenerateUnchecked(kind) ==
  \/ Generate(kind) /\ UNCHANGED unnoticed
  \/ /\ Truncate(kind)
     /\ collected' = {}
     /\ unnoticed' = TRUE

GenModule ==
  /\ Running("gen_module")
  /\ \/ /\ GenerateUnchecked("module") /\ stage' = "cat_root"
        /\ UNCHANGED <<tree, run, idx, before, swept>>
     \/ Fail /\ GenStopped("module")
  /\ UNCHANGED split

(* The last step: with the header written, the run may yet fail to remove  *)
(* the collected file.                                                     *)
GenRootPointers ==
  /\ Running("gen_root")
  /\ \/ /\ GenerateUnchecked("root_pointer") /\ run' = "ok"
        /\ UNCHANGED <<tree, stage, idx, before, swept>>
     \/ Fail /\ GenStopped("root_pointer")
     \/ Fail /\ Generate("root_pointer")
  /\ UNCHANGED split

-----------------------------------------------------------------------------
Collecting == Preprocess \/ CollectQstr \/ CollectModules \/ CollectRootPointers
Generating == CatQstr \/ GenQstr \/ CatModule \/ GenModule
                \/ CatRootPointers \/ GenRootPointers
Step == GenVersion \/ Clear \/ Collecting \/ Generating

Next == Edit \/ Start \/ NotReady \/ Step

Spec == Init /\ [][Next]_vars
-----------------------------------------------------------------------------
(* Properties *)

Stages == {"version", "clear", "preprocess", "collect_qstr", "collect_module",
           "collect_root_pointer", "cat_qstr", "gen_qstr", "cat_module",
           "gen_module", "cat_root", "gen_root"}
SourceStages == {"preprocess", "collect_qstr", "collect_module",
                 "collect_root_pointer"}
QstrPendingStages == SourceStages \cup {"cat_qstr", "gen_qstr"}

(* The value every variable may have. *)
TypeOK ==
  /\ tree \in Trees
  /\ split \in [Kinds -> SUBSET Srcs] /\ collected \subseteq Srcs
  /\ header \in [Kinds -> SUBSET Srcs] /\ whole \subseteq Kinds
  /\ run \in {"none", "running", "ok", "failed"} /\ stage \in Stages
  /\ idx \in 1 .. (Len(SrcFiles) + 1)
  /\ stage \in SourceStages => idx \in DOMAIN SrcFiles
  /\ before \in {"none", "ok", "failed"} /\ swept \in BOOLEAN
  /\ unnoticed \in BOOLEAN

(* What a header of a kind has to hold. *)
Expected(kind) == {s \in Srcs : kind \in tree[s]}

Succeeds == run = "running" /\ run' = "ok"

(* However many runs have failed, and wherever, a run that succeeds leaves *)
(* a qstr header of the sources as they are: no string of a source that    *)
(* has lost it since, none missing.  The one exception is a directory that *)
(* could not be emptied (genhdr.py:274-278, 174-176).                      *)
QstrFresh ==
  [][Succeeds /\ swept =>
       "qstr" \in whole' /\ header'["qstr"] = Expected("qstr")]_vars

(* A run that succeeds leaves no macro out of any header, except by a      *)
(* generator whose failure it did not notice (genhdr.py:55,80).            *)
NothingMissing ==
  [][Succeeds => \A k \in Kinds :
       IF k \in whole' THEN Expected(k) \subseteq header'[k]
                       ELSE k # "qstr" /\ unnoticed']_vars

(* Module and root pointer macros of a run that failed can turn up once    *)
(* more, in the next run that succeeds, and not in the one after it:       *)
(* a run after a successful one is exact (genhdr.py:48-49, 73-74).         *)
CleanAfterSuccess ==
  [][Succeeds /\ before # "failed" =>
       \A k \in whole' : header'[k] = Expected(k)]_vars

(* From clear_file until gen_qstr has run to its end there is no complete  *)
(* qstr header, nor is there one when the run ended in between: the        *)
(* compiler cannot take the strings of an older tree (genhdr.py:274,131).  *)
QstrGate == stage \in QstrPendingStages => "qstr" \notin whole

(* What a compiler that looks between two steps may rely on, in one        *)
(* specification: headers are unfinished or were written from the sources, *)
(* in runs that may stop anywhere (genhdr.py:272-294).                     *)
Left ==
  {k \in Kinds :
     /\ run # "ok"
     /\ k = "module" => stage \notin {"cat_root", "gen_root"}
     /\ k = "qstr" => stage \in {"version", "clear"} \cup QstrPendingStages}
Leftovers == {k \in Kinds : IF k = "qstr" THEN ~swept ELSE before = "failed"}
Store == INSTANCE HeaderStore WITH left <- Left, dirty <- Leftovers
KeepsHeaders == Store!Spec
=============================================================================
