--------------------------- MODULE MpyBuildProofs ---------------------------
(***************************************************************************)
(* What the loader's build finds in the generated headers, after any       *)
(* sequence of edits, builds, cleans and preparations, for every set of    *)
(* sources: see MpyBuild.  The invariant of genhdr.py, in GenhdrProofs,    *)
(* holds of the runs the build starts, too: a directory that is not at     *)
(* hand is left as genhdr.py's runs leave theirs.                          *)
(***************************************************************************)
EXTENDS MpyBuild, GenhdrProofs

(* A directory without a run: split files are those of a failed one.       *)
FilesOK(f) ==
  /\ f \in FilesType
  /\ f.run # "failed" => \A k \in Kinds : f.split[k] = {}

(* The copy is at hand only from its making to the end of the build, and   *)
(* holds the repository's sources.                                         *)
Copied ==
  dir = "copy" => /\ phase \in {"genhdr_start", "genhdr", "loader"}
                  /\ aside.tree = tree

(* From the start of genhdr.py to the end of the loader's build, the qstr  *)
(* header is as genhdr.py has left it.                                     *)
Ended ==
  phase \in {"genhdr", "loader"} =>
    /\ run # "none"
    /\ run = "ok" => stage = "gen_root"
    /\ Strings

(* What a genhdr.py that succeeded has put into the headers is still there *)
(* when the loader is built.                                               *)
HeadersDone ==
  \A k \in Kinds :
    IF k \in whole
    THEN /\ Expected(k) \subseteq header[k]
         /\ before # "failed" => header[k] = Expected(k)
    ELSE k # "qstr" /\ unnoticed

Complete == phase \in {"genhdr", "loader"} /\ run = "ok" => HeadersDone

BInv ==
  /\ IInv /\ BuildTypeOK /\ FilesOK(aside)
  /\ Copied /\ Ended /\ Complete

(* So the sources are always those at hand. *)
LEMMA SourcesAtHand == BInv => Sources = tree
  BY DEF BInv, BuildTypeOK, Copied, Sources

-----------------------------------------------------------------------------
(* Directories without a run                                               *)

LEMMA FilesFine ==
  ASSUME IInv, run # "running"
  PROVE  FilesOK(Files)
<1>1. Files \in FilesType
  BY DEF IInv, TypeOK, Files, FilesType
<1> QED
  BY <1>1 DEF IInv, TypeOK, Wiped, Files, FilesOK

(* Opening a directory is fit for genhdr.py. *)
LEMMA OpenKeeps ==
  ASSUME NEW f, FilesOK(f), Open(f)
  PROVE  IInv' /\ run' = f.run /\ run' # "running" /\ tree' = f.tree
<1>1. /\ f.tree \in Trees /\ f.split \in [Kinds -> SUBSET Srcs]
      /\ f.header \in [Kinds -> SUBSET Srcs] /\ f.whole \subseteq Kinds
      /\ f.run \in {"none", "ok", "failed"}
  BY DEF FilesOK, FilesType
<1>2. /\ tree' = f.tree /\ split' = f.split /\ collected' = {}
      /\ header' = f.header /\ whole' = f.whole
      /\ run' = f.run /\ stage' = "version" /\ idx' = 1
      /\ before' = "none" /\ swept' = TRUE /\ unnoticed' = FALSE
  BY DEF Open
<1>3. TypeOK'
  BY <1>1, <1>2, FirstIndex DEF TypeOK, Stages, SourceStages
<1>4. QstrGate'
  BY <1>2 DEF QstrGate, QstrPendingStages, SourceStages
<1>5. Wiped'
  BY <1>1, <1>2 DEF Wiped, FilesOK
<1> QED
  BY <1>1, <1>2, <1>3, <1>4, <1>5 DEF IInv

LEMMA OverwrittenFine ==
  ASSUME IInv, run # "running", FilesOK(aside), NEW sources, NEW taken,
         NEW opened \in SUBSET Kinds, NEW finished
  PROVE  /\ FilesOK(Overwritten(sources, taken, opened, finished))
         /\ FilesOK([Overwritten(sources, taken, opened, finished)
                       EXCEPT !.run = "failed"])
<1> DEFINE t == [s \in Srcs |-> IF s \in sources THEN tree[s] ELSE aside.tree[s]]
           p == [k \in Kinds |->
                   aside.split[k] \cup {s \in split[k] : <<k, s>> \in taken}]
           h == [k \in Kinds |-> IF k \notin opened THEN aside.header[k]
                                 ELSE IF k \in finished THEN header[k] ELSE {}]
           w == (aside.whole \ opened) \cup (whole \cap finished)
           r == IF run = "failed" THEN "failed" ELSE aside.run
<1>1. /\ aside.tree \in Trees /\ aside.split \in [Kinds -> SUBSET Srcs]
      /\ aside.header \in [Kinds -> SUBSET Srcs] /\ aside.whole \subseteq Kinds
      /\ aside.run \in {"none", "ok", "failed"}
  BY DEF FilesOK, FilesType
<1>2. /\ tree \in Trees /\ split \in [Kinds -> SUBSET Srcs]
      /\ header \in [Kinds -> SUBSET Srcs] /\ whole \subseteq Kinds
  BY DEF IInv, TypeOK
<1>3. t \in Trees
  BY <1>1, <1>2 DEF Trees
<1>4. p \in [Kinds -> SUBSET Srcs]
  BY <1>1, <1>2
<1>5. h \in [Kinds -> SUBSET Srcs]
  BY <1>1, <1>2
<1>6. w \in SUBSET Kinds /\ r \in {"none", "ok", "failed"}
  BY <1>1, <1>2
<1>7. r # "failed" => \A k \in Kinds : p[k] = {}
  BY DEF IInv, TypeOK, Wiped, FilesOK
<1> HIDE DEF t, p, h, w, r
<1>8. Overwritten(sources, taken, opened, finished) =
        [tree |-> t, split |-> p, header |-> h, whole |-> w, run |-> r]
  BY DEF Overwritten, t, p, h, w, r
<1> QED
  BY <1>3, <1>4, <1>5, <1>6, <1>7, <1>8 DEF FilesOK, FilesType

LEMMA CleanedFine ==
  ASSUME NEW f, FilesOK(f), NEW kept
  PROVE  FilesOK(Cleaned(f, kept))
<1> DEFINE p == [k \in Kinds |-> IF k \in kept THEN f.split[k] ELSE {}]
           h == [k \in Kinds |-> IF k \in kept THEN f.header[k] ELSE {}]
<1>1. p \in [Kinds -> SUBSET Srcs] /\ h \in [Kinds -> SUBSET Srcs]
      /\ f.whole \cap kept \in SUBSET Kinds
  BY DEF FilesOK, FilesType
<1>2. f.run # "failed" => \A k \in Kinds : p[k] = {}
  BY DEF FilesOK
<1>3. f \in FilesType
  BY DEF FilesOK
<1> HIDE DEF p, h
<1>4. Cleaned(f, kept) = [f EXCEPT !.split = p, !.header = h,
                                   !.whole = f.whole \cap kept]
  BY DEF Cleaned, p, h
<1> QED
  BY <1>1, <1>2, <1>3, <1>4 DEF FilesOK, FilesType

-----------------------------------------------------------------------------
(* The steps of the build                                                  *)

(* Steps that leave the generator's files alone.                           *)
LEMMA GeneratorKeeps ==
  ASSUME IInv, UNCHANGED vars
  PROVE  /\ IInv'
         /\ UNCHANGED <<tree, split, collected, header, whole, run, stage, idx,
                        before, swept, unnoticed>>
         /\ Strings' <=> Strings
         /\ HeadersDone' <=> HeadersDone
<1>1. UNCHANGED <<tree, split, collected, header, whole, run, stage, idx,
                  before, swept, unnoticed>>
  BY DEF vars
<1>2. UNCHANGED vars
  BY <1>1 DEF vars
<1>3. IInv'
  BY <1>2, StepIInv
<1>4. Strings' <=> Strings
  BY <1>1 DEF Strings, Expected
<1>5. HeadersDone' <=> HeadersDone
  BY <1>1 DEF HeadersDone, Expected
<1> QED
  BY <1>1, <1>3, <1>4, <1>5

LEMMA InitBInv == BuildInit => BInv
<1> SUFFICES ASSUME BuildInit PROVE BInv
  OBVIOUS
<1>1. Init /\ phase = "idle" /\ dir = "repository" /\ aside = Files
  BY DEF BuildInit
<1>2. IInv /\ run = "none"
  BY <1>1, InitIInv DEF Init
<1>3. FilesOK(aside)
  BY <1>1, <1>2, FilesFine
<1>4. BuildTypeOK
  BY <1>1, <1>2, <1>3 DEF BuildInit, BuildTypeOK, Phases, IInv, FilesOK
<1>5. Copied /\ Ended /\ Complete
  BY <1>1 DEF Copied, Ended, Complete
<1> QED
  BY <1>2, <1>3, <1>4, <1>5 DEF BInv

(* The steps before genhdr.py and after it. *)
LEMMA QuietKeeps ==
  ASSUME BInv,
         \/ CmdBuild \/ FetchSubmodule \/ CloneLoader \/ VerifyToolchains
         \/ StartLoaderBuild
  PROVE  BInv'
<1>1. UNCHANGED vars /\ UNCHANGED <<dir, aside, inTree>>
  BY DEF CmdBuild, FetchSubmodule, CloneLoader, VerifyToolchains,
         StartLoaderBuild, place, given
<1>2. /\ phase' \in Phases /\ loader' \in BOOLEAN
      /\ submodule' \in {"empty", "old", "current"}
      /\ run = "running" => phase' \in {"genhdr", "prep"}
      /\ phase' \in {"genhdr", "loader"} => phase = "genhdr" /\ phase' = "loader"
      /\ phase \in {"genhdr_start", "genhdr", "loader"} => phase' = "loader"
  BY DEF CmdBuild, FetchSubmodule, CloneLoader, VerifyToolchains,
         StartLoaderBuild, given, GenhdrEnded, BInv, BuildTypeOK, Phases
<1>3. /\ IInv' /\ (Strings' <=> Strings) /\ (HeadersDone' <=> HeadersDone)
      /\ UNCHANGED <<tree, run, stage>>
  BY <1>1, GeneratorKeeps DEF BInv
<1>4. TypeOK'
  BY <1>3 DEF IInv
<1>5. FilesOK(aside)'
  BY <1>1 DEF BInv, FilesOK, FilesType, Trees
<1>6. BuildTypeOK' /\ Copied' /\ Ended' /\ Complete'
  BY <1>1, <1>2, <1>3, <1>4 DEF BInv, BuildTypeOK, Copied, Ended, Complete,
                                FilesType, Trees
<1> QED
  BY <1>3, <1>5, <1>6 DEF BInv

(* A command that ends leaves both directories without a run.              *)
LEMMA ReturnKeeps ==
  ASSUME BInv, run # "running", Return, UNCHANGED given
  PROVE  BInv'
<1>1. /\ phase' = "idle" /\ dir' = "repository"
      /\ UNCHANGED <<inTree, submodule, loader>>
  BY DEF Return, given
<1>2. PICK f : FilesOK(f) /\ Open(f) /\ (aside' = aside \/ aside' = Files)
  BY FilesFine DEF Return, BInv
<1>3. IInv' /\ run' # "running"
  BY <1>2, OpenKeeps
<1>4. FilesOK(aside')
  BY <1>2, FilesFine DEF BInv
<1>5. FilesOK(aside)'
  BY <1>4 DEF FilesOK, FilesType, Trees
<1>6. TypeOK' /\ aside' \in FilesType
  BY <1>3, <1>4 DEF IInv, FilesOK
<1>7. BuildTypeOK' /\ Copied' /\ Ended' /\ Complete'
  BY <1>1, <1>3, <1>6 DEF BInv, BuildTypeOK, Copied, Ended, Complete, Phases,
                          FilesType, Trees
<1> QED
  BY <1>3, <1>5, <1>7 DEF BInv

(* The sources change while genhdr.py does not run.                        *)
LEMMA EditBKeeps == BInv /\ EditSources => BInv'
<1> SUFFICES ASSUME BInv, EditSources PROVE BInv'
  OBVIOUS
<1>1. /\ phase = "idle" /\ phase' = "idle" /\ run # "running" /\ Edit
      /\ UNCHANGED <<dir, aside, inTree, loader>>
  BY DEF EditSources, place, Edit
<1>2. submodule' \in {"empty", "old", "current"}
  BY DEF EditSources, BInv, BuildTypeOK
<1>3. IInv' /\ TypeOK' /\ run' = run
  BY <1>1, EditKeeps DEF BInv, IInv, Edit
<1>4. FilesOK(aside)'
  BY <1>1 DEF BInv, FilesOK, FilesType, Trees
<1>5. BuildTypeOK' /\ Copied' /\ Ended' /\ Complete'
  BY <1>1, <1>2, <1>3 DEF BInv, BuildTypeOK, Copied, Ended, Complete,
                          FilesType, Trees
<1> QED
  BY <1>3, <1>4, <1>5 DEF BInv

LEMMA PrepMpyKeeps == BInv /\ PrepMpy => BInv'
<1> SUFFICES ASSUME BInv, PrepMpy PROVE BInv'
  OBVIOUS
<1>1. /\ phase = "copy" /\ run # "running" /\ dir = "repository"
      /\ UNCHANGED <<inTree, submodule, loader>>
  BY DEF PrepMpy, given, BInv, BuildTypeOK, Copied
<1>2. CASE CopyTree /\ phase' = "genhdr_start"
  <2>1. dir' = "copy" /\ aside' = Files
    BY <1>2 DEF CopyTree
  <2>2. PICK there \in HeaderFiles : Open(Overwritten(Srcs, SplitFiles, there, there))
    BY <1>2 DEF CopyTree
  <2>3. there \in SUBSET Kinds
    BY DEF HeaderFiles
  <2>4. FilesOK(Overwritten(Srcs, SplitFiles, there, there))
    BY <1>1, <2>3, OverwrittenFine DEF BInv
  <2>5. IInv' /\ run' # "running"
        /\ tree' = Overwritten(Srcs, SplitFiles, there, there).tree
    BY <2>2, <2>4, OpenKeeps
  <2>6. Overwritten(Srcs, SplitFiles, there, there).tree = tree
    BY DEF Overwritten, BInv, IInv, TypeOK, Trees
  <2>7. aside'.tree = tree'
    BY <2>1, <2>5, <2>6 DEF Files
  <2>8. FilesOK(aside')
    BY <1>1, <2>1, FilesFine DEF BInv
  <2>9. FilesOK(aside)'
    BY <2>8 DEF FilesOK, FilesType, Trees
  <2>10. TypeOK' /\ aside' \in FilesType
    BY <2>5, <2>8 DEF IInv, FilesOK
  <2>11. BuildTypeOK' /\ Copied' /\ Ended' /\ Complete'
    BY <1>1, <1>2, <2>1, <2>5, <2>7, <2>10
       DEF BInv, BuildTypeOK, Copied, Ended, Complete, Phases, FilesType, Trees
  <2> QED
    BY <2>5, <2>9, <2>11 DEF BInv
<1>3. CASE phase' = "genhdr_start" /\ UNCHANGED <<vars, place>>
  <2>1. UNCHANGED vars /\ UNCHANGED <<dir, aside>>
    BY <1>3 DEF place
  <2>2. IInv' /\ UNCHANGED <<tree, run, stage>>
    BY <2>1, GeneratorKeeps DEF BInv
  <2>3. FilesOK(aside)' /\ TypeOK'
    BY <2>1, <2>2 DEF BInv, FilesOK, FilesType, Trees, IInv
  <2>4. BuildTypeOK' /\ Copied' /\ Ended' /\ Complete'
    BY <1>1, <1>3, <2>1, <2>2, <2>3
       DEF BInv, BuildTypeOK, Copied, Ended, Complete, Phases, FilesType, Trees
  <2> QED
    BY <2>2, <2>3, <2>4 DEF BInv
<1>4. CASE CopyStopped /\ phase' = "idle"
  <2>1. UNCHANGED vars /\ dir' = dir
    BY <1>4 DEF CopyStopped
  <2>2. FilesOK(aside')
    <3>1. PICK sources \in SUBSET Srcs, taken \in SUBSET SplitFiles,
               opened \in UNION {SUBSET there : there \in HeaderFiles} :
            \E finished \in SUBSET opened :
              aside' = [Overwritten(sources, taken, opened, finished)
                          EXCEPT !.run = "failed"]
      BY <1>4 DEF CopyStopped
    <3>2. opened \in SUBSET Kinds
      BY DEF HeaderFiles
    <3> QED
      BY <1>1, <3>1, <3>2, OverwrittenFine DEF BInv
  <2>3. IInv' /\ UNCHANGED <<tree, run, stage>>
    BY <2>1, GeneratorKeeps DEF BInv
  <2>4. FilesOK(aside)'
    BY <2>2 DEF FilesOK, FilesType, Trees
  <2>5. TypeOK' /\ aside' \in FilesType
    BY <2>2, <2>3 DEF IInv, FilesOK
  <2>6. BuildTypeOK' /\ Copied' /\ Ended' /\ Complete'
    BY <1>1, <1>4, <2>1, <2>3, <2>5
       DEF BInv, BuildTypeOK, Copied, Ended, Complete, Phases, FilesType, Trees
  <2> QED
    BY <2>3, <2>4, <2>6 DEF BInv
<1> QED
  BY <1>2, <1>3, <1>4 DEF PrepMpy

(* Either script starts genhdr.py, or finds that it cannot.                *)
LEMMA StartBKeeps == BInv /\ (StartGenhdr \/ Prep) => BInv'
<1> SUFFICES ASSUME BInv, StartGenhdr \/ Prep PROVE BInv'
  OBVIOUS
<1>1. /\ Start \/ NotReady
      /\ UNCHANGED <<dir, aside, inTree, submodule, loader>>
      /\ \/ phase = "genhdr_start" /\ phase' = "genhdr"
         \/ phase = "idle" /\ phase' = "prep"
  BY DEF StartGenhdr, Prep, RunGenhdr, place, given
<1>2. /\ tree' = tree /\ stage' = "version" /\ run' \in {"running", "failed"}
  BY <1>1 DEF Start, NotReady
<1>3. IInv'
  BY <1>1, StartKeeps, NotReadyKeeps DEF BInv
<1>4. Strings'
  BY <1>2 DEF Strings, AfterGen, BeforeCat, AtGen, Early
<1>5. TypeOK' /\ FilesOK(aside)'
  BY <1>1, <1>3 DEF IInv, BInv, FilesOK, FilesType, Trees
<1>6. BuildTypeOK' /\ Copied' /\ Ended' /\ Complete'
  BY <1>1, <1>2, <1>4, <1>5 DEF BInv, BuildTypeOK, Copied, Ended, Complete,
                                Phases, FilesType, Trees
<1> QED
  BY <1>3, <1>5, <1>6 DEF BInv

LEMMA GenhdrStepKeeps == BInv /\ GenhdrStep => BInv'
<1> SUFFICES ASSUME BInv, GenhdrStep PROVE BInv'
  OBVIOUS
<1>1. /\ Step /\ phase \in {"genhdr", "prep"}
      /\ UNCHANGED <<phase, dir, aside, inTree, submodule, loader>>
  BY DEF GenhdrStep, place, given
<1>2. run = "running"
  BY <1>1 DEF Step, Collecting, Generating, GenVersion, Clear, Preprocess,
              CollectQstr, CollectModules, CollectRootPointers, CatQstr, GenQstr,
              CatModule, GenModule, CatRootPointers, GenRootPointers, Running
<1>3. IInv' /\ Strings'
  BY <1>1, <1>2, StepIInv, StepStrings DEF BInv, Next
<1>4. /\ tree' = tree /\ run' \in {"running", "ok", "failed"}
      /\ run' = "ok" => stage' = "gen_root"
  BY <1>1, <1>2, StepEnds DEF BInv
<1>5. TypeOK' /\ FilesOK(aside)'
  BY <1>1, <1>3 DEF IInv, BInv, FilesOK, FilesType, Trees
<1>6. BuildTypeOK' /\ Copied' /\ Ended'
  BY <1>1, <1>3, <1>4, <1>5 DEF BInv, BuildTypeOK, Copied, Ended, FilesType, Trees
<1>7. ASSUME run' = "ok"
       PROVE  HeadersDone'
  <2>1. Succeeds /\ Next
    BY <1>1, <1>2, <1>7 DEF Succeeds, Next
  <2>2. UNCHANGED <<tree, before>>
    BY <2>1, SuccessHolds DEF BInv
  <2>3. ASSUME NEW k \in Kinds
        PROVE  IF k \in whole'
               THEN /\ Expected(k) \subseteq header'[k]
                    /\ before # "failed" => header'[k] = Expected(k)
               ELSE k # "qstr" /\ unnoticed'
    BY <2>1, SuccessHolds DEF BInv, Clean
  <2>4. \A k \in Kinds : Expected(k)' = Expected(k)
    BY <2>2 DEF Expected
  <2> QED
    BY <2>2, <2>3, <2>4 DEF HeadersDone
<1>8. Complete'
  BY <1>7 DEF Complete
<1> QED
  BY <1>3, <1>5, <1>6, <1>8 DEF BInv

(* What a clean removes was a leftover, or comes back before it is used.   *)
LEMMA CmdCleanKeeps == BInv /\ CmdClean => BInv'
<1> SUFFICES ASSUME BInv, CmdClean PROVE BInv'
  OBVIOUS
<1>1. /\ phase = "idle" /\ phase' = "idle" /\ loader' \in BOOLEAN
      /\ UNCHANGED vars /\ UNCHANGED <<dir, inTree, submodule>>
  BY DEF CmdClean
<1>2. FilesOK(aside')
  BY CleanedFine DEF CmdClean, BInv
<1>3. IInv' /\ UNCHANGED <<tree, run, stage>>
  BY <1>1, GeneratorKeeps DEF BInv
<1>4. FilesOK(aside)'
  BY <1>2 DEF FilesOK, FilesType, Trees
<1>5. TypeOK' /\ aside' \in FilesType
  BY <1>2, <1>3 DEF IInv, FilesOK
<1>6. BuildTypeOK' /\ Copied' /\ Ended' /\ Complete'
  BY <1>1, <1>3, <1>5 DEF BInv, BuildTypeOK, Copied, Ended, Complete,
                          FilesType, Trees
<1> QED
  BY <1>3, <1>4, <1>6 DEF BInv

LEMMA StepBInv == BInv /\ [BuildNext]_buildVars => BInv'
<1> SUFFICES ASSUME BInv, [BuildNext]_buildVars PROVE BInv'
  OBVIOUS
<1>1. CASE EditSources
  BY <1>1, EditBKeeps
<1>2. CASE LoaderBuildEnds \/ PrepEnds
  <2>1. run # "running"
    BY <1>2 DEF LoaderBuildEnds, PrepEnds, GenhdrEnded, BInv, BuildTypeOK
  <2> QED
    BY <1>2, <2>1, ReturnKeeps DEF LoaderBuildEnds, PrepEnds
<1>3. CASE Build /\ ~LoaderBuildEnds
  BY <1>3, QuietKeeps, PrepMpyKeeps, StartBKeeps DEF Build
<1>4. CASE GenhdrStep
  BY <1>4, GenhdrStepKeeps
<1>5. CASE CmdClean
  BY <1>5, CmdCleanKeeps
<1>6. CASE Prep
  BY <1>6, StartBKeeps
<1>7. CASE UNCHANGED buildVars
  <2>1. UNCHANGED vars /\ UNCHANGED <<phase, dir, aside, inTree, submodule, loader>>
    BY <1>7 DEF buildVars, place, given
  <2>2. /\ IInv' /\ (Strings' <=> Strings) /\ (HeadersDone' <=> HeadersDone)
        /\ UNCHANGED <<tree, run, stage>>
    BY <2>1, GeneratorKeeps DEF BInv
  <2>3. TypeOK' /\ FilesOK(aside)'
    BY <2>1, <2>2 DEF IInv, BInv, FilesOK, FilesType, Trees
  <2>4. BuildTypeOK' /\ Copied' /\ Ended' /\ Complete'
    BY <2>1, <2>2, <2>3 DEF BInv, BuildTypeOK, Copied, Ended, Complete,
                            FilesType, Trees
  <2> QED
    BY <2>2, <2>3, <2>4 DEF BInv
<1> QED
  BY <1>1, <1>2, <1>3, <1>4, <1>5, <1>6, <1>7 DEF BuildNext, Build

-----------------------------------------------------------------------------
(* The inductive invariant of the build. *)
THEOREM BuildInvariant == BuildSpec => []BInv
  BY InitBInv, StepBInv, PTL DEF BuildSpec

(* Every variable keeps its type. *)
THEOREM BuildTypeCorrect == BuildSpec => []BuildTypeOK
<1>1. BInv => BuildTypeOK
  BY DEF BInv
<1> QED
  BY <1>1, BuildInvariant, PTL

(* A loader build that follows a successful genhdr.py sees the strings of  *)
(* the repository's sources, whatever was built, cleaned or edited before. *)
THEOREM SourcesSeen == BuildSpec => []LoaderSeesSources
<1>1. BInv => LoaderSeesSources
  <2> SUFFICES ASSUME BInv, phase = "loader", run = "ok", swept
               PROVE  "qstr" \in whole /\ header["qstr"] = SourcesWith("qstr")
    BY DEF LoaderSeesSources
  <2>1. Sources = tree /\ stage = "gen_root" /\ Strings
    BY SourcesAtHand DEF BInv, Ended
  <2>2. stage \in AfterGen("qstr")
    BY <2>1 DEF AfterGen, Stages, BeforeCat, AtGen, Early, SourceStages
  <2> QED
    BY <2>1, <2>2 DEF Strings, Expected, SourcesWith
<1> QED
  BY <1>1, BuildInvariant, PTL

(* Although the exit status of genhdr.py is ignored, the compiler gets the *)
(* strings of the sources or an unfinished header, unless genhdr.py ended  *)
(* before it had emptied the header.                                       *)
THEOREM StaleOnlyIfNotCleared == BuildSpec => []StaleStringsOnlyIfNotCleared
<1>1. BInv => StaleStringsOnlyIfNotCleared
  <2> SUFFICES ASSUME BInv, phase = "loader", "qstr" \in whole, swept,
                      ~(run = "failed" /\ stage \in {"version", "clear"})
               PROVE  header["qstr"] = SourcesWith("qstr")
    BY DEF StaleStringsOnlyIfNotCleared
  <2>1. /\ Sources = tree /\ Strings /\ run \in {"ok", "failed"}
        /\ run = "ok" => stage = "gen_root"
    BY SourcesAtHand DEF BInv, Ended, BuildTypeOK, IInv, TypeOK
  <2>2. stage \in Stages \ {"version", "clear"}
    BY <2>1 DEF BInv, IInv, TypeOK
  <2>3. stage \notin QstrPendingStages
    BY DEF BInv, IInv, QstrGate
  <2>4. stage \in AfterGen("qstr")
    BY <2>2, <2>3 DEF QstrPendingStages, AfterGen, Stages, BeforeCat, AtGen, Early,
                      SourceStages
  <2> QED
    BY <2>1, <2>4 DEF Strings, Expected, SourcesWith
<1> QED
  BY <1>1, BuildInvariant, PTL

(* After a successful genhdr.py, a loader build misses no macro of the     *)
(* repository's sources in any of the three headers, but for a generator   *)
(* whose failure genhdr.py did not notice; nor does a header hold a macro  *)
(* too many, unless genhdr.py had failed the time before, in the copy or   *)
(* in the repository it was made of.                                       *)
THEOREM HeadersSeen == BuildSpec => []LoaderSeesHeaders
<1>1. BInv => LoaderSeesHeaders
  <2> SUFFICES ASSUME BInv, phase = "loader", run = "ok"
               PROVE  LoaderSeesHeaders
    BY DEF LoaderSeesHeaders
  <2>1. Sources = tree /\ HeadersDone
    BY SourcesAtHand DEF BInv, Complete
  <2>2. \A k \in Kinds : Expected(k) = SourcesWith(k)
    BY <2>1 DEF Expected, SourcesWith
  <2> QED
    BY <2>1, <2>2 DEF HeadersDone, LoaderSeesHeaders
<1> QED
  BY <1>1, BuildInvariant, PTL

-----------------------------------------------------------------------------
(* What holds of a run of genhdr.py holds of those that the scripts start, *)
(* with their edits, copies and cleans in between.                         *)
LEMMA SuccessIsGenerators ==
  ASSUME BInv, BuildNext, Succeeds
  PROVE  IInv /\ Next
<1>1. run = "running" /\ run' = "ok" /\ run' # run
  BY DEF Succeeds
<1>2. phase \in {"genhdr", "prep"}
  BY <1>1 DEF BInv, BuildTypeOK
<1>3. ~Build
  BY <1>1, <1>2 DEF Build, CmdBuild, FetchSubmodule, CloneLoader,
              VerifyToolchains, PrepMpy, StartGenhdr, StartLoaderBuild,
              LoaderBuildEnds, GenhdrEnded
<1>4. GenhdrStep
  BY <1>1, <1>2, <1>3 DEF BuildNext, EditSources, CmdClean, Prep, PrepEnds,
                          GenhdrEnded
<1> QED
  BY <1>4 DEF GenhdrStep, Next, BInv

(* A run that succeeds after it emptied the qstr directory leaves exactly  *)
(* the strings of the sources, whichever script started it and whatever    *)
(* the scripts did before (genhdr.py:274-278, 174-176).                    *)
THEOREM BuildStringsFresh == BuildSpec => QstrFresh
<1>1. BInv /\ [BuildNext]_buildVars =>
        [Succeeds /\ swept =>
           "qstr" \in whole' /\ header'["qstr"] = Expected("qstr")]_vars
  <2> SUFFICES ASSUME BInv, BuildNext, Succeeds, swept
               PROVE  "qstr" \in whole' /\ header'["qstr"] = Expected("qstr")
    BY DEF vars, buildVars
  <2>1. Clean("qstr") /\ IInv /\ Next
    BY SuccessIsGenerators, SuccessHolds DEF Clean
  <2> QED
    BY <2>1, SuccessHolds DEF Kinds
<1> QED
  BY <1>1, BuildInvariant, PTL DEF BuildSpec, QstrFresh

(* It leaves no macro out, but for a failure it did not notice             *)
(* (genhdr.py:55,80).                                                      *)
THEOREM BuildMissesNothing == BuildSpec => NothingMissing
<1>1. BInv /\ [BuildNext]_buildVars =>
        [Succeeds => \A k \in Kinds :
           IF k \in whole' THEN Expected(k) \subseteq header'[k]
                           ELSE k # "qstr" /\ unnoticed']_vars
  <2> SUFFICES ASSUME BInv, BuildNext, Succeeds, NEW k \in Kinds
               PROVE  IF k \in whole' THEN Expected(k) \subseteq header'[k]
                                      ELSE k # "qstr" /\ unnoticed'
    BY DEF vars, buildVars
  <2>1. IInv /\ Next
    BY SuccessIsGenerators
  <2> QED
    BY <2>1, SuccessHolds
<1> QED
  BY <1>1, BuildInvariant, PTL DEF BuildSpec, NothingMissing

(* And it is exact after one that did not fail, with a clean or a copy in  *)
(* between or not, unless what a failed run left in the repository came    *)
(* with the copy (genhdr.py:48-49, 73-74, BuildMicroPython.py:32).         *)
THEOREM BuildExactAfterSuccess == BuildSpec => CleanAfterSuccess
<1>1. BInv /\ [BuildNext]_buildVars =>
        [Succeeds /\ before # "failed" =>
           \A k \in whole' : header'[k] = Expected(k)]_vars
  <2> SUFFICES ASSUME BInv, BuildNext, Succeeds, before # "failed",
                      NEW k \in whole'
               PROVE  header'[k] = Expected(k)
    BY DEF vars, buildVars
  <2>1. IInv /\ Next /\ IInv'
    BY SuccessIsGenerators, StepIInv
  <2>2. k \in Kinds
    BY <2>1 DEF IInv, TypeOK
  <2>3. Clean(k)
    BY DEF Clean
  <2> QED
    BY <2>1, <2>2, <2>3, SuccessHolds
<1> QED
  BY <1>1, BuildInvariant, PTL DEF BuildSpec, CleanAfterSuccess
=============================================================================
