---------------------------- MODULE GenhdrProofs ----------------------------
(***************************************************************************)
(* What a run of genhdr.py that succeeds leaves behind, for every set of   *)
(* sources, every order and number of times the INF lists them, and every  *)
(* history of edits and failed runs: see Genhdr.                           *)
(***************************************************************************)
EXTENDS Genhdr, SequenceTheorems, TLAPS

(* The stages of a source in which its macros of a kind have been split.   *)
Past(k) == IF k = "qstr" THEN {"collect_module", "collect_root_pointer"}
           ELSE IF k = "module" THEN {"collect_root_pointer"}
           ELSE {}

(* The sources of a kind's macros that have been split when the run is in  *)
(* a stage of the i-th source; all of them once i is past the last.        *)
Found(k, at, i) ==
  {s \in Srcs : /\ k \in tree[s]
                /\ \E j \in DOMAIN SrcFiles :
                     SrcFiles[j] = s /\ (j < i \/ (j = i /\ at \in Past(k)))}

(* The stages up to the concatenation of a kind, that of its generator,    *)
(* and those after it.                                                     *)
Early == {"version", "clear"} \cup SourceStages \cup {"cat_qstr"}
BeforeCat(k) ==
  IF k = "qstr" THEN Early
  ELSE IF k = "module" THEN Early \cup {"gen_qstr", "cat_module"}
  ELSE Early \cup {"gen_qstr", "cat_module", "gen_module", "cat_root"}
AtGen(k) == IF k = "qstr" THEN "gen_qstr"
            ELSE IF k = "module" THEN "gen_module" ELSE "gen_root"
AfterGen(k) == Stages \ (BeforeCat(k) \cup {AtGen(k)})

(* Nothing of an earlier run can be among the macros of a kind. *)
Clean(k) ==
  \/ before # "failed"
  \/ k = "qstr" /\ swept /\ stage \notin {"version", "clear"}

Holds(k, sources) ==
  /\ Found(k, stage, idx) \subseteq sources
  /\ Clean(k) => sources = Found(k, stage, idx)

(* The macros found so far are in the split files, then in the collected   *)
(* file, then in the header, unless a failure went unnoticed.              *)
Progress(k) ==
  /\ stage \in BeforeCat(k) => Holds(k, split[k])
  /\ stage = AtGen(k) => Holds(k, collected)
  /\ stage \in AfterGen(k) =>
       IF k \in whole THEN Holds(k, header[k]) ELSE k # "qstr" /\ unnoticed
  /\ stage \notin BeforeCat(k) => split[k] = {}

(* Where the loop over the sources is. *)
Place ==
  /\ stage \in {"version", "clear"} => idx = 1
  /\ stage \notin {"version", "clear"} \cup SourceStages =>
       idx = Len(SrcFiles) + 1

(* A run that ended well has wiped all split files. *)
Wiped == run \in {"none", "ok"} => \A k \in Kinds : split[k] = {}

IInv ==
  /\ TypeOK
  /\ QstrGate
  /\ Wiped
  /\ run = "running" => Place /\ \A k \in Kinds : Progress(k)

-----------------------------------------------------------------------------
(* The list of sources is not empty. *)
LEMMA SomeSource ==
  /\ Len(SrcFiles) \in Nat \ {0}
  /\ DOMAIN SrcFiles = 1 .. Len(SrcFiles)
  /\ \A i \in DOMAIN SrcFiles : SrcFiles[i] \in Srcs
<1>1. SrcFiles \in Seq(Srcs) /\ SrcFiles # <<>>
  BY SrcFilesAssumption
<1> QED
  BY <1>1, EmptySeq, ElementOfSeq, LenProperties

LEMMA FirstIndex == 1 \in 1 .. (Len(SrcFiles) + 1) /\ 1 \in DOMAIN SrcFiles
  BY SomeSource

(* Before the first source nothing has been found. *)
LEMMA FoundNone ==
  ASSUME NEW k, NEW at, at \notin Past(k)
  PROVE  Found(k, at, 1) = {}
  BY SomeSource DEF Found

(* After the last source everything has, whatever the stage. *)
LEMMA FoundAll ==
  ASSUME NEW k, NEW at
  PROVE  Found(k, at, Len(SrcFiles) + 1) = Expected(k)
<1>1. ASSUME NEW s \in Srcs
      PROVE  \E j \in DOMAIN SrcFiles : SrcFiles[j] = s /\ j < Len(SrcFiles) + 1
  <2>1. PICK j \in DOMAIN SrcFiles : SrcFiles[j] = s
    BY SrcFilesAssumption
  <2>2. j < Len(SrcFiles) + 1
    BY <2>1, SomeSource
  <2> QED
    BY <2>1, <2>2
<1> QED
  BY <1>1 DEF Found, Expected

(* Stages that differ in nothing for a kind. *)
LEMMA FoundSame ==
  ASSUME NEW k, NEW at, NEW next, NEW i,
         at \in Past(k) <=> next \in Past(k)
  PROVE  Found(k, at, i) = Found(k, next, i)
  BY DEF Found

(* The stage that splits a kind adds the source it is at.                  *)
LEMMA FoundMore ==
  ASSUME NEW k, NEW at, NEW next, NEW i \in DOMAIN SrcFiles,
         at \notin Past(k), next \in Past(k), TypeOK
  PROVE  Found(k, next, i) =
           IF k \in tree[SrcFiles[i]]
           THEN Found(k, at, i) \cup {SrcFiles[i]} ELSE Found(k, at, i)
  BY SomeSource DEF Found

(* The last stage of a source ends with what the next one begins with.     *)
LEMMA FoundNext ==
  ASSUME NEW k, NEW at, NEW next, NEW i \in DOMAIN SrcFiles,
         at \in Past(k), next \notin Past(k)
  PROVE  Found(k, next, i + 1) = Found(k, at, i)
<1>1. i \in Nat /\ \A j \in DOMAIN SrcFiles : j \in Nat
  BY SomeSource
<1>2. \A j \in DOMAIN SrcFiles : j < i + 1 <=> (j < i \/ j = i)
  BY <1>1
<1> QED
  BY <1>2 DEF Found

(* The last stage of a source splits root pointers and goes on.            *)
LEMMA FoundLast ==
  ASSUME NEW k, NEW at, NEW next, NEW i \in DOMAIN SrcFiles,
         at \notin Past(k), next \notin Past(k), TypeOK
  PROVE  Found(k, next, i + 1) =
           IF k \in tree[SrcFiles[i]]
           THEN Found(k, at, i) \cup {SrcFiles[i]} ELSE Found(k, at, i)
<1>1. i \in Nat /\ \A j \in DOMAIN SrcFiles : j \in Nat
  BY SomeSource
<1>2. \A j \in DOMAIN SrcFiles : j < i + 1 <=> (j < i \/ j = i)
  BY <1>1
<1> QED
  BY <1>2, SomeSource DEF Found

(* A step of the run leaves the sources alone.                             *)
LEMMA FoundPrimed ==
  ASSUME tree' = tree, NEW k
  PROVE  Found(k, stage, idx)' = Found(k, stage', idx')
  BY DEF Found

-----------------------------------------------------------------------------
LEMMA InitIInv == Init => IInv
<1> SUFFICES ASSUME Init PROVE IInv
  OBVIOUS
<1>1. TypeOK
  BY FirstIndex DEF Init, TypeOK, Stages, SourceStages
<1>2. QstrGate /\ Wiped /\ run # "running"
  BY DEF Init, QstrGate, Wiped
<1> QED
  BY <1>1, <1>2 DEF IInv

(* A failure, whatever it does to the files.                               *)
LEMMA FailKeeps ==
  ASSUME IInv, Fail,
         split' \in [Kinds -> SUBSET Srcs], collected' \subseteq Srcs,
         header' \in [Kinds -> SUBSET Srcs], whole' \subseteq Kinds,
         stage \in QstrPendingStages => "qstr" \notin whole'
  PROVE  IInv'
<1>1. TypeOK'
  BY DEF IInv, TypeOK, Fail, history
<1>2. QstrGate' /\ Wiped' /\ run' # "running"
  BY DEF Fail, QstrGate, Wiped
<1> QED
  BY <1>1, <1>2 DEF IInv

(* The same if it does nothing to them.                                    *)
LEMMA FailQuietKeeps ==
  ASSUME IInv, Fail, UNCHANGED files
  PROVE  IInv'
<1>1. UNCHANGED <<split, collected, header, whole>>
  BY DEF files, headers
<1> QED
  BY <1>1, FailKeeps DEF IInv, TypeOK, QstrGate

LEMMA EditKeeps == IInv /\ Edit => IInv'
  BY DEF IInv, Edit, TypeOK, QstrGate, Wiped, files, headers, history

LEMMA StartKeeps == IInv /\ Start => IInv'
<1> SUFFICES ASSUME IInv, Start PROVE IInv'
  OBVIOUS
<1>1. /\ run # "running" /\ run' = "running" /\ stage' = "version" /\ idx' = 1
      /\ before' = run /\ swept' = TRUE /\ unnoticed' = FALSE
      /\ UNCHANGED <<tree, split, collected, header, whole>>
  BY DEF Start, files, headers
<1>2. TypeOK'
  BY <1>1, FirstIndex DEF IInv, TypeOK, Stages, SourceStages
<1>3. QstrGate' /\ Wiped' /\ Place'
  BY <1>1 DEF QstrGate, Wiped, Place, QstrPendingStages, SourceStages
<1>4. ASSUME NEW k \in Kinds PROVE Progress(k)'
  <2>1. Found(k, stage, idx)' = {}
    BY <1>1, FoundPrimed, FoundNone DEF Past
  <2>2. before' # "failed" => split'[k] = {}
    BY <1>1 DEF IInv, Wiped, TypeOK
  <2>3. Holds(k, split[k])'
    BY <1>1, <2>1, <2>2 DEF Holds, Clean
  <2> QED
    BY <1>1, <2>3 DEF Progress, BeforeCat, AtGen, AfterGen, Early
<1> QED
  BY <1>2, <1>3, <1>4 DEF IInv

LEMMA NotReadyKeeps == IInv /\ NotReady => IInv'
<1> SUFFICES ASSUME IInv, NotReady PROVE IInv'
  OBVIOUS
<1>1. /\ run # "running" /\ run' = "failed" /\ stage' = "version" /\ idx' = 1
      /\ before' = run /\ swept' = TRUE /\ unnoticed' = FALSE
      /\ UNCHANGED <<tree, split, collected, header, whole>>
  BY DEF NotReady, files, headers
<1>2. TypeOK'
  BY <1>1, FirstIndex DEF IInv, TypeOK, Stages, SourceStages
<1> QED
  BY <1>1, <1>2 DEF IInv, QstrGate, Wiped, QstrPendingStages, SourceStages

-----------------------------------------------------------------------------
LEMMA GenVersionKeeps == IInv /\ GenVersion => IInv'
<1> SUFFICES ASSUME IInv, GenVersion PROVE IInv'
  OBVIOUS
<1>1. CASE Fail /\ UNCHANGED files
  BY <1>1, FailQuietKeeps
<1>2. CASE stage' = "clear" /\ UNCHANGED <<tree, files, run, idx, history>>
  <2>1. /\ stage = "version" /\ run = "running" /\ idx = 1
        /\ UNCHANGED <<tree, split, collected, header, whole, run, idx,
                       before, swept, unnoticed>>
    BY <1>2 DEF GenVersion, Running, IInv, Place, files, headers, history
  <2>2. TypeOK'
    BY <1>2, <2>1 DEF IInv, TypeOK, Stages, SourceStages
  <2>3. QstrGate' /\ Wiped' /\ Place'
    BY <1>2, <2>1 DEF QstrGate, Wiped, Place, QstrPendingStages, SourceStages
  <2>4. ASSUME NEW k \in Kinds PROVE Progress(k)'
    <3>1. Found(k, stage, idx)' = Found(k, stage, idx)
      BY <1>2, <2>1, FoundPrimed, FoundNone DEF Past
    <3>2. Holds(k, split[k])
      BY <2>1 DEF IInv, Progress, BeforeCat, Early
    <3>3. Holds(k, split[k])'
      BY <1>2, <2>1, <3>1, <3>2 DEF Holds, Clean
    <3> QED
      BY <1>2, <2>1, <3>3 DEF Progress, BeforeCat, AtGen, AfterGen, Early
  <2> QED
    BY <2>1, <2>2, <2>3, <2>4 DEF IInv
<1> QED
  BY <1>1, <1>2 DEF GenVersion

(* Where the qstr directory is emptied, its macros become clean; where it  *)
(* is not, somebody was there before.                                      *)
LEMMA ClearKeeps == IInv /\ Clear => IInv'
<1> SUFFICES ASSUME IInv, Clear PROVE IInv'
  OBVIOUS
<1>1. CASE /\ Fail
           /\ \/ Truncate("qstr") /\ SomeRemoved("qstr")
              \/ UNCHANGED <<headers, split>>
           /\ UNCHANGED collected
  <2>1. /\ header' \in [Kinds -> SUBSET Srcs] /\ whole' \subseteq Kinds
        /\ collected' \subseteq Srcs /\ whole' \subseteq whole
    BY <1>1 DEF IInv, TypeOK, Truncate, headers, Kinds
  <2>2. split' \in [Kinds -> SUBSET Srcs]
    BY <1>1 DEF IInv, TypeOK, SomeRemoved, Kinds
  <2> QED
    BY <1>1, <2>1, <2>2, FailKeeps DEF IInv, QstrGate
<1>2. CASE /\ stage' = "preprocess"
           /\ Truncate("qstr")
           /\ ClearTree
           /\ UNCHANGED <<tree, collected, run, idx, before, unnoticed>>
  <2>1. stage = "clear" /\ run = "running" /\ idx = 1 /\ idx' = 1
    BY <1>2 DEF Clear, Running, IInv, Place
  <2>2. /\ header' \in [Kinds -> SUBSET Srcs] /\ whole' \subseteq Kinds
        /\ "qstr" \notin whole'
    BY <1>2 DEF IInv, TypeOK, Truncate, Kinds
  <2>3. /\ split' \in [Kinds -> SUBSET Srcs] /\ swept' \in BOOLEAN
        /\ \A k \in Kinds \ {"qstr"} : split'[k] = split[k]
        /\ split["qstr"] = {} => split'["qstr"] = {}
        /\ swept' => split'["qstr"] = {}
    <3>1. split \in [Kinds -> SUBSET Srcs] /\ "qstr" \in Kinds
            /\ swept \in BOOLEAN
      BY DEF IInv, TypeOK, Kinds
    <3>2. CASE split' = [split EXCEPT !["qstr"] = {}] /\ UNCHANGED swept
      BY <3>1, <3>2
    <3>3. CASE /\ \E left \in SUBSET split["qstr"] \ {{}} :
                     split' = [split EXCEPT !["qstr"] = left]
               /\ swept' = FALSE
      BY <3>1, <3>3
    <3> QED
      BY <1>2, <3>2, <3>3 DEF ClearTree
  <2>4. TypeOK'
    BY <1>2, <2>1, <2>2, <2>3, FirstIndex DEF IInv, TypeOK, Stages, SourceStages
  <2>5. QstrGate' /\ Wiped' /\ Place'
    BY <1>2, <2>1, <2>2 DEF QstrGate, Wiped, Place, SourceStages
  <2>6. ASSUME NEW k \in Kinds PROVE Progress(k)'
    <3>1. Found(k, stage, idx)' = {} /\ Found(k, stage, idx) = {}
      BY <1>2, <2>1, FoundPrimed, FoundNone DEF Past
    <3>2. Holds(k, split[k])
      BY <2>1 DEF IInv, Progress, BeforeCat, Early
    <3>3. before # "failed" => split[k] = {}
      BY <3>1, <3>2 DEF Holds, Clean
    <3>4. Clean(k)' => split'[k] = {}
      BY <1>2, <2>3, <3>3 DEF Clean
    <3>5. Holds(k, split[k])'
      BY <3>1, <3>4 DEF Holds
    <3> QED
      BY <1>2, <3>5 DEF Progress, BeforeCat, AtGen, AfterGen, Early, SourceStages
  <2> QED
    BY <1>2, <2>1, <2>4, <2>5, <2>6 DEF IInv
<1> QED
  BY <1>1, <1>2 DEF Clear

-----------------------------------------------------------------------------
(* What the source at hand adds to a kind.                                 *)
Added(k) == IF k \in tree[SrcFiles[idx]] THEN {SrcFiles[idx]} ELSE {}

LEMMA SplitKeeps ==
  ASSUME IInv, idx \in DOMAIN SrcFiles, NEW kind \in Kinds, Split(kind)
  PROVE  /\ split' \in [Kinds -> SUBSET Srcs]
         /\ split'[kind] = split[kind] \cup Added(kind)
         /\ \A k \in Kinds \ {kind} : split'[k] = split[k]
<1>1. split \in [Kinds -> SUBSET Srcs] /\ SrcFiles[idx] \in Srcs
  BY SomeSource DEF IInv, TypeOK
<1> QED
  BY <1>1 DEF Split, Added

(* A step of the loop over the sources adds the same to the split files of *)
(* a kind as to what has been found of it.                                 *)
LEMMA SourceKeeps ==
  ASSUME IInv, run = "running", stage \in SourceStages,
         UNCHANGED <<tree, collected, headers, run, history>>,
         stage' \in SourceStages \cup {"cat_qstr"},
         stage' \in SourceStages => idx' \in DOMAIN SrcFiles,
         stage' = "cat_qstr" => idx' = Len(SrcFiles) + 1,
         split' \in [Kinds -> SUBSET Srcs],
         \A k \in Kinds : \E d :
           /\ split'[k] = split[k] \cup d
           /\ Found(k, stage', idx') = Found(k, stage, idx) \cup d
  PROVE  IInv'
<1>1. UNCHANGED <<tree, collected, header, whole, run, before, swept, unnoticed>>
  BY DEF headers, history
<1>2. /\ stage' \in Stages /\ stage' \notin {"version", "clear"}
      /\ stage \in QstrPendingStages /\ stage \notin {"version", "clear"}
  BY DEF Stages, SourceStages, QstrPendingStages
<1>3. idx' \in 1 .. (Len(SrcFiles) + 1)
  BY SomeSource
<1>4. TypeOK'
  <2>1. stage' = "cat_qstr" => stage' \notin SourceStages
    BY DEF SourceStages
  <2> QED
    BY <1>1, <1>2, <1>3, <2>1 DEF IInv, TypeOK
<1>5. QstrGate' /\ Wiped'
  BY <1>1, <1>2 DEF IInv, QstrGate, Wiped
<1>6. Place'
  BY <1>2 DEF Place
<1>7. ASSUME NEW k \in Kinds PROVE Progress(k)'
  <2>1. PICK d : /\ split'[k] = split[k] \cup d
                 /\ Found(k, stage', idx') = Found(k, stage, idx) \cup d
    OBVIOUS
  <2>2. Found(k, stage, idx)' = Found(k, stage', idx')
    BY <1>1, FoundPrimed
  <2>3. stage \in BeforeCat(k) /\ stage' \in BeforeCat(k)
    BY DEF BeforeCat, Early
  <2>4. Holds(k, split[k])
    BY <2>3 DEF IInv, Progress
  <2>5. Clean(k)' <=> Clean(k)
    BY <1>1, <1>2 DEF Clean
  <2>6. Holds(k, split[k])'
    BY <2>1, <2>2, <2>4, <2>5 DEF Holds
  <2>7. stage' # AtGen(k) /\ stage' \notin AfterGen(k)
    BY <2>3 DEF BeforeCat, AtGen, AfterGen, Early, SourceStages
  <2> QED
    BY <2>3, <2>6, <2>7 DEF Progress
<1> QED
  BY <1>1, <1>4, <1>5, <1>6, <1>7 DEF IInv

LEMMA PreprocessKeeps == IInv /\ Preprocess => IInv'
<1> SUFFICES ASSUME IInv, Preprocess PROVE IInv'
  OBVIOUS
<1>1. CASE Fail /\ UNCHANGED files
  BY <1>1, FailQuietKeeps
<1>2. CASE stage' = "collect_qstr" /\ UNCHANGED <<tree, files, run, idx, history>>
  <2>1. stage = "preprocess" /\ run = "running"
    BY DEF Preprocess, Running
  <2>2. stage \in SourceStages /\ stage' \in SourceStages /\ idx \in DOMAIN SrcFiles
    BY <1>2, <2>1 DEF SourceStages, IInv, TypeOK
  <2>3. UNCHANGED <<tree, split, collected, headers, run, idx, history>>
    BY <1>2 DEF files
  <2>4. ASSUME NEW k \in Kinds
        PROVE  Found(k, stage', idx') = Found(k, stage, idx)
    <3>1. stage \notin Past(k) /\ stage' \notin Past(k)
      BY <1>2, <2>1 DEF Past
    <3> QED
      BY <2>3, <3>1, FoundSame
  <2>5. \A k \in Kinds : /\ split'[k] = split[k] \cup {}
                        /\ Found(k, stage', idx') = Found(k, stage, idx) \cup {}
    BY <2>3, <2>4
  <2>6. split' \in [Kinds -> SUBSET Srcs]
    BY <2>3 DEF IInv, TypeOK
  <2>7. stage' # "cat_qstr"
    BY <1>2
  <2> QED
    BY <2>1, <2>2, <2>3, <2>5, <2>6, <2>7, SourceKeeps
<1> QED
  BY <1>1, <1>2 DEF Preprocess

LEMMA CollectQstrKeeps == IInv /\ CollectQstr => IInv'
<1> SUFFICES ASSUME IInv, CollectQstr PROVE IInv'
  OBVIOUS
<1>1. CASE Fail /\ UNCHANGED files
  BY <1>1, FailQuietKeeps
<1>2. CASE /\ Split("qstr") /\ stage' = "collect_module"
           /\ UNCHANGED <<tree, collected, headers, run, idx, history>>
  <2>1. stage = "collect_qstr" /\ run = "running"
    BY DEF CollectQstr, Running
  <2>2. stage \in SourceStages /\ stage' \in SourceStages /\ idx \in DOMAIN SrcFiles
    BY <1>2, <2>1 DEF SourceStages, IInv, TypeOK
  <2>3. ASSUME NEW k \in Kinds \ {"qstr"}
        PROVE  Found(k, stage', idx) = Found(k, stage, idx)
    <3>1. stage \in Past(k) <=> stage' \in Past(k)
      BY <1>2, <2>1 DEF Past, Kinds
    <3> QED
      BY <3>1, FoundSame
  <2>4. Found("qstr", stage', idx) =
          Found("qstr", stage, idx) \cup Added("qstr")
    <3>1. stage \notin Past("qstr") /\ stage' \in Past("qstr") /\ TypeOK
      BY <1>2, <2>1 DEF Past, IInv
    <3> QED
      BY <2>2, <3>1, FoundMore DEF Added
  <2>5. /\ split' \in [Kinds -> SUBSET Srcs]
        /\ split'["qstr"] = split["qstr"] \cup Added("qstr")
        /\ \A k \in Kinds \ {"qstr"} : split'[k] = split[k] \cup {}
    BY <1>2, <2>2, SplitKeeps DEF Kinds
  <2>6. \A k \in Kinds : \E d :
           /\ split'[k] = split[k] \cup d
           /\ Found(k, stage', idx') = Found(k, stage, idx) \cup d
    <3>1. \A k \in Kinds \ {"qstr"} :
            Found(k, stage', idx') = Found(k, stage, idx) \cup {}
      BY <1>2, <2>3
    <3>2. Found("qstr", stage', idx') =
            Found("qstr", stage, idx) \cup Added("qstr")
      BY <1>2, <2>4
    <3> QED
      BY <2>5, <3>1, <3>2
  <2>7. stage' # "cat_qstr" /\ idx' \in DOMAIN SrcFiles
    BY <1>2, <2>2
  <2> QED
    BY <1>2, <2>1, <2>2, <2>5, <2>6, <2>7, SourceKeeps
<1> QED
  BY <1>1, <1>2 DEF CollectQstr

LEMMA CollectModulesKeeps == IInv /\ CollectModules => IInv'
<1> SUFFICES ASSUME IInv, CollectModules PROVE IInv'
  OBVIOUS
<1>1. CASE Fail /\ UNCHANGED files
  BY <1>1, FailQuietKeeps
<1>2. CASE /\ Split("module") /\ stage' = "collect_root_pointer"
           /\ UNCHANGED <<tree, collected, headers, run, idx, history>>
  <2>1. stage = "collect_module" /\ run = "running"
    BY DEF CollectModules, Running
  <2>2. stage \in SourceStages /\ stage' \in SourceStages /\ idx \in DOMAIN SrcFiles
    BY <1>2, <2>1 DEF SourceStages, IInv, TypeOK
  <2>3. ASSUME NEW k \in Kinds \ {"module"}
        PROVE  Found(k, stage', idx) = Found(k, stage, idx)
    <3>1. stage \in Past(k) <=> stage' \in Past(k)
      BY <1>2, <2>1 DEF Past, Kinds
    <3> QED
      BY <3>1, FoundSame
  <2>4. Found("module", stage', idx) =
          Found("module", stage, idx) \cup Added("module")
    <3>1. stage \notin Past("module") /\ stage' \in Past("module") /\ TypeOK
      BY <1>2, <2>1 DEF Past, IInv
    <3> QED
      BY <2>2, <3>1, FoundMore DEF Added
  <2>5. /\ split' \in [Kinds -> SUBSET Srcs]
        /\ split'["module"] = split["module"] \cup Added("module")
        /\ \A k \in Kinds \ {"module"} : split'[k] = split[k] \cup {}
    BY <1>2, <2>2, SplitKeeps DEF Kinds
  <2>6. \A k \in Kinds : \E d :
           /\ split'[k] = split[k] \cup d
           /\ Found(k, stage', idx') = Found(k, stage, idx) \cup d
    <3>1. \A k \in Kinds \ {"module"} :
            Found(k, stage', idx') = Found(k, stage, idx) \cup {}
      BY <1>2, <2>3
    <3>2. Found("module", stage', idx') =
            Found("module", stage, idx) \cup Added("module")
      BY <1>2, <2>4
    <3> QED
      BY <2>5, <3>1, <3>2
  <2>7. stage' # "cat_qstr" /\ idx' \in DOMAIN SrcFiles
    BY <1>2, <2>2
  <2> QED
    BY <1>2, <2>1, <2>2, <2>5, <2>6, <2>7, SourceKeeps
<1> QED
  BY <1>1, <1>2 DEF CollectModules

(* The last stage of a source: on to the next one, or out of the loop.     *)
LEMMA CollectRootPointersKeeps == IInv /\ CollectRootPointers => IInv'
<1> SUFFICES ASSUME IInv, CollectRootPointers PROVE IInv'
  OBVIOUS
<1>1. CASE Fail /\ UNCHANGED files
  BY <1>1, FailQuietKeeps
<1>2. CASE /\ Split("root_pointer")
           /\ stage' = AfterSource(idx) /\ idx' = idx + 1
           /\ UNCHANGED <<tree, collected, headers, run, history>>
  <2>1. stage = "collect_root_pointer" /\ run = "running"
    BY DEF CollectRootPointers, Running
  <2>2. stage \in SourceStages /\ idx \in DOMAIN SrcFiles /\ TypeOK
    BY <2>1 DEF SourceStages, IInv, TypeOK
  <2>3. /\ stage' \in {"preprocess", "cat_qstr"}
        /\ stage' = "preprocess" => idx' \in DOMAIN SrcFiles
        /\ stage' = "cat_qstr" => idx' = Len(SrcFiles) + 1
    BY <1>2, <2>2, SomeSource DEF AfterSource
  <2>4. /\ stage' \in SourceStages \cup {"cat_qstr"}
        /\ stage' \in SourceStages => idx' \in DOMAIN SrcFiles
    BY <2>3 DEF SourceStages
  <2>5. ASSUME NEW k \in Kinds \ {"root_pointer"}
        PROVE  Found(k, stage', idx') = Found(k, stage, idx)
    <3>1. stage \in Past(k) /\ stage' \notin Past(k)
      BY <2>1, <2>3 DEF Past, Kinds
    <3> QED
      BY <1>2, <2>2, <3>1, FoundNext
  <2>6. Found("root_pointer", stage', idx') =
          Found("root_pointer", stage, idx) \cup Added("root_pointer")
    <3>1. stage \notin Past("root_pointer") /\ stage' \notin Past("root_pointer")
      BY DEF Past
    <3>2. Found("root_pointer", stage', idx + 1) =
            IF "root_pointer" \in tree[SrcFiles[idx]]
            THEN Found("root_pointer", stage, idx) \cup {SrcFiles[idx]}
            ELSE Found("root_pointer", stage, idx)
      BY <2>2, <3>1, FoundLast
    <3>3. idx' = idx + 1
      BY <1>2
    <3> QED
      BY <3>2, <3>3 DEF Added
  <2>7. /\ split' \in [Kinds -> SUBSET Srcs]
        /\ split'["root_pointer"] = split["root_pointer"] \cup Added("root_pointer")
        /\ \A k \in Kinds \ {"root_pointer"} : split'[k] = split[k] \cup {}
    BY <1>2, <2>2, SplitKeeps DEF Kinds
  <2>8. \A k \in Kinds : \E d :
           /\ split'[k] = split[k] \cup d
           /\ Found(k, stage', idx') = Found(k, stage, idx) \cup d
    <3>1. \A k \in Kinds \ {"root_pointer"} :
            Found(k, stage', idx') = Found(k, stage, idx) \cup {}
      BY <2>5
    <3> QED
      BY <2>6, <2>7, <3>1
  <2> QED
    BY <1>2, <2>1, <2>2, <2>3, <2>4, <2>7, <2>8, SourceKeeps
<1> QED
  BY <1>1, <1>2 DEF CollectRootPointers

-----------------------------------------------------------------------------
(* After the loop: everything has been found.                              *)
Late == Stages \ ({"version", "clear"} \cup SourceStages)

LEMMA LateFound ==
  ASSUME IInv, run = "running", stage \in Late
  PROVE  /\ idx = Len(SrcFiles) + 1
         /\ \A k : Found(k, stage, idx) = Expected(k)
<1>1. idx = Len(SrcFiles) + 1
  BY DEF IInv, Place, Late
<1> QED
  BY <1>1, FoundAll

(* From one late stage to the next, nothing changes for a kind whose files *)
(* and whose header stay as they are.                                      *)
LEMMA OtherKind ==
  ASSUME IInv, run = "running", stage \in Late, stage' \in Late,
         UNCHANGED <<tree, idx, before, swept>>, NEW k \in Kinds,
         split'[k] = split[k], header'[k] = header[k],
         k \in whole' <=> k \in whole, unnoticed => unnoticed',
         stage # AtGen(k), stage' # AtGen(k),
         stage \in BeforeCat(k) <=> stage' \in BeforeCat(k)
  PROVE  Progress(k)'
<1>1. Found(k, stage, idx)' = Found(k, stage, idx)
  <2>1. Found(k, stage', idx') = Expected(k)
    BY LateFound, FoundAll
  <2> QED
    BY <2>1, LateFound, FoundPrimed
<1>2. Clean(k)' <=> Clean(k)
  BY DEF Clean, Late
<1>3. Progress(k)
  BY DEF IInv
<1>4. stage \in AfterGen(k) <=> stage' \in AfterGen(k)
  BY DEF AfterGen, Late
<1> QED
  BY <1>1, <1>2, <1>3, <1>4 DEF Progress, Holds

LEMMA CatKeeps ==
  ASSUME IInv, NEW kind \in Kinds, NEW next \in Late, run = "running",
         stage \in Late, stage \in BeforeCat(kind), next = AtGen(kind),
         next \notin BeforeCat(kind), next \notin AfterGen(kind),
         next \in QstrPendingStages => stage \in QstrPendingStages,
         \A k \in Kinds \ {kind} :
           /\ stage # AtGen(k) /\ next # AtGen(k)
           /\ stage \in BeforeCat(k) <=> next \in BeforeCat(k),
         Cat(kind, next)
  PROVE  IInv'
<1>0. UNCHANGED <<header, whole>>
  BY DEF Cat, headers
<1>1. CASE Fail /\ CatStopped(kind)
  <2>1. split' \in [Kinds -> SUBSET Srcs] /\ collected' \subseteq Srcs
    BY <1>1 DEF CatStopped, SomeRemoved, IInv, TypeOK
  <2> QED
    BY <1>0, <1>1, <2>1, FailKeeps DEF IInv, TypeOK, QstrGate
<1>2. CASE /\ CatAndWipe(kind) /\ stage' = next
           /\ UNCHANGED <<tree, run, idx, history>>
  <2>1. UNCHANGED <<tree, run, idx, before, swept, unnoticed>>
    BY <1>2 DEF history
  <2>2. /\ collected' = split[kind] /\ split'[kind] = {}
        /\ split' \in [Kinds -> SUBSET Srcs] /\ collected' \subseteq Srcs
        /\ \A k \in Kinds \ {kind} : split'[k] = split[k]
    BY <1>2 DEF CatAndWipe, IInv, TypeOK
  <2>3. idx = Len(SrcFiles) + 1 /\ next \in Stages /\ next \notin SourceStages
        /\ next \notin {"version", "clear"}
    BY LateFound DEF Late
  <2>4. TypeOK'
    BY <1>0, <1>2, <2>1, <2>2, <2>3 DEF IInv, TypeOK
  <2>5. QstrGate' /\ Wiped' /\ Place'
    BY <1>0, <1>2, <2>1, <2>3 DEF IInv, QstrGate, Wiped, Place
  <2>6. ASSUME NEW k \in Kinds PROVE Progress(k)'
    <3>1. CASE k # kind
      BY <1>0, <1>2, <2>1, <2>2, <3>1, OtherKind
    <3>2. CASE k = kind
      <4>1. Holds(kind, split[kind])
        BY DEF IInv, Progress
      <4>2. Found(kind, stage, idx)' = Found(kind, stage, idx)
        <5>1. Found(kind, stage', idx') = Expected(kind)
          BY <2>1, <2>3, FoundAll
        <5> QED
          BY <2>1, <5>1, LateFound, FoundPrimed
      <4>3. Clean(kind)' <=> Clean(kind)
        BY <1>2, <2>1, <2>3 DEF Clean, Late
      <4>4. Holds(kind, collected)'
        BY <2>2, <4>1, <4>2, <4>3 DEF Holds
      <4> QED
        BY <1>2, <2>2, <3>2, <4>4 DEF Progress
    <3> QED
      BY <3>1, <3>2
  <2> QED
    BY <2>1, <2>4, <2>5, <2>6 DEF IInv
<1> QED
  BY <1>1, <1>2 DEF Cat

LEMMA CatsKeep == IInv /\ (CatQstr \/ CatModule \/ CatRootPointers) => IInv'
<1> SUFFICES ASSUME IInv, CatQstr \/ CatModule \/ CatRootPointers PROVE IInv'
  OBVIOUS
<1> USE DEF Kinds, Late, BeforeCat, AfterGen, AtGen, Early, Stages,
            SourceStages, QstrPendingStages
<1>1. CASE CatQstr
  BY <1>1, CatKeeps DEF CatQstr, Running
<1>2. CASE CatModule
  BY <1>2, CatKeeps DEF CatModule, Running
<1>3. CASE CatRootPointers
  BY <1>3, CatKeeps DEF CatRootPointers, Running
<1> QED
  BY <1>1, <1>2, <1>3

(* What a generator may leave: a whole header of what was collected, or,   *)
(* unnoticed, an unfinished one.                                           *)
Generated(kind) ==
  /\ \A k \in Kinds \ {kind} : header'[k] = header[k] /\ (k \in whole' <=> k \in whole)
  /\ header' \in [Kinds -> SUBSET Srcs] /\ whole' \subseteq Kinds
  /\ collected' = {} /\ split' = split
  /\ IF kind \in whole' THEN header'[kind] = collected ELSE unnoticed'
  /\ unnoticed' \in BOOLEAN /\ (unnoticed => unnoticed')

LEMMA GenerateKeepsRest ==
  ASSUME IInv, NEW kind \in Kinds, Generate(kind), split' = split
  PROVE  /\ unnoticed' = unnoticed => Generated(kind)
         /\ kind \in whole'
  BY DEF IInv, TypeOK, Generate, Generated

LEMMA UncheckedKeepsRest ==
  ASSUME IInv, NEW kind \in Kinds, GenerateUnchecked(kind), split' = split
  PROVE  Generated(kind)
<1>1. CASE Generate(kind) /\ UNCHANGED unnoticed
  BY <1>1, GenerateKeepsRest
<1>2. CASE Truncate(kind) /\ collected' = {} /\ unnoticed' = TRUE
  BY <1>2 DEF IInv, TypeOK, Truncate, Generated
<1> QED
  BY <1>1, <1>2 DEF GenerateUnchecked

LEMMA GenStoppedKeeps ==
  ASSUME IInv, NEW kind \in Kinds, Fail, split' = split,
         \/ GenStopped(kind)
         \/ Generate(kind) /\ stage \notin QstrPendingStages
  PROVE  IInv'
<1>1. CASE GenStopped(kind)
  <2>1. /\ header' \in [Kinds -> SUBSET Srcs] /\ whole' \subseteq whole
        /\ collected' = {}
    BY <1>1 DEF GenStopped, Truncate, headers, IInv, TypeOK
  <2> QED
    BY <2>1, FailKeeps DEF IInv, TypeOK, QstrGate
<1>2. CASE Generate(kind) /\ stage \notin QstrPendingStages
  <2>1. /\ header' \in [Kinds -> SUBSET Srcs] /\ whole' \subseteq Kinds
        /\ collected' = {}
    BY <1>2 DEF Generate, IInv, TypeOK
  <2> QED
    BY <1>2, <2>1, FailKeeps DEF IInv, TypeOK
<1> QED
  BY <1>1, <1>2

(* The macros found are in the header when its generator is done.          *)
LEMMA GeneratedHolds ==
  ASSUME IInv, run = "running", NEW kind \in Kinds, stage = AtGen(kind),
         stage \in Late, Generated(kind), kind = "qstr" => kind \in whole',
         tree' = tree
  PROVE  /\ IF kind \in whole'
            THEN /\ Expected(kind) \subseteq header'[kind]
                 /\ Clean(kind) => header'[kind] = Expected(kind)
            ELSE kind # "qstr" /\ unnoticed'
         /\ split'[kind] = {}
<1>1. Holds(kind, collected)
  BY DEF IInv, Progress
<1>2. Found(kind, stage, idx) = Expected(kind)
  BY LateFound
<1>3. stage \notin BeforeCat(kind)
  BY DEF AtGen, BeforeCat, Early, SourceStages, Kinds
<1>4. split[kind] = {}
  BY <1>3 DEF IInv, Progress
<1> QED
  BY <1>1, <1>2, <1>4 DEF Holds, Generated

(* A generator in the middle of the run. *)
LEMMA GenKeeps ==
  ASSUME IInv, NEW kind \in Kinds, NEW next \in Late, run = "running",
         stage \in Late, stage = AtGen(kind), next \in AfterGen(kind),
         next \notin QstrPendingStages,
         \A k \in Kinds \ {kind} :
           /\ stage # AtGen(k) /\ next # AtGen(k)
           /\ stage \in BeforeCat(k) <=> next \in BeforeCat(k),
         Generated(kind), kind = "qstr" => kind \in whole', stage' = next,
         UNCHANGED <<tree, run, idx, before, swept>>
  PROVE  IInv'
<1>1. idx = Len(SrcFiles) + 1 /\ next \in Stages /\ next \notin SourceStages
      /\ next \notin {"version", "clear"}
  BY LateFound DEF Late
<1>2. TypeOK'
  BY <1>1 DEF IInv, TypeOK, Generated
<1>3. QstrGate' /\ Wiped' /\ Place'
  BY <1>1 DEF IInv, QstrGate, Wiped, Place
<1>4. ASSUME NEW k \in Kinds PROVE Progress(k)'
  <2>1. CASE k # kind
    BY <2>1, OtherKind DEF Generated
  <2>2. CASE k = kind
    <3>1. IF kind \in whole'
          THEN /\ Expected(kind) \subseteq header'[kind]
               /\ Clean(kind) => header'[kind] = Expected(kind)
          ELSE kind # "qstr" /\ unnoticed'
      BY GeneratedHolds
    <3>2. split'[kind] = {}
      BY GeneratedHolds
    <3>3. Found(kind, stage, idx)' = Expected(kind)
      <4>1. Found(kind, stage', idx') = Expected(kind)
        BY <1>1, FoundAll
      <4> QED
        BY <4>1, FoundPrimed
    <3>4. Clean(kind)' <=> Clean(kind)
      BY <1>1 DEF Clean, Late
    <3>5. stage' \in AfterGen(kind) /\ stage' \notin BeforeCat(kind)
          /\ stage' # AtGen(kind)
      BY DEF AfterGen
    <3>6. IF kind \in whole' THEN Holds(kind, header[kind])'
                             ELSE kind # "qstr" /\ unnoticed'
      BY <3>1, <3>3, <3>4 DEF Holds
    <3> QED
      BY <2>2, <3>2, <3>5, <3>6 DEF Progress
  <2> QED
    BY <2>1, <2>2
<1> QED
  BY <1>2, <1>3, <1>4 DEF IInv

LEMMA GenQstrKeeps == IInv /\ GenQstr => IInv'
<1> SUFFICES ASSUME IInv, GenQstr PROVE IInv'
  OBVIOUS
<1>0. run = "running" /\ stage = "gen_qstr" /\ split' = split /\ "qstr" \in Kinds
  BY DEF GenQstr, Running, Kinds
<1>1. CASE Fail /\ GenStopped("qstr")
  BY <1>0, <1>1, GenStoppedKeeps
<1>2. CASE /\ Generate("qstr") /\ stage' = "cat_module"
           /\ UNCHANGED <<tree, run, idx, history>>
  <2>1. UNCHANGED <<tree, run, idx, before, swept, unnoticed>>
    BY <1>2 DEF history
  <2>2. Generated("qstr") /\ "qstr" \in whole'
    BY <1>0, <1>2, <2>1, GenerateKeepsRest
  <2>3. /\ stage \in Late /\ stage = AtGen("qstr") /\ "cat_module" \in Late
        /\ "cat_module" \in AfterGen("qstr")
        /\ "cat_module" \notin QstrPendingStages
        /\ \A k \in Kinds \ {"qstr"} :
             /\ stage # AtGen(k) /\ "cat_module" # AtGen(k)
             /\ stage \in BeforeCat(k) <=> "cat_module" \in BeforeCat(k)
    BY <1>0 DEF Kinds, Late, BeforeCat, AfterGen, AtGen, Early, Stages,
                SourceStages, QstrPendingStages
  <2> QED
    BY <1>0, <1>2, <2>1, <2>2, <2>3, GenKeeps
<1> QED
  BY <1>1, <1>2 DEF GenQstr

LEMMA GenModuleKeeps == IInv /\ GenModule => IInv'
<1> SUFFICES ASSUME IInv, GenModule PROVE IInv'
  OBVIOUS
<1>0. run = "running" /\ stage = "gen_module" /\ split' = split /\ "module" \in Kinds
  BY DEF GenModule, Running, Kinds
<1>1. CASE Fail /\ GenStopped("module")
  BY <1>0, <1>1, GenStoppedKeeps
<1>2. CASE /\ GenerateUnchecked("module") /\ stage' = "cat_root"
           /\ UNCHANGED <<tree, run, idx, before, swept>>
  <2>1. Generated("module")
    BY <1>0, <1>2, UncheckedKeepsRest
  <2>2. /\ stage \in Late /\ stage = AtGen("module") /\ "cat_root" \in Late
        /\ "cat_root" \in AfterGen("module")
        /\ "cat_root" \notin QstrPendingStages
        /\ \A k \in Kinds \ {"module"} :
             /\ stage # AtGen(k) /\ "cat_root" # AtGen(k)
             /\ stage \in BeforeCat(k) <=> "cat_root" \in BeforeCat(k)
    BY <1>0 DEF Kinds, Late, BeforeCat, AfterGen, AtGen, Early, Stages,
                SourceStages, QstrPendingStages
  <2> QED
    BY <1>0, <1>2, <2>1, <2>2, GenKeeps
<1> QED
  BY <1>1, <1>2 DEF GenModule

(* The last step; if the run succeeds, there are no split files left.      *)
LEMMA GenRootPointersKeeps == IInv /\ GenRootPointers => IInv'
<1> SUFFICES ASSUME IInv, GenRootPointers PROVE IInv'
  OBVIOUS
<1>0. /\ run = "running" /\ stage = "gen_root" /\ split' = split
      /\ "root_pointer" \in Kinds /\ stage \notin QstrPendingStages
  BY DEF GenRootPointers, Running, Kinds, QstrPendingStages, SourceStages
<1>1. CASE Fail /\ (GenStopped("root_pointer") \/ Generate("root_pointer"))
  BY <1>0, <1>1, GenStoppedKeeps
<1>2. CASE /\ GenerateUnchecked("root_pointer") /\ run' = "ok"
           /\ UNCHANGED <<tree, stage, idx, before, swept>>
  <2>1. Generated("root_pointer")
    BY <1>0, <1>2, UncheckedKeepsRest
  <2>2. \A k \in Kinds : stage \notin BeforeCat(k)
    BY <1>0 DEF BeforeCat, Early, SourceStages, Kinds
  <2>3. \A k \in Kinds : split'[k] = {}
    BY <1>0, <2>2 DEF IInv, Progress
  <2>4. TypeOK'
    BY <1>0, <1>2, <2>1 DEF IInv, TypeOK, Generated
  <2>5. QstrGate' /\ Wiped' /\ run' # "running"
    BY <1>0, <1>2, <2>3 DEF QstrGate, Wiped
  <2> QED
    BY <2>4, <2>5 DEF IInv
<1> QED
  BY <1>1, <1>2 DEF GenRootPointers

LEMMA StepIInv == IInv /\ [Next]_vars => IInv'
<1> SUFFICES ASSUME IInv, [Next]_vars PROVE IInv'
  OBVIOUS
<1>1. CASE Edit
  BY <1>1, EditKeeps
<1>2. CASE Start
  BY <1>2, StartKeeps
<1>3. CASE NotReady
  BY <1>3, NotReadyKeeps
<1>4. CASE GenVersion \/ Clear
  BY <1>4, GenVersionKeeps, ClearKeeps
<1>5. CASE Collecting
  BY <1>5, PreprocessKeeps, CollectQstrKeeps, CollectModulesKeeps,
     CollectRootPointersKeeps DEF Collecting
<1>6. CASE Generating
  BY <1>6, CatsKeep, GenQstrKeeps, GenModuleKeeps, GenRootPointersKeeps
     DEF Generating
<1>7. CASE UNCHANGED vars
  <2>1. UNCHANGED <<tree, split, collected, header, whole, run, stage, idx,
                    before, swept, unnoticed>>
    BY <1>7 DEF vars
  <2>2. TypeOK' /\ QstrGate' /\ Wiped'
    BY <2>1 DEF IInv, TypeOK, QstrGate, Wiped
  <2>3. Place' <=> Place
    BY <2>1 DEF Place
  <2>4. ASSUME NEW k \in Kinds PROVE Progress(k)' <=> Progress(k)
    <3>1. Found(k, stage, idx)' = Found(k, stage, idx)
      BY <2>1, FoundPrimed
    <3> QED
      BY <2>1, <3>1 DEF Progress, Holds, Clean
  <2> QED
    BY <2>1, <2>2, <2>3, <2>4 DEF IInv
<1> QED
  BY <1>1, <1>2, <1>3, <1>4, <1>5, <1>6, <1>7 DEF Next, Step

(* A run succeeds in its last step only, with every kind as its generator  *)
(* left it.                                                                *)
LEMMA SuccessHolds ==
  ASSUME IInv, Next, Succeeds
  PROVE  /\ \A k \in Kinds :
              IF k \in whole'
              THEN /\ Expected(k) \subseteq header'[k]
                   /\ Clean(k) => header'[k] = Expected(k)
              ELSE k # "qstr" /\ unnoticed'
         /\ stage = "gen_root" /\ UNCHANGED <<tree, before>>
<1>1. run = "running" /\ run' = "ok"
  BY DEF Succeeds
<1>2. /\ GenerateUnchecked("root_pointer") /\ Running("gen_root")
      /\ split' = split
      /\ UNCHANGED <<tree, stage, idx, before, swept>>
  <2>1. ~Edit /\ ~Start /\ ~NotReady
    BY <1>1 DEF Edit, Start, NotReady
  <2>2. ~GenVersion /\ ~Clear
    BY <1>1 DEF GenVersion, Clear, Fail
  <2>3. ~Collecting
    BY <1>1 DEF Collecting, Preprocess, CollectQstr, CollectModules,
                CollectRootPointers, Fail
  <2>4. ~CatQstr /\ ~CatModule /\ ~CatRootPointers
    BY <1>1 DEF CatQstr, CatModule, CatRootPointers, Cat, Fail
  <2>5. ~GenQstr /\ ~GenModule
    BY <1>1 DEF GenQstr, GenModule, Fail
  <2>6. GenRootPointers
    BY <2>1, <2>2, <2>3, <2>4, <2>5 DEF Next, Step, Generating
  <2> QED
    BY <1>1, <2>6 DEF GenRootPointers, Fail
<1>3. stage = "gen_root" /\ "root_pointer" \in Kinds /\ stage \in Late
      /\ stage = AtGen("root_pointer")
  BY <1>2 DEF Running, Kinds, Late, Stages, SourceStages, AtGen
<1>4. Generated("root_pointer")
  BY <1>2, <1>3, UncheckedKeepsRest
<1>5. ASSUME NEW k \in Kinds, k # "root_pointer"
      PROVE  IF k \in whole'
             THEN /\ Expected(k) \subseteq header'[k]
                  /\ Clean(k) => header'[k] = Expected(k)
             ELSE k # "qstr" /\ unnoticed'
  <2>1. stage \in AfterGen(k)
    BY <1>3, <1>5 DEF AfterGen, Stages, BeforeCat, AtGen, Early, SourceStages, Kinds
  <2>2. IF k \in whole THEN Holds(k, header[k]) ELSE k # "qstr" /\ unnoticed
    BY <1>1, <2>1 DEF IInv, Progress
  <2>3. Found(k, stage, idx) = Expected(k)
    BY <1>1, <1>3, LateFound
  <2>4. header'[k] = header[k] /\ (k \in whole' <=> k \in whole)
        /\ (unnoticed => unnoticed')
    BY <1>4, <1>5 DEF Generated
  <2> QED
    BY <2>2, <2>3, <2>4 DEF Holds
<1>6. IF "root_pointer" \in whole'
      THEN /\ Expected("root_pointer") \subseteq header'["root_pointer"]
           /\ Clean("root_pointer") => header'["root_pointer"] = Expected("root_pointer")
      ELSE "root_pointer" # "qstr" /\ unnoticed'
  BY <1>1, <1>2, <1>3, <1>4, GeneratedHolds
<1> QED
  BY <1>2, <1>3, <1>5, <1>6

(* A step that ends the run stays in its stage, and one after gen_qstr     *)
(* leaves the qstr header alone.                                           *)
LEMMA StepEnds ==
  ASSUME IInv, run = "running", Step
  PROVE  /\ tree' = tree /\ run' \in {"running", "ok", "failed"}
         /\ run' # "running" => stage' = stage /\ idx' = idx /\ UNCHANGED swept
         /\ run' = "ok" => stage = "gen_root"
         /\ stage \in AfterGen("qstr") =>
              header'["qstr"] = header["qstr"] /\ ("qstr" \in whole' <=> "qstr" \in whole)
<1> USE DEF history
<1>1. stage \in AfterGen("qstr") <=>
        stage \in {"cat_module", "gen_module", "cat_root", "gen_root"}
  BY DEF AfterGen, Stages, BeforeCat, AtGen, Early, SourceStages
<1>2. CASE GenVersion
  BY <1>1, <1>2 DEF GenVersion, Running, Fail
<1>3. CASE Clear
  BY <1>1, <1>3 DEF Clear, Running, Fail
<1>4. CASE Collecting
  BY <1>1, <1>4 DEF Collecting, Preprocess, CollectQstr, CollectModules,
                    CollectRootPointers, Running, Fail
<1>5. CASE CatQstr \/ CatModule \/ CatRootPointers
  BY <1>1, <1>5 DEF CatQstr, CatModule, CatRootPointers, Cat, Running, Fail, headers
<1>6. CASE GenQstr
  BY <1>1, <1>6 DEF GenQstr, Running, Fail
<1>7. ASSUME NEW kind \in Kinds \ {"qstr"},
             Generate(kind) \/ Truncate(kind) \/ UNCHANGED headers
      PROVE  header'["qstr"] = header["qstr"] /\ ("qstr" \in whole' <=> "qstr" \in whole)
  <2>1. header \in [Kinds -> SUBSET Srcs] /\ "qstr" \in Kinds
    BY DEF IInv, TypeOK, Kinds
  <2> QED
    BY <1>7, <2>1 DEF Generate, Truncate, headers
<1>8. CASE GenModule
  <2>1. Generate("module") \/ Truncate("module") \/ UNCHANGED headers
    BY <1>8 DEF GenModule, GenerateUnchecked, GenStopped
  <2>2. header'["qstr"] = header["qstr"] /\ ("qstr" \in whole' <=> "qstr" \in whole)
    BY <1>7, <2>1 DEF Kinds
  <2> QED
    BY <1>8, <2>2 DEF GenModule, Running, Fail
<1>9. CASE GenRootPointers
  <2>1. \/ Generate("root_pointer") \/ Truncate("root_pointer")
        \/ UNCHANGED headers
    BY <1>9 DEF GenRootPointers, GenerateUnchecked, GenStopped
  <2>2. header'["qstr"] = header["qstr"] /\ ("qstr" \in whole' <=> "qstr" \in whole)
    BY <1>7, <2>1 DEF Kinds
  <2> QED
    BY <1>9, <2>2 DEF GenRootPointers, Running, Fail
<1> QED
  BY <1>2, <1>3, <1>4, <1>5, <1>6, <1>8, <1>9 DEF Step, Generating

(* Once gen_qstr is done, the strings are in the header.                   *)
Strings ==
  stage \in AfterGen("qstr") =>
    "qstr" \in whole /\ (swept => header["qstr"] = Expected("qstr"))

LEMMA RunningStrings == IInv /\ run = "running" => Strings
<1> SUFFICES ASSUME IInv, run = "running", stage \in AfterGen("qstr")
             PROVE  "qstr" \in whole /\ (swept => header["qstr"] = Expected("qstr"))
  BY DEF Strings
<1>1. stage \in Late /\ "qstr" \in Kinds
  BY DEF Late, AfterGen, BeforeCat, AtGen, Early, Kinds
<1>2. "qstr" \in whole /\ Holds("qstr", header["qstr"])
  BY <1>1 DEF IInv, Progress
<1>3. swept => Clean("qstr")
  BY <1>1 DEF Clean, Late
<1> QED
  BY <1>1, <1>2, <1>3, LateFound DEF Holds

LEMMA StepStrings ==
  ASSUME IInv, run = "running", Step
  PROVE  Strings'
<1>1. CASE run' = "running"
  <2>1. IInv'
    BY StepIInv DEF Next
  <2>2. stage' \in AfterGen("qstr") => Holds("qstr", header["qstr"])'
                                         /\ "qstr" \in whole'
    BY <1>1, <2>1 DEF IInv, Progress, Kinds
  <2>3. stage' \in AfterGen("qstr") => Found("qstr", stage, idx)' = Expected("qstr")
    <3>1. stage' \in AfterGen("qstr") => idx' = Len(SrcFiles) + 1
      BY <1>1, <2>1 DEF IInv, Place, AfterGen, BeforeCat, AtGen, Early
    <3> QED
      BY <3>1, FoundAll, FoundPrimed, StepEnds
  <2>4. stage' \in AfterGen("qstr") /\ swept' => Clean("qstr")'
    BY DEF Clean, AfterGen, BeforeCat, AtGen, Early
  <2>5. Expected("qstr")' = Expected("qstr")
    BY StepEnds DEF Expected
  <2> QED
    BY <2>2, <2>3, <2>4, <2>5 DEF Strings, Holds
<1>2. CASE run' # "running"
  <2>1. Expected("qstr")' = Expected("qstr")
    BY StepEnds DEF Expected
  <2> QED
    BY <1>2, <2>1, StepEnds, RunningStrings DEF Strings
<1> QED
  BY <1>1, <1>2

-----------------------------------------------------------------------------
(* Every step of genhdr.py is one of the header store, or nothing to it.   *)

LEMMA StoreVars ==
  ASSUME UNCHANGED <<tree, header, whole, run, before, swept>>, Left' = Left
  PROVE  UNCHANGED Store!storeVars
<1>1. Leftovers' = Leftovers
  BY DEF Leftovers
<1> QED
  BY <1>1 DEF Store!storeVars

LEMMA SameLeft ==
  ASSUME run # "ok", run' # "ok",
         \/ stage' = stage
         \/ /\ stage \in {"version", "clear"} \cup SourceStages \cup {"cat_qstr"}
            /\ stage' \in {"version", "clear"} \cup QstrPendingStages
         \/ stage = "cat_module" /\ stage' = "gen_module"
         \/ stage = "cat_root" /\ stage' = "gen_root"
  PROVE  Left' = Left
  BY DEF Left, Kinds, QstrPendingStages, SourceStages

(* The step of a kind's generator takes the kind off what is left.         *)
LEMMA LessLeft ==
  ASSUME run = "running"
  PROVE  /\ stage = "gen_qstr" /\ stage' = "cat_module" /\ run' = "running" =>
              /\ "qstr" \in Left /\ Left' = Left \ {"qstr"} /\ Left' # {}
         /\ stage = "gen_module" /\ stage' = "cat_root" /\ run' = "running" =>
              /\ "module" \in Left /\ Left' = Left \ {"module"} /\ Left' # {}
         /\ stage = "gen_root" /\ run' = "ok" =>
              /\ "root_pointer" \in Left /\ Left' = Left \ {"root_pointer"}
              /\ Left' = {}
<1> USE DEF Left, Kinds, QstrPendingStages, SourceStages
<1>1. ASSUME stage = "gen_qstr", stage' = "cat_module", run' = "running"
      PROVE  Left = Kinds /\ Left' = {"module", "root_pointer"}
  BY <1>1
<1>2. ASSUME stage = "gen_module", stage' = "cat_root", run' = "running"
      PROVE  Left = {"module", "root_pointer"} /\ Left' = {"root_pointer"}
  BY <1>2
<1>3. ASSUME stage = "gen_root", run' = "ok"
      PROVE  Left = {"root_pointer"} /\ Left' = {}
  BY <1>3
<1> QED
  BY <1>1, <1>2, <1>3

LEMMA SameLeftovers ==
  ASSUME UNCHANGED <<before, swept>>
  PROVE  Leftovers' = Leftovers
  BY DEF Leftovers

LEMMA InitIsAbstract == Init => Store!Init
<1> SUFFICES ASSUME Init PROVE Store!Init
  OBVIOUS
<1>1. Left = Kinds /\ Leftovers = {}
  BY DEF Init, Left, Leftovers, Kinds
<1> QED
  BY <1>1 DEF Init, Store!Init, Trees

(* A generator writes the macros of the sources, and those of another tree *)
(* only if an earlier run may have left them.                              *)
LEMMA GenerateIsWrite ==
  ASSUME IInv, run = "running", NEW k \in Kinds, stage = AtGen(k), Generate(k)
  PROVE  Store!Write(k)
<1>1. stage \in Late
  BY DEF AtGen, Late, Kinds, Stages, SourceStages
<1>2. Expected(k) \subseteq collected /\ (Clean(k) => collected = Expected(k))
  BY <1>1, LateFound DEF IInv, Progress, Holds
<1>3. k \notin Leftovers => Clean(k)
  BY DEF Leftovers, Clean, AtGen
<1>4. k = "qstr" => k \notin whole
  BY DEF IInv, QstrGate, AtGen, QstrPendingStages
<1>5. collected \in SUBSET Srcs
  BY DEF IInv, TypeOK
<1> QED
  BY <1>2, <1>3, <1>4, <1>5 DEF Store!Write, Generate, Expected

LEMMA StopIsAbstract ==
  ASSUME run = "running", Fail,
         UNCHANGED headers \/ \E k \in Left : Store!Write(k) \/ Store!Unfinish(k)
  PROVE  Store!Next
<1>1. /\ run' = "failed" /\ tree' = tree /\ stage' = stage
      /\ UNCHANGED <<before, swept>>
  BY DEF Fail, history
<1>2. Left' = Left /\ Leftovers' = Leftovers
  BY <1>1, SameLeft, SameLeftovers
<1>3. UNCHANGED Store!headers \/ \E k \in Left : Store!Write(k) \/ Store!Unfinish(k)
  BY DEF headers, Store!headers
<1> QED
  BY <1>1, <1>2, <1>3 DEF Store!Next, Store!Stop

(* A run that stops in a generator. *)
LEMMA GenStoppedIsAbstract ==
  ASSUME IInv, run = "running", NEW k \in Left, Fail, GenStopped(k)
  PROVE  Store!Next
<1>1. CASE UNCHANGED headers
  BY <1>1, StopIsAbstract
<1>2. CASE Truncate(k)
  <2>1. Store!Unfinish(k)
    BY <1>2 DEF Truncate, Store!Unfinish
  <2> QED
    BY <2>1, StopIsAbstract
<1> QED
  BY <1>1, <1>2 DEF GenStopped

(* A generator that ends, noticed or not. *)
LEMMA GeneratorIsAbstract ==
  ASSUME IInv, run = "running", NEW k \in Left, stage = AtGen(k),
         UNCHANGED <<tree, before, swept>>,
         \/ Generate(k)
         \/ k # "qstr" /\ Truncate(k),
         Left' = Left \ {k}, run' = IF Left' = {} THEN "ok" ELSE "running"
  PROVE  Store!Next
<1>1. k \in Kinds
  BY DEF Left
<1>2. Store!Write(k) \/ (k # "qstr" /\ Store!Unfinish(k))
  BY <1>1, GenerateIsWrite DEF Truncate, Store!Unfinish
<1> QED
  BY <1>2, SameLeftovers DEF Store!Next, Store!Generate

LEMMA ClearIsAbstract == IInv /\ Clear => Store!Next
<1> SUFFICES ASSUME IInv, Clear PROVE Store!Next
  OBVIOUS
<1>1. run = "running" /\ stage = "clear" /\ "qstr" \in Left
  BY DEF Clear, Running, Left, Kinds
<1>2. CASE Fail /\ (Truncate("qstr") \/ UNCHANGED headers)
  <2>1. Truncate("qstr") => Store!Unfinish("qstr")
    BY DEF Truncate, Store!Unfinish
  <2> QED
    BY <1>1, <1>2, <2>1, StopIsAbstract
<1>3. CASE /\ stage' = "preprocess" /\ Truncate("qstr") /\ ClearTree
           /\ UNCHANGED <<tree, collected, run, idx, before, unnoticed>>
  <2>1. Left' = Left
    BY <1>1, <1>3, SameLeft DEF QstrPendingStages, SourceStages
  <2>2. swept' = swept \/ swept' = FALSE
    BY <1>3 DEF ClearTree
  <2>3. Leftovers' \in {Leftovers, Leftovers \cup {"qstr"}}
    BY <1>3, <2>2 DEF Leftovers, Kinds
  <2>4. Store!Unfinish("qstr")
    BY <1>3 DEF Truncate, Store!Unfinish
  <2> QED
    BY <1>1, <1>3, <2>1, <2>3, <2>4 DEF Store!Next, Store!Clear
<1> QED
  BY <1>2, <1>3 DEF Clear, headers

LEMMA GenQstrIsAbstract == IInv /\ GenQstr => Store!Next
<1> SUFFICES ASSUME IInv, GenQstr PROVE Store!Next
  OBVIOUS
<1>1. run = "running" /\ stage = "gen_qstr" /\ "qstr" \in Left
  BY DEF GenQstr, Running, Left, Kinds, QstrPendingStages
<1>2. CASE Fail /\ GenStopped("qstr")
  BY <1>1, <1>2, GenStoppedIsAbstract
<1>3. CASE /\ Generate("qstr") /\ stage' = "cat_module"
           /\ UNCHANGED <<tree, run, idx, history>>
  BY <1>1, <1>3, LessLeft, GeneratorIsAbstract DEF AtGen, history
<1> QED
  BY <1>2, <1>3 DEF GenQstr

LEMMA GenModuleIsAbstract == IInv /\ GenModule => Store!Next
<1> SUFFICES ASSUME IInv, GenModule PROVE Store!Next
  OBVIOUS
<1>1. run = "running" /\ stage = "gen_module" /\ "module" \in Left
  BY DEF GenModule, Running, Left, Kinds
<1>2. CASE Fail /\ GenStopped("module")
  BY <1>1, <1>2, GenStoppedIsAbstract
<1>3. CASE /\ GenerateUnchecked("module") /\ stage' = "cat_root"
           /\ UNCHANGED <<tree, run, idx, before, swept>>
  BY <1>1, <1>3, LessLeft, GeneratorIsAbstract DEF AtGen, GenerateUnchecked
<1> QED
  BY <1>2, <1>3 DEF GenModule

LEMMA GenRootPointersIsAbstract == IInv /\ GenRootPointers => Store!Next
<1> SUFFICES ASSUME IInv, GenRootPointers PROVE Store!Next
  OBVIOUS
<1>1. /\ run = "running" /\ stage = "gen_root"
      /\ "root_pointer" \in Left /\ "root_pointer" \in Kinds
      /\ stage = AtGen("root_pointer")
  BY DEF GenRootPointers, Running, Left, Kinds, AtGen
<1>2. CASE Fail /\ GenStopped("root_pointer")
  BY <1>1, <1>2, GenStoppedIsAbstract
<1>3. CASE Fail /\ Generate("root_pointer")
  BY <1>1, <1>3, GenerateIsWrite, StopIsAbstract
<1>4. CASE /\ GenerateUnchecked("root_pointer") /\ run' = "ok"
           /\ UNCHANGED <<tree, stage, idx, before, swept>>
  BY <1>1, <1>4, LessLeft, GeneratorIsAbstract DEF GenerateUnchecked
<1> QED
  BY <1>2, <1>3, <1>4 DEF GenRootPointers

(* The steps that collect macros leave the headers alone. *)
LEMMA CollectIsQuiet ==
  ASSUME IInv, \/ GenVersion \/ Collecting
               \/ CatQstr \/ CatModule \/ CatRootPointers
  PROVE  Store!Next \/ UNCHANGED Store!storeVars
<1>1. run = "running" /\ UNCHANGED headers
  BY DEF GenVersion, Collecting, Preprocess, CollectQstr, CollectModules,
         CollectRootPointers, CatQstr, CatModule, CatRootPointers, Cat, Running,
         files
<1>2. CASE Fail
  BY <1>1, <1>2, StopIsAbstract
<1>3. CASE ~Fail
  <2>1. UNCHANGED <<tree, run, before, swept>>
    BY <1>3 DEF GenVersion, Collecting, Preprocess, CollectQstr, CollectModules,
           CollectRootPointers, CatQstr, CatModule, CatRootPointers, Cat, history
  <2>2. \/ stage = "version" /\ stage' = "clear"
        \/ stage \in SourceStages /\ stage' \in SourceStages \cup {"cat_qstr"}
        \/ stage = "cat_qstr" /\ stage' = "gen_qstr"
        \/ stage = "cat_module" /\ stage' = "gen_module"
        \/ stage = "cat_root" /\ stage' = "gen_root"
    BY <1>3 DEF GenVersion, Collecting, Preprocess, CollectQstr, CollectModules,
           CollectRootPointers, CatQstr, CatModule, CatRootPointers, Cat, Running,
           AfterSource, SourceStages
  <2>3. Left' = Left
    BY <1>1, <2>1, <2>2, SameLeft DEF QstrPendingStages
  <2> QED
    BY <1>1, <2>1, <2>3, StoreVars DEF headers
<1> QED
  BY <1>2, <1>3

LEMMA StepIsAbstract ==
  ASSUME IInv, Step
  PROVE  Store!Next \/ UNCHANGED Store!storeVars
  BY CollectIsQuiet, ClearIsAbstract, GenQstrIsAbstract, GenModuleIsAbstract,
     GenRootPointersIsAbstract DEF Step, Generating

(* Edits of the tree, and the start of a run. *)
LEMMA EditIsAbstract == Edit => Store!Next
<1> SUFFICES ASSUME Edit PROVE Store!Next
  OBVIOUS
<1>1. run # "running" /\ tree' \in Trees
      /\ UNCHANGED <<header, whole, run, stage, before, swept>>
  BY DEF Edit, files, headers, history
<1>2. Left' = Left
  BY <1>1 DEF Left
<1> QED
  BY <1>1, <1>2, SameLeftovers DEF Store!Next, Store!Edit, Store!headers, Trees

LEMMA StartIsAbstract == Start \/ NotReady => Store!Next
<1> SUFFICES ASSUME Start \/ NotReady PROVE Store!Next
  OBVIOUS
<1>1. /\ run # "running" /\ run' \in {"running", "failed"} /\ stage' = "version"
      /\ before' = run /\ swept' = TRUE
      /\ UNCHANGED <<tree, header, whole>>
  BY DEF Start, NotReady, files, headers
<1>2. Left' = Kinds
  BY <1>1 DEF Left
<1>3. Leftovers' = IF run = "failed" THEN Kinds \ {"qstr"} ELSE {}
  BY <1>1 DEF Leftovers
<1> QED
  BY <1>1, <1>2, <1>3 DEF Store!Next, Store!Begin, Store!headers

-----------------------------------------------------------------------------
(* The inductive invariant of the header generator. *)
THEOREM RunInvariant == Spec => []IInv
  BY InitIInv, StepIInv, PTL DEF Spec

(* Every variable keeps its type, for every set and list of sources. *)
THEOREM TypeCorrect == Spec => []TypeOK
<1>1. IInv => TypeOK
  BY DEF IInv
<1> QED
  BY <1>1, RunInvariant, PTL

(* From clear_file to the end of the generator there is no complete qstr   *)
(* header, whatever failed in between.                                     *)
THEOREM NoOldStrings == Spec => []QstrGate
<1>1. IInv => QstrGate
  BY DEF IInv
<1> QED
  BY <1>1, RunInvariant, PTL

(* A run that succeeds after it emptied the qstr directory leaves exactly  *)
(* the strings of the sources, whatever runs failed before it.             *)
THEOREM StringsAreFresh == Spec => QstrFresh
<1>1. IInv /\ [Next]_vars =>
        [Succeeds /\ swept =>
           "qstr" \in whole' /\ header'["qstr"] = Expected("qstr")]_vars
  <2> SUFFICES ASSUME IInv, Next, Succeeds, swept
               PROVE  "qstr" \in whole' /\ header'["qstr"] = Expected("qstr")
    BY DEF vars
  <2>1. Clean("qstr")
    BY SuccessHolds DEF Clean
  <2> QED
    BY <2>1, SuccessHolds DEF Kinds
<1> QED
  BY <1>1, RunInvariant, PTL DEF Spec, QstrFresh

(* A run that succeeds leaves no macro out, but for a failure it did not   *)
(* notice.                                                                 *)
THEOREM NothingLeftOut == Spec => NothingMissing
<1>1. IInv /\ [Next]_vars =>
        [Succeeds => \A k \in Kinds :
           IF k \in whole' THEN Expected(k) \subseteq header'[k]
                           ELSE k # "qstr" /\ unnoticed']_vars
  <2> SUFFICES ASSUME IInv, Next, Succeeds, NEW k \in Kinds
               PROVE  IF k \in whole' THEN Expected(k) \subseteq header'[k]
                                      ELSE k # "qstr" /\ unnoticed'
    BY DEF vars
  <2> QED
    BY SuccessHolds
<1> QED
  BY <1>1, RunInvariant, PTL DEF Spec, NothingMissing

(* A run that succeeds after one that did is exact in every whole header.  *)
THEOREM ExactAfterSuccess == Spec => CleanAfterSuccess
<1>1. IInv /\ [Next]_vars =>
        [Succeeds /\ before # "failed" =>
           \A k \in whole' : header'[k] = Expected(k)]_vars
  <2> SUFFICES ASSUME IInv, Next, Succeeds, before # "failed", NEW k \in whole'
               PROVE  header'[k] = Expected(k)
    BY DEF vars
  <2>1. IInv'
    BY StepIInv
  <2>2. k \in Kinds
    BY <2>1 DEF IInv, TypeOK
  <2>3. Clean(k)
    BY DEF Clean
  <2> QED
    BY <2>2, <2>3, SuccessHolds
<1> QED
  BY <1>1, RunInvariant, PTL DEF Spec, CleanAfterSuccess

(* However runs of genhdr.py fail, and whatever is edited between them,    *)
(* the headers are unfinished or were written from the sources: the many   *)
(* steps of a run come to one that clears the strings and one for each     *)
(* header, and where a run stops it spoils at most one (genhdr.py:272-294).*)
THEOREM ImplementsStore == Spec => KeepsHeaders
<1>1. IInv /\ [Next]_vars => [Store!Next]_(Store!storeVars)
  <2> SUFFICES ASSUME IInv, [Next]_vars
               PROVE  Store!Next \/ UNCHANGED Store!storeVars
    OBVIOUS
  <2>1. CASE UNCHANGED vars
    <3>1. UNCHANGED <<tree, header, whole, run, stage, before, swept>>
      BY <2>1 DEF vars
    <3>2. Left' = Left
      BY <3>1 DEF Left
    <3> QED
      BY <3>1, <3>2, StoreVars
  <2> QED
    BY <2>1, StepIsAbstract, EditIsAbstract, StartIsAbstract DEF Next
<1> QED
  BY <1>1, InitIsAbstract, RunInvariant, PTL DEF Spec, KeepsHeaders, Store!Spec
=============================================================================
