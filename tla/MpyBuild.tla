------------------------------ MODULE MpyBuild ------------------------------
(***************************************************************************)
(* BuildMicroPython.py and Tools/prep.py: how the payload is built around  *)
(* genhdr.py.  "build" fetches the MicroPython submodule and the loader's  *)
(* tree, copies the repository into it, runs genhdr.py there and then the  *)
(* loader's own build; "clean" removes what a build made.  prep.py runs    *)
(* genhdr.py in a repository that was cloned into a loader's tree.         *)
(*                                                                         *)
(* There are two directories genhdr.py is run in, each with sources and a  *)
(* genhdr directory of its own: the repository, and its copy.  A build     *)
(* works in the copy, unless the loader's tree that it is given is the one *)
(* the repository was cloned into.  The copy is made of everything, the    *)
(* repository's own genhdr directory too.                                  *)
(*                                                                         *)
(* git, the loader's build tools and the compiler are external.            *)
(***************************************************************************)
EXTENDS Genhdr   \* in the directory the command at hand works in

VARIABLES
  phase,      \* the step of the command that is running, or "idle"
  dir,        \* the directory at hand: the repository, but for the copy
              \* from when a build has made it to the build's end
  aside,      \* the files of the other one
  inTree,     \* the repository is PayloadModPkg of a loader's tree
  submodule,  \* MicroPython in the repository: "empty", "old", "current"
  loader      \* the loader's tree that the copy belongs in is there

place == <<dir, aside>>
given == <<inTree, submodule, loader>>
buildVars == <<vars, phase, place, given>>

(* What a directory holds, and how the last run in it left it. *)
Files == [tree |-> tree, split |-> split, header |-> header, whole |-> whole,
          run |-> run]

Sources == IF dir = "repository" THEN tree ELSE aside.tree

BuildInit ==
  /\ Init
  /\ phase = "idle"
  /\ dir = "repository" /\ aside = Files
  /\ inTree \in BOOLEAN
  /\ submodule \in {"empty", "old", "current"}
  /\ loader \in BOOLEAN

(* The directory with the files f is at hand, and no run is.               *)
Open(f) ==
  /\ tree' = f.tree
  /\ split' = f.split /\ collected' = {}
  /\ header' = f.header /\ whole' = f.whole
  /\ run' = f.run /\ stage' = "version" /\ idx' = 1
  /\ before' = "none" /\ swept' = TRUE /\ unnoticed' = FALSE

(* The end of a command. *)
Return ==
  /\ phase' = "idle"
  /\ dir' = "repository"
  /\ IF dir = "repository" THEN Open(Files) /\ UNCHANGED aside
                           ELSE Open(aside) /\ aside' = Files

-----------------------------------------------------------------------------
(* The developer *)

(* Sources are edited; the submodule's commit changes with a pull. *)
EditSources ==
  /\ phase = "idle"
  /\ Edit
  /\ submodule' \in {submodule, IF submodule = "current" THEN "old" ELSE submodule}
  /\ UNCHANGED <<phase, place, inTree, loader>>

-----------------------------------------------------------------------------
(* cmd_build *)

CmdBuild ==
  /\ phase = "idle"
  /\ phase' = "fetch"
  /\ UNCHANGED <<vars, place, given>>

(* git submodule update --init: its exit status is not looked at. *)
FetchSubmodule ==
  /\ phase = "fetch"
  /\ submodule' \in {submodule, "current"}
  /\ phase' = "clone"
  /\ UNCHANGED <<vars, place, inTree, loader>>

(* git clone of the loader, unless its tree is given or there. *)
CloneLoader ==
  /\ phase = "clone"
  /\ loader' \in {loader, TRUE}
  /\ phase' = "verify"
  /\ UNCHANGED <<vars, place, inTree, submodule>>

(* The loader's BuildUtility is imported, and looks for the tool chain. *)
VerifyToolchains ==
  /\ phase = "verify"
  /\ \/ (loader \/ inTree) /\ phase' = "copy"
     \/ phase' = "idle"
  /\ UNCHANGED <<vars, place, given>>

(* copytree overwrites, and removes nothing: split files of a run in the   *)
(* repository join those in the copy, and headers replace the copy's.      *)
(* What has been copied: sources, split files, headers that were opened    *)
(* for it and those that were finished.  The copy is left as a failed run  *)
(* leaves it, if the repository was.                                       *)
Overwritten(sources, taken, opened, finished) ==
  [tree   |-> [s \in Srcs |-> IF s \in sources THEN tree[s] ELSE aside.tree[s]],
   split  |-> [k \in Kinds |->
                 aside.split[k] \cup {s \in split[k] : <<k, s>> \in taken}],
   header |-> [k \in Kinds |-> IF k \notin opened THEN aside.header[k]
                               ELSE IF k \in finished THEN header[k] ELSE {}],
   whole  |-> (aside.whole \ opened) \cup (whole \cap finished),
   run    |-> IF run = "failed" THEN "failed" ELSE aside.run]

SplitFiles == Kinds \X Srcs

(* The repository's headers: those that are whole, and any that were only  *)
(* opened.                                                                 *)
HeaderFiles ==
  {there \in SUBSET Kinds : whole \subseteq there /\ (run = "none" => there = {})}

BugNoCopy ==
  /\ dir' = "copy" /\ aside' = Files
  /\ \E there \in HeaderFiles : Open(Overwritten({}, SplitFiles, there, there))

CopyTree ==
  /\ dir' = "copy" /\ aside' = Files
  /\ \E there \in HeaderFiles : Open(Overwritten(Srcs, SplitFiles, there, there))

(* Some files could not be copied, or the script was stopped: others have  *)
(* been, or some of each.                                                  *)
CopyStopped ==
  /\ \E sources \in SUBSET Srcs, taken \in SUBSET SplitFiles,
        opened \in UNION {SUBSET there : there \in HeaderFiles} :
       \E finished \in SUBSET opened :
         aside' = [Overwritten(sources, taken, opened, finished)
                     EXCEPT !.run = "failed"]
  /\ UNCHANGED <<vars, dir>>

(* prep_mpy: copy the repository into the loader's tree, unless that is    *)
(* the one it is in, and make the genhdr directory.                        *)
PrepMpy ==
  /\ phase = "copy"
  /\ \/ loader /\ CopyTree /\ phase' = "genhdr_start"
     \/ inTree /\ phase' = "genhdr_start" /\ UNCHANGED <<vars, place>>
     \/ loader /\ CopyStopped /\ phase' = "idle"
  /\ UNCHANGED given

(* Without the submodule the first script that genhdr.py calls is missing. *)
RunGenhdr ==
  /\ \/ Start /\ submodule # "empty"
     \/ NotReady
  /\ UNCHANGED <<place, given>>

StartGenhdr == phase = "genhdr_start" /\ RunGenhdr /\ phase' = "genhdr"

(* genhdr.py at work, for either script. *)
GenhdrStep ==
  /\ phase \in {"genhdr", "prep"}
  /\ Step
  /\ UNCHANGED <<phase, place, given>>

(* prep_mpy goes on when genhdr.py has ended, however it has. *)
GenhdrEnded == run # "running"

StartLoaderBuild ==
  /\ phase = "genhdr" /\ GenhdrEnded
  /\ phase' = "loader"
  /\ UNCHANGED <<vars, place, given>>

(* BuildLoader.py, whose exit status is not looked at either. *)
LoaderBuildEnds == phase = "loader" /\ Return /\ UNCHANGED given

-----------------------------------------------------------------------------
(* cmd_clean and prep.py *)

(* With the loader's tree that "build" cloned goes the copy in it: removed *)
(* with the tree, or cleaned by git; what cannot be removed stays.  The    *)
(* copied sources are gone too, and come back before they are used.        *)
Cleaned(f, kept) ==
  [f EXCEPT !.split  = [k \in Kinds |-> IF k \in kept THEN f.split[k] ELSE {}],
            !.header = [k \in Kinds |-> IF k \in kept THEN f.header[k] ELSE {}],
            !.whole  = f.whole \cap kept]

CmdClean ==
  /\ phase = "idle" /\ loader
  /\ \E kept \in SUBSET Kinds : aside' = Cleaned(aside, kept)
  /\ loader' \in BOOLEAN
  /\ UNCHANGED <<vars, phase, dir, inTree, submodule>>

(* prep.py is only of use in the loader's tree: it imports its tools.      *)
Prep == phase = "idle" /\ inTree /\ RunGenhdr /\ phase' = "prep"

PrepEnds == phase = "prep" /\ GenhdrEnded /\ Return /\ UNCHANGED given

Build == CmdBuild \/ FetchSubmodule \/ CloneLoader \/ VerifyToolchains
           \/ PrepMpy \/ StartGenhdr \/ StartLoaderBuild \/ LoaderBuildEnds

BuildNext == EditSources \/ Build \/ GenhdrStep \/ CmdClean \/ Prep \/ PrepEnds

BuildSpec == BuildInit /\ [][BuildNext]_buildVars
-----------------------------------------------------------------------------
(* Properties *)

Phases == {"idle", "fetch", "clone", "verify", "copy", "genhdr_start",
           "genhdr", "prep", "loader"}

FilesType ==
  [tree : Trees, split : [Kinds -> SUBSET Srcs], header : [Kinds -> SUBSET Srcs],
   whole : SUBSET Kinds, run : {"none", "ok", "failed"}]

(* The value every variable may have. *)
BuildTypeOK ==
  /\ TypeOK
  /\ phase \in Phases
  /\ dir \in {"repository", "copy"} /\ aside \in FilesType
  /\ inTree \in BOOLEAN /\ loader \in BOOLEAN
  /\ submodule \in {"empty", "old", "current"}
  /\ run = "running" => phase \in {"genhdr", "prep"}

SourcesWith(kind) == {s \in Srcs : kind \in Sources[s]}

(* Whatever was built, prepared, cleaned, edited and interrupted before,   *)
(* a loader build that follows a successful genhdr.py sees the strings of  *)
(* the repository's sources (BuildMicroPython.py:31-32,45-48).             *)
LoaderSeesSources ==
  phase = "loader" /\ run = "ok" /\ swept =>
    "qstr" \in whole /\ header["qstr"] = SourcesWith("qstr")

(* The exit status of genhdr.py is ignored, and mostly no harm is done:    *)
(* the qstr header is unfinished, and does not compile, or is that of the  *)
(* sources.  Only a run that ended before clear_file leaves the strings of *)
(* an older tree for the compiler (BuildMicroPython.py:48, genhdr.py:274). *)
StaleStringsOnlyIfNotCleared ==
  phase = "loader" /\ "qstr" \in whole /\ swept =>
    \/ header["qstr"] = SourcesWith("qstr")
    \/ run = "failed" /\ stage \in {"version", "clear"}

(* After a successful genhdr.py no header lacks a macro of the             *)
(* repository's sources, but for a generator whose failure genhdr.py did   *)
(* not notice.  And none holds one too many, unless the run before failed, *)
(* in the copy or in the repository: as often as the repository is copied  *)
(* after a prep.py that failed in it, what that left comes along           *)
(* (BuildMicroPython.py:31-32,45-48, genhdr.py:55,80).                     *)
LoaderSeesHeaders ==
  phase = "loader" /\ run = "ok" =>
    \A k \in Kinds :
      IF k \in whole
      THEN /\ SourcesWith(k) \subseteq header[k]
           /\ before # "failed" => header[k] = SourcesWith(k)
      ELSE k # "qstr" /\ unnoticed

(* "for MicroPython it is required to generate build header files" before  *)
(* the payload is built (README.md:21-22).                                 *)
HeadersRequired == phase = "loader" => run = "ok"

(* "Make sure MicroPython submodule is fetched." (BuildMicroPython.py:57)  *)
SubmoduleFetched ==
  phase \in {"clone", "verify", "copy", "genhdr_start", "genhdr", "loader"} =>
    submodule = "current"
=============================================================================
