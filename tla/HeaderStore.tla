----------------------------- MODULE HeaderStore ----------------------------
(***************************************************************************)
(* What the compiler may expect of the generated headers, whatever failed: *)
(* a header is unfinished, or it was written from the sources as they were *)
(* in that run.  Strings are never written over a header that counts as    *)
(* finished.  A run that succeeds has dealt with every header; one that    *)
(* stops may spoil one of those still to do, or have finished it.          *)
(***************************************************************************)
CONSTANTS
  Srcs,     \* source files
  Kinds,    \* the headers: one for each kind of macros
  Macros    \* the kinds of macros a source may have: sets of kinds

VARIABLES
  tree,     \* the kinds of macros in each source
  header,   \* the macros in each header, as the set of their sources
  whole,    \* the headers that are finished
  run,      \* "none", "running", "ok", or "failed": the last run
  left,     \* the headers the run has still to deal with
  dirty     \* the kinds of which an earlier run may have left macros

storeVars == <<tree, header, whole, run, left, dirty>>
headers == <<header, whole>>

Init ==
  /\ tree \in [Srcs -> Macros]
  /\ header = [k \in Kinds |-> {}] /\ whole = {}
  /\ run = "none" /\ left = Kinds /\ dirty = {}

Unfinish(k) ==
  /\ header' = [header EXCEPT ![k] = {}]
  /\ whole' = whole \ {k}

Write(k) ==
  /\ k = "qstr" => k \notin whole
  /\ \E macros \in SUBSET Srcs :
       /\ {s \in Srcs : k \in tree[s]} \subseteq macros
       /\ k \notin dirty => macros = {s \in Srcs : k \in tree[s]}
       /\ header' = [header EXCEPT ![k] = macros]
  /\ whole' = whole \cup {k}

(* Sources change, and finished headers are removed, between runs.         *)
Edit ==
  /\ run # "running"
  /\ tree' \in [Srcs -> Macros]
  /\ UNCHANGED <<headers, run, left, dirty>>

Discard ==
  /\ run # "running"
  /\ \E kept \in SUBSET Kinds :
       /\ header' = [k \in Kinds |-> IF k \in kept THEN header[k] ELSE {}]
       /\ whole' = whole \cap kept
  /\ UNCHANGED <<tree, run, left, dirty>>

(* Only a run that failed leaves macros of the tree it ran on.             *)
Begin ==
  /\ run # "running"
  /\ run' \in {"running", "failed"}
  /\ left' = Kinds
  /\ dirty' = IF run = "failed" THEN Kinds \ {"qstr"} ELSE {}
  /\ UNCHANGED <<tree, headers>>

(* Strings of earlier runs are cleared away, or cannot be.                 *)
Clear ==
  /\ run = "running" /\ "qstr" \in left
  /\ Unfinish("qstr")
  /\ dirty' \in {dirty, dirty \cup {"qstr"}}
  /\ UNCHANGED <<tree, run, left>>

(* Only the strings' generator is checked.                                 *)
Generate(k) ==
  /\ run = "running"
  /\ Write(k) \/ (k # "qstr" /\ Unfinish(k))
  /\ left' = left \ {k}
  /\ run' = IF left' = {} THEN "ok" ELSE "running"
  /\ UNCHANGED <<tree, dirty>>

Stop ==
  /\ run = "running"
  /\ run' = "failed"
  /\ UNCHANGED headers \/ \E k \in left : Write(k) \/ Unfinish(k)
  /\ UNCHANGED <<tree, left, dirty>>

Next == Edit \/ Discard \/ Begin \/ Clear \/ (\E k \in left : Generate(k)) \/ Stop

Spec == Init /\ [][Next]_storeVars
=============================================================================
