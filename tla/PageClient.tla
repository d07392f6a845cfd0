----------------------------- MODULE PageClient ----------------------------
(***************************************************************************)
(* What the boot loader may expect of a payload that uses its page         *)
(* services: a block of pages is taken only from free memory, and pages go *)
(* back only as a whole block that was taken and not yet returned.  The    *)
(* payload may keep a block for ever.                                      *)
(***************************************************************************)
EXTENDS Integers, Pages

CONSTANT MaxPages   \* the loader manages pages 1 .. MaxPages

VARIABLES
  owned,    \* the pages in use, by the loader itself or by the payload
  blocks    \* the blocks the payload has taken and not returned

clientVars == <<owned, blocks>>

Init ==
  /\ owned \in SUBSET (1..MaxPages)
  /\ blocks = {}

Take(b) ==
  /\ PagesOf(b) \subseteq 1..MaxPages
  /\ PagesOf(b) \cap owned = {}
  /\ owned' = owned \cup PagesOf(b)
  /\ blocks' = blocks \cup {b}

Return(b) ==
  /\ b \in blocks
  /\ owned' = owned \ PagesOf(b)
  /\ blocks' = blocks \ {b}

Next ==
  \/ \E p, n \in 1..MaxPages : Take(Block(p, n))
  \/ \E b \in blocks : Return(b)

Spec == Init /\ [][Next]_clientVars
=============================================================================
