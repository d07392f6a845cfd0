------------------------------- MODULE Pages -------------------------------
(***************************************************************************)
(* Memory in pages, as the loader's page services hand it out.  Page 0 is  *)
(* never handed out: a pointer with value 0 is the C NULL pointer.         *)
(***************************************************************************)
EXTENDS Integers

NULL == 0

PageSize == 4096

BugFloor(size) == size \div PageSize

BugAlwaysOneMore(size) == size \div PageSize + 1

(* EFI_SIZE_TO_PAGES of the firmware headers: a shift, and one more page   *)
(* if any bit below the shift is set.                                      *)
SizeToPages(size) ==
  (size \div PageSize) + (IF size % PageSize # 0 THEN 1 ELSE 0)

Block(first, count) == [first |-> first, count |-> count]

PagesOf(b) == b.first .. (b.first + b.count - 1)

(* The block a pointer p stands for; no block for NULL.                    *)
BlockAt(p, count) == IF p = NULL THEN {} ELSE {Block(p, count)}

AllPages(blocks) == UNION {PagesOf(b) : b \in blocks}

PairwiseDisjoint(blocks) ==
  \A b, c \in blocks : b # c => PagesOf(b) \cap PagesOf(c) = {}
=============================================================================
