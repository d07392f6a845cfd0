----------------------------- MODULE MCPayload -----------------------------
EXTENDS Payload

(* A loader with all the services, and one without each of them. *)
MCMissing == {{}} \cup {{s} : s \in ServiceNames}

(* Six pages; the loader uses none, one that splits the memory, or so many *)
(* that no heap of two pages fits.                                         *)
MCReserved == {{}, {3}, {2, 4, 6}}

(* One page and its two boundaries, and two pages. *)
MCFileSizes == {1, PageSize, PageSize + 1}

(* Not a whole number of pages. *)
MCHeapSize == PageSize + 100
=============================================================================
