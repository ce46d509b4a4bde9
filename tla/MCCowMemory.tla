---------------------------- MODULE MCCowMemory -----------------------------
(* CowMemory for TLC.  Page objects and wild values are interchangeable.   *)
EXTENDS CowMemory, TLC

PageSymmetry == Permutations(Pages)

(* The same reduction where it must respect liveness, for pages that are   *)
(* numbers: of the pages that are unused the first is allocated.           *)
AllocateInOrder ==
    \A p, q \in Pages : q < p /\ status'[p] # "unused" => status'[q] # "unused"
=============================================================================
