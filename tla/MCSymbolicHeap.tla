--------------------------- MODULE MCSymbolicHeap ---------------------------
(* SymbolicHeap for TLC.  Operands are interchangeable.                    *)
EXTENDS SymbolicHeap, TLC

HeapSymmetry == Permutations(Nodes)
=============================================================================
