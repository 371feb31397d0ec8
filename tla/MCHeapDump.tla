------------------------------ MODULE MCHeapDump ------------------------------
(* Instances of HeapDump for TLC.                                           *)
EXTENDS HeapDump, TLC

Symmetry == Permutations(Process)

=============================================================================
