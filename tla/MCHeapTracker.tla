--------------------------- MODULE MCHeapTracker ---------------------------
(***************************************************************************)
(* HeapTracker on small instances.                                         *)
(***************************************************************************)
EXTENDS HeapTracker, TLC

CONSTANTS m, t1, t2

\* The threads other than the main one are interchangeable.
Workers == Permutations(Threads \ {Main})
=============================================================================
