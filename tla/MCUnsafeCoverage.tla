-------------------------- MODULE MCUnsafeCoverage --------------------------
(***************************************************************************)
(* UnsafeCoverage on small instances.                                      *)
(***************************************************************************)
EXTENDS UnsafeCoverage, TLC

CONSTANTS m, t1, t2, l1, l2

\* The threads other than the main one, and the lines, are interchangeable.
Symmetric == Permutations(Threads \ {Main}) \cup Permutations(Lines)
=============================================================================
