------------------------- MODULE MCThreadRegistry -------------------------
(***************************************************************************)
(* ThreadRegistry on small instances.                                      *)
(***************************************************************************)
EXTENDS ThreadRegistry, TLC

CONSTANTS m, t1, t2, t3

\* The threads other than the main one are interchangeable.
Workers == Permutations(Threads \ ({Main} \cup LateHooks))
=============================================================================
