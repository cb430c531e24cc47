-------------------------- MODULE MCUnsafeCounter --------------------------
(***************************************************************************)
(* UnsafeCounter on small instances.                                       *)
(***************************************************************************)
EXTENDS UnsafeCounter, TLC

CONSTANTS m, t1, t2

\* The threads other than the main one are interchangeable.
Workers == Permutations(Threads \ {Main})

\* A module with safe and unsafe functions, one without functions, one whose table
\* is too long.
SmallTables == {<<TRUE, FALSE, TRUE>>, << >>, <<TRUE, TRUE, FALSE, FALSE>>}
=============================================================================
