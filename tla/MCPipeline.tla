----------------------------- MODULE MCPipeline -----------------------------
(***************************************************************************)
(* Pipeline on small instances.                                            *)
(***************************************************************************)
EXTENDS Pipeline

\* A library that is shipped, one that is not, and the native experiment.
ThreeExperiments == <<"heap_tracker", "coverage", "native">>

\* A crate with two commands, one that is skipped and one with a single command.
ThreeCrates == <<"memchr", "rayon-core", "ring">>
SmallCommands ==
    [c \in Range(ThreeCrates) |->
       LET shows(lines) == [registered |-> Lines, executed |-> lines]
       IN  IF c = "memchr" THEN <<shows({}), shows({"src/a.rs:1"})>> ELSE <<shows({"dep/b.rs:2"})>>]

OneExperiment == <<"coverage">>
OnlyNative == <<"native">>
=============================================================================
