-------------------------- MODULE MCCycleContext --------------------------
(***************************************************************************)
(* CycleContext on small instances.                                        *)
(***************************************************************************)
EXTENDS CycleContext
=============================================================================
