------------------------ MODULE ThreadRegistryProofs ------------------------
(***************************************************************************)
(* Proofs, for any number of threads and any size of the table, that slots *)
(* of the thread registry are never shared, and lost only to a hook of a   *)
(* thread-local destructor.  Neither invariant is inductive as it stands:  *)
(* whether a step keeps it depends on the other one, and on where each     *)
(* thread is in initialize_thread, thread_cleanup and the report           *)
(* (LocalInv).                                                             *)
(*                                                                         *)
(* The argument: all but three actions leave "thread t keeps slot s" as it *)
(* is (QuietHolds); ClaimWon and GrowRegistry give a thread a slot that    *)
(* nobody has (ClaimWonHolds, GrowHolds), MarkTerminated takes one away    *)
(* (MarkHolds).  Last, that one report is written (OnceInv).               *)
(***************************************************************************)
EXTENDS ThreadRegistry, FiniteSetTheorems, TLAPS

\* A thread has no slot while it looks for one, has one while it cleans up,
\* has released it only after that; the slot it looks at is in the table; and
\* the main thread alone reports.
LocalInv ==
    \A t \in Threads :
      /\ pc[t] \in Allocating \cup {"idle"} => THREAD_SLOT[t] = None
      /\ pc[t] \in {"cleanup", "mark"} => THREAD_SLOT[t] # None
      /\ t \in released => THREAD_SLOT[t] # None /\ pc[t] \in {"dtors", "gone"}
      /\ pc[t] \in {"claim", "reset", "activate", "add"} => slot[t] < MaxThreads
      /\ pc[t] \in Reporting \cup {"exited"} => t = Main
      /\ back[t] = "dtors" =>
           /\ t \in LateHooks \ released
           /\ pc[t] \in Allocating \cup {"dtors", "gone"}
      /\ pc[t] \in {"dtors", "gone"} /\ THREAD_SLOT[t] # None /\ t \notin released =>
           back[t] = "dtors"

\* The books of the table, in which a thread that has died keeps what it had.
KeepsAccounted ==
    \A s \in Slots :
      IF s < next_slot
      THEN state[s] = "Terminated" <=> ~ \E t \in Threads : Keeps(t, s)
      ELSE state[s] = "Uninitialized" /\ ~ \E t \in Threads : Keeps(t, s)

TableAccounted == KeepsAccounted /\ ExcessUndone

\* The inductive invariant.
SafeInv == TypeOK /\ LocalInv /\ SlotExclusive /\ TableAccounted

\* The three ways a step can change who holds what.
HoldsUnchanged ==
    \A u \in Threads, s \in Slots : Keeps(u, s)' <=> Keeps(u, s)

HoldsGained(t, s0) ==
    \A u \in Threads, s \in Slots :
      Keeps(u, s)' <=> Keeps(u, s) \/ (u = t /\ s = s0)

HoldsLost(t, s0) ==
    \A u \in Threads, s \in Slots :
      Keeps(u, s)' <=> Keeps(u, s) /\ ~ (u = t /\ s = s0)

-----------------------------------------------------------------------------
(* The initial states                                                      *)

\* ThreadRegistry::new leaves every slot untouched and no thread has one.
LEMMA SafeInit == Init => SafeInv
<1> SUFFICES ASSUME Init PROVE SafeInv
  OBVIOUS
<1> USE ThreadsAssumption, MaxThreadsAssumption DEF Init
<1>1. TypeOK
  <2>1. pc \in [Threads -> Locations]
    BY DEF Locations, Allocating
  <2>2. /\ state \in [Slots -> States]
        /\ cycles \in [Slots -> Nat]
        /\ back \in [Threads -> {"run", "dtors"}]
    BY DEF States
  <2>3. /\ bound \in [Threads -> 0 .. MaxThreads]
        /\ slot \in [Threads -> 0 .. MaxThreads]
    BY DEF Slots
  <2>4. THREAD_SLOT \in [Threads -> Slots \cup {None}]
    OBVIOUS
  <2> QED
    BY <2>1, <2>2, <2>3, <2>4 DEF TypeOK
<1>2. LocalInv
  BY DEF LocalInv, None, Allocating, Reporting
<1>3. \A t \in Threads, s \in Slots : ~ Keeps(t, s)
  BY DEF Keeps, Slots, None
<1>4. SlotExclusive
  BY <1>3 DEF SlotExclusive
<1>5. KeepsAccounted
  BY <1>3 DEF KeepsAccounted, Slots
<1>6. ExcessUndone
  <2>1. Undoing = {}
    BY DEF Undoing
  <2> QED
    BY <2>1 DEF ExcessUndone
<1> QED
  BY <1>1, <1>2, <1>4, <1>5, <1>6 DEF SafeInv, TableAccounted

-----------------------------------------------------------------------------
(* Types and local state                                                   *)

\* Every value stays in its type.  The one that could leave it is next_slot,
\* in UndoGrow: ExcessUndone keeps the subtraction above zero.
LEMMA TypeStep == TypeOK /\ LocalInv /\ ExcessUndone /\ [Next]_vars => TypeOK'
<1> SUFFICES ASSUME TypeOK, LocalInv, ExcessUndone, [Next]_vars PROVE TypeOK'
  OBVIOUS
<1> USE ThreadsAssumption, MaxThreadsAssumption
<1>1. ASSUME NEW t \in Threads, LoadBound(t) PROVE TypeOK'
  <2>1. bound' \in [Threads -> 0 .. MaxThreads]
    BY <1>1 DEF LoadBound, TypeOK, Lesser
  <2>2. slot' \in [Threads -> 0 .. MaxThreads]
    BY <1>1 DEF LoadBound, TypeOK
  <2>3. pc' \in [Threads -> Locations]
    BY <1>1 DEF LoadBound, TypeOK, At, GoTo, Locations, Allocating, Reporting
  <2> QED
    BY <2>1, <2>2, <2>3, <1>1 DEF LoadBound, TypeOK, shared, local, reporting, history
<1>2. ASSUME NEW t \in Threads, ScanSlot(t) PROVE TypeOK'
  <2>1. slot' \in [Threads -> 0 .. MaxThreads]
    <3>1. slot[t] \in 0 .. MaxThreads /\ bound[t] \in 0 .. MaxThreads
      BY DEF TypeOK
    <3>2. slot[t] < bound[t] => slot[t] + 1 \in 0 .. MaxThreads
      BY <3>1
    <3> QED
      BY <3>2, <1>2 DEF ScanSlot, GoTo, TypeOK
  <2>2. pc' \in [Threads -> Locations]
    BY <1>2 DEF ScanSlot, TypeOK, At, GoTo, Locations, Allocating, Reporting
  <2> QED
    BY <2>1, <2>2, <1>2 DEF ScanSlot, TypeOK, shared, local, reporting, history
<1>3. ASSUME NEW t \in Threads, ScanExhausted(t) PROVE TypeOK'
  <2>1. pc' \in [Threads -> Locations]
    BY <1>3 DEF ScanExhausted, TypeOK, At, GoTo, Locations, Allocating, Reporting
  <2> QED
    BY <2>1, <1>3 DEF ScanExhausted, TypeOK, shared, local, reporting, history
<1>4. ASSUME NEW t \in Threads, ClaimWon(t) PROVE TypeOK'
  <2>1. state' \in [Slots -> States]
    BY <1>4 DEF ClaimWon, TypeOK, States
  <2>2. evicted' \subseteq Threads
    BY <1>4 DEF ClaimWon, TypeOK
  <2>3. pc' \in [Threads -> Locations]
    BY <1>4 DEF ClaimWon, TypeOK, At, GoTo, Locations, Allocating, Reporting
  <2> QED
    BY <2>1, <2>2, <2>3, <1>4 DEF ClaimWon, TypeOK, shared, local, reporting, history
<1>5. ASSUME NEW t \in Threads, ClaimLost(t) PROVE TypeOK'
  <2>1. slot' \in [Threads -> 0 .. MaxThreads]
    <3>1. slot[t] \in 0 .. MaxThreads /\ slot[t] < MaxThreads
      BY <1>5 DEF ClaimLost, At, LocalInv, TypeOK
    <3>2. slot[t] + 1 \in 0 .. MaxThreads
      BY <3>1
    <3> QED
      BY <3>2, <1>5 DEF ClaimLost, TypeOK
  <2>2. pc' \in [Threads -> Locations]
    BY <1>5 DEF ClaimLost, TypeOK, At, GoTo, Locations, Allocating, Reporting
  <2> QED
    BY <2>1, <2>2, <1>5 DEF ClaimLost, TypeOK, shared, local, reporting, history
<1>6. ASSUME NEW t \in Threads, ResetSlot(t) PROVE TypeOK'
  <2>1. cycles' \in [Slots -> Nat]
    BY <1>6 DEF ResetSlot, TypeOK
  <2>2. pc' \in [Threads -> Locations]
    BY <1>6 DEF ResetSlot, TypeOK, At, GoTo, Locations, Allocating, Reporting
  <2> QED
    BY <2>1, <2>2, <1>6 DEF ResetSlot, TypeOK, shared, local, reporting, history
<1>7. ASSUME NEW t \in Threads, GrowRegistry(t) PROVE TypeOK'
  <2>1. next_slot' \in Nat
    BY <1>7 DEF GrowRegistry, TypeOK
  <2>2. slot' \in [Threads -> 0 .. MaxThreads]
    <3>1. next_slot < MaxThreads => next_slot \in 0 .. MaxThreads
      BY DEF TypeOK
    <3> QED
      BY <3>1, <1>7 DEF GrowRegistry, TypeOK
  <2>3. pc' \in [Threads -> Locations]
    BY <1>7 DEF GrowRegistry, TypeOK, At, GoTo, Locations, Allocating, Reporting
  <2> QED
    BY <2>1, <2>2, <2>3, <1>7 DEF GrowRegistry, TypeOK, shared, local, reporting, history
<1>8. ASSUME NEW t \in Threads, UndoGrow(t) PROVE TypeOK'
  <2>1. next_slot' \in Nat
    <3>1. t \in Undoing
      BY <1>8 DEF UndoGrow, At, Undoing
    <3>2. IsFiniteSet(Undoing) /\ Cardinality(Undoing) \in Nat
      BY FS_Subset, FS_CardinalityType DEF Undoing
    <3>3. next_slot = MaxThreads + Cardinality(Undoing)
      BY <3>1 DEF ExcessUndone
    <3> QED
      BY <3>2, <3>3, <1>8 DEF UndoGrow
  <2>2. pc' \in [Threads -> Locations]
    BY <1>8 DEF UndoGrow, TypeOK, At, GoTo, Locations, Allocating, Reporting
  <2> QED
    BY <2>1, <2>2, <1>8 DEF UndoGrow, TypeOK, shared, local, reporting, history
<1>9. ASSUME NEW t \in Threads, Activate(t) PROVE TypeOK'
  <2>1. state' \in [Slots -> States]
    BY <1>9 DEF Activate, TypeOK, States
  <2>2. THREAD_SLOT' \in [Threads -> Slots \cup {None}]
    BY <1>9 DEF Activate, TypeOK, At, LocalInv, Slots
  <2>3. pc' \in [Threads -> Locations]
    BY <1>9 DEF Activate, TypeOK, At, GoTo, Locations, Allocating, Reporting
  <2> QED
    BY <2>1, <2>2, <2>3, <1>9 DEF Activate, TypeOK, shared, local, reporting, history
<1>10. ASSUME NEW t \in Threads, Spawn(t) PROVE TypeOK'
  <2>1. pc' \in [Threads -> Locations]
    BY <1>10 DEF Spawn, TypeOK, At, GoTo, Locations, Allocating, Reporting
  <2> QED
    BY <2>1, <1>10 DEF Spawn, TypeOK, shared, local, reporting, history
<1>11. ASSUME NEW t \in Threads, Record(t) PROVE TypeOK'
  <2>1. cycles' \in [Slots -> Nat]
    <3>1. THREAD_SLOT[t] \in Slots /\ cycles[THREAD_SLOT[t]] + 1 \in Nat
      BY <1>11 DEF Record, TypeOK
    <3> QED
      BY <3>1, <1>11 DEF Record, Charge, TypeOK
  <2>2. done' \in [Threads -> Nat]
    BY <1>11 DEF Record, Charge, CallsHooks, TypeOK
  <2> QED
    BY <2>1, <2>2, <1>11 DEF Record, Charge, CallsHooks, TypeOK, shared, local, reporting, history
<1>12. ASSUME NEW t \in Threads, RetryInit(t) PROVE TypeOK'
  <2>1. back' \in [Threads -> {"run", "dtors"}]
    BY <1>12 DEF RetryInit, CallsHooks, TypeOK, At
  <2>2. pc' \in [Threads -> Locations]
    BY <1>12 DEF RetryInit, CallsHooks, TypeOK, At, GoTo, Locations, Allocating, Reporting
  <2> QED
    BY <2>1, <2>2, <1>12 DEF RetryInit, CallsHooks, TypeOK, shared, local, reporting, history
<1>13. ASSUME NEW t \in Threads, Return(t) PROVE TypeOK'
  <2>1. pc' \in [Threads -> Locations]
    BY <1>13 DEF Return, TypeOK, At, GoTo, Locations, Allocating, Reporting
  <2> QED
    BY <2>1, <1>13 DEF Return, TypeOK, shared, local, reporting, history
<1>14. ASSUME NEW t \in Threads, FinalCharge(t) PROVE TypeOK'
  <2>1. cycles' \in [Slots -> Nat]
    <3>1. PICK units \in 0 .. 1 : Charge(t, units)
      BY <1>14 DEF FinalCharge
    <3>2. THREAD_SLOT[t] \in Slots
      BY <1>14 DEF FinalCharge, At, LocalInv, TypeOK
    <3>3. cycles[THREAD_SLOT[t]] + units \in Nat
      BY <3>2 DEF TypeOK
    <3> QED
      BY <3>1, <3>3 DEF Charge, TypeOK
  <2>2. done' \in [Threads -> Nat]
    BY <1>14 DEF FinalCharge, Charge, TypeOK
  <2>3. pc' \in [Threads -> Locations]
    BY <1>14 DEF FinalCharge, Charge, TypeOK, At, GoTo, Locations, Allocating, Reporting
  <2> QED
    BY <2>1, <2>2, <2>3, <1>14 DEF FinalCharge, Charge, TypeOK, shared, local, reporting, history
<1>15. ASSUME NEW t \in Threads, MarkTerminated(t) PROVE TypeOK'
  <2>1. state' \in [Slots -> States]
    BY <1>15 DEF MarkTerminated, TypeOK, States
  <2>2. released' \subseteq Threads
    BY <1>15 DEF MarkTerminated, TypeOK
  <2>3. pc' \in [Threads -> Locations]
    BY <1>15 DEF MarkTerminated, TypeOK, At, GoTo, Locations, Allocating, Reporting
  <2> QED
    BY <2>1, <2>2, <2>3, <1>15 DEF MarkTerminated, TypeOK, shared, local, reporting, history
<1>16. ASSUME NEW t \in Threads, Die(t) PROVE TypeOK'
  <2>1. pc' \in [Threads -> Locations]
    BY <1>16 DEF Die, TypeOK, At, GoTo, Locations, Allocating, Reporting
  <2> QED
    BY <2>1, <1>16 DEF Die, TypeOK, shared, local, reporting, history
<1>17. CASE Exit
  <2>1. pc' \in [Threads -> Locations]
    BY <1>17 DEF Exit, TypeOK, At, GoTo, Locations, Allocating, Reporting
  <2> QED
    BY <2>1, <1>17 DEF Exit, TypeOK, shared, local, reporting, history
<1>18. CASE PrintStats
  <2>1. stats_written' \in BOOLEAN
    BY <1>18 DEF PrintStats, TypeOK
  <2>2. pc' \in [Threads -> Locations]
    BY <1>18 DEF PrintStats, TypeOK, At, GoTo, Locations, Allocating, Reporting
  <2> QED
    BY <2>1, <2>2, <1>18 DEF PrintStats, TypeOK, shared, local, reporting, history
<1>19. CASE PrintStatsAgain
  <2>1. pc' \in [Threads -> Locations]
    BY <1>19 DEF PrintStatsAgain, TypeOK, At, GoTo, Locations, Allocating, Reporting
  <2> QED
    BY <2>1, <1>19 DEF PrintStatsAgain, TypeOK, shared, local, reporting, history
<1>20. CASE DumpBound
  <2>1. bound' \in [Threads -> 0 .. MaxThreads]
    BY <1>20 DEF DumpBound, TypeOK, Lesser
  <2>2. slot' \in [Threads -> 0 .. MaxThreads]
    BY <1>20 DEF DumpBound, TypeOK
  <2>3. report' \in Nat
    BY <1>20 DEF DumpBound, TypeOK
  <2>4. due' \in [Threads -> Nat]
    BY <1>20 DEF DumpBound, TypeOK
  <2>5. pc' \in [Threads -> Locations]
    BY <1>20 DEF DumpBound, TypeOK, At, GoTo, Locations, Allocating, Reporting
  <2> QED
    BY <2>1, <2>2, <2>3, <2>4, <2>5, <1>20 DEF DumpBound, TypeOK, shared, local, reporting, history
<1>21. CASE DumpSlot
  <2>1. slot' \in [Threads -> 0 .. MaxThreads]
    <3>1. slot[Main] \in 0 .. MaxThreads /\ bound[Main] \in 0 .. MaxThreads
      BY DEF TypeOK
    <3>2. slot[Main] < bound[Main] => slot[Main] + 1 \in 0 .. MaxThreads
      BY <3>1
    <3> QED
      BY <3>2, <1>21 DEF DumpSlot, TypeOK
  <2>2. pc' \in [Threads -> Locations]
    BY <1>21 DEF DumpSlot, TypeOK, At, GoTo, Locations, Allocating, Reporting
  <2> QED
    BY <2>1, <2>2, <1>21 DEF DumpSlot, TypeOK, shared, local, reporting, history
<1>22. CASE DumpCounters
  <2>1. report' \in Nat
    <3>1. slot[Main] \in Slots
      BY <1>22 DEF DumpCounters, At, LocalInv, TypeOK, Slots
    <3>2. report + cycles[slot[Main]] \in Nat
      BY <3>1 DEF TypeOK
    <3> QED
      BY <3>2, <1>22 DEF DumpCounters
  <2>2. slot' \in [Threads -> 0 .. MaxThreads]
    <3>1. slot[Main] \in 0 .. MaxThreads /\ slot[Main] < MaxThreads
      BY <1>22 DEF DumpCounters, At, LocalInv, TypeOK
    <3>2. slot[Main] + 1 \in 0 .. MaxThreads
      BY <3>1
    <3> QED
      BY <3>2, <1>22 DEF DumpCounters, TypeOK
  <2>3. pc' \in [Threads -> Locations]
    BY <1>22 DEF DumpCounters, TypeOK, At, GoTo, Locations, Allocating, Reporting
  <2> QED
    BY <2>1, <2>2, <2>3, <1>22 DEF DumpCounters, TypeOK, shared, local, reporting, history
<1>23. CASE WriteReport
  <2>1. reports' \in Nat
    BY <1>23 DEF WriteReport, TypeOK
  <2>2. pc' \in [Threads -> Locations]
    BY <1>23 DEF WriteReport, TypeOK, At, GoTo, Locations, Allocating, Reporting
  <2> QED
    BY <2>1, <2>2, <1>23 DEF WriteReport, TypeOK, shared, local, reporting, history
<1>24. CASE Ended
  BY <1>24 DEF Ended, TypeOK, shared, local, reporting, history, vars
<1>25. CASE UNCHANGED vars
  BY <1>25 DEF TypeOK, vars, shared, local, reporting, history
<1> QED
  BY <1>1, <1>2, <1>3, <1>4, <1>5, <1>6, <1>7, <1>8, <1>9, <1>10, <1>11,
     <1>12, <1>13, <1>14, <1>15, <1>16, <1>17, <1>18, <1>19, <1>20, <1>21,
     <1>22, <1>23, <1>24, <1>25
     DEF Next, AllocateStep, ThreadStep, ReportStep

\* Where a thread is says whether it has a slot, before and after every step.
LEMMA LocalStep == TypeOK /\ LocalInv /\ [Next]_vars => LocalInv'
<1> SUFFICES ASSUME TypeOK, LocalInv, [Next]_vars PROVE LocalInv'
  OBVIOUS
<1> USE ThreadsAssumption, MaxThreadsAssumption
    DEF LocalInv, Locations, Allocating, Reporting, None, Slots
<1>1. ASSUME NEW t \in Threads, LoadBound(t) PROVE LocalInv'
  BY <1>1 DEF LoadBound, At, GoTo, local, history, vars, TypeOK
<1>2. ASSUME NEW t \in Threads, ScanSlot(t) PROVE LocalInv'
  <2>1. slot[t] < MaxThreads
    BY <1>2 DEF ScanSlot, TypeOK
  <2>2. CASE state[slot[t]] = "Terminated"
    <3>1. pc' = [pc EXCEPT ![t] = "claim"] /\ UNCHANGED <<slot, THREAD_SLOT, released, back>>
      BY <1>2, <2>2 DEF ScanSlot, GoTo, history
    <3>2. pc[t] = "scan"
      BY <1>2 DEF ScanSlot, At
    <3> QED
      BY <2>1, <3>1, <3>2 DEF TypeOK
  <2>3. CASE state[slot[t]] # "Terminated"
    BY <1>2, <2>3 DEF ScanSlot, At, GoTo, TypeOK, history
  <2> QED
    BY <2>2, <2>3
<1>3. ASSUME NEW t \in Threads, ScanExhausted(t) PROVE LocalInv'
  BY <1>3 DEF ScanExhausted, At, GoTo, local, history, vars, TypeOK
<1>4. ASSUME NEW t \in Threads, ClaimWon(t) PROVE LocalInv'
  BY <1>4 DEF ClaimWon, At, GoTo, local, history, vars, TypeOK
<1>5. ASSUME NEW t \in Threads, ClaimLost(t) PROVE LocalInv'
  BY <1>5 DEF ClaimLost, At, GoTo, local, history, vars, TypeOK
<1>6. ASSUME NEW t \in Threads, ResetSlot(t) PROVE LocalInv'
  BY <1>6 DEF ResetSlot, At, GoTo, local, history, vars, TypeOK
<1>7. ASSUME NEW t \in Threads, GrowRegistry(t) PROVE LocalInv'
  <2>1. CASE next_slot < MaxThreads
    <3>1. pc' = [pc EXCEPT ![t] = "activate"] /\ UNCHANGED <<THREAD_SLOT, released, back>>
      BY <1>7, <2>1 DEF GrowRegistry, GoTo, history
    <3>2. slot'[t] < MaxThreads /\ \A u \in Threads : u # t => slot'[u] = slot[u]
      BY <1>7, <2>1 DEF GrowRegistry, TypeOK
    <3>3. pc[t] = "grow"
      BY <1>7 DEF GrowRegistry, At
    <3> QED
      BY <3>1, <3>2, <3>3 DEF TypeOK
  <2>2. CASE ~ (next_slot < MaxThreads)
    <3>1. pc' = [pc EXCEPT ![t] = "undo"] /\ UNCHANGED <<slot, THREAD_SLOT, released, back>>
      BY <1>7, <2>2 DEF GrowRegistry, GoTo, history
    <3>2. pc[t] = "grow"
      BY <1>7 DEF GrowRegistry, At
    <3> QED
      BY <3>1, <3>2 DEF TypeOK
  <2> QED
    BY <2>1, <2>2
<1>8. ASSUME NEW t \in Threads, UndoGrow(t) PROVE LocalInv'
  BY <1>8 DEF UndoGrow, At, GoTo, local, history, vars, TypeOK
<1>9. ASSUME NEW t \in Threads, Activate(t) PROVE LocalInv'
  BY <1>9 DEF Activate, At, GoTo, local, history, vars, TypeOK
<1>10. ASSUME NEW t \in Threads, Spawn(t) PROVE LocalInv'
  BY <1>10 DEF Spawn, At, GoTo, local, history, vars, TypeOK
<1>11. ASSUME NEW t \in Threads, Record(t) PROVE LocalInv'
  BY <1>11 DEF Record, Charge, CallsHooks, At, GoTo, local, history, vars, TypeOK
<1>12. ASSUME NEW t \in Threads, RetryInit(t) PROVE LocalInv'
  BY <1>12 DEF RetryInit, CallsHooks, At, GoTo, local, history, vars, TypeOK
<1>13. ASSUME NEW t \in Threads, Return(t) PROVE LocalInv'
  BY <1>13 DEF Return, At, GoTo, local, history, vars, TypeOK
<1>14. ASSUME NEW t \in Threads, FinalCharge(t) PROVE LocalInv'
  BY <1>14 DEF FinalCharge, Charge, At, GoTo, local, history, vars, TypeOK
<1>15. ASSUME NEW t \in Threads, MarkTerminated(t) PROVE LocalInv'
  BY <1>15 DEF MarkTerminated, At, GoTo, local, history, vars, TypeOK
<1>16. ASSUME NEW t \in Threads, Die(t) PROVE LocalInv'
  BY <1>16 DEF Die, At, GoTo, local, history, vars, TypeOK
<1>17. CASE Exit
  BY <1>17 DEF Exit, At, GoTo, local, history, vars, TypeOK
<1>18. CASE PrintStats
  BY <1>18 DEF PrintStats, At, GoTo, local, history, vars, TypeOK
<1>19. CASE PrintStatsAgain
  BY <1>19 DEF PrintStatsAgain, At, GoTo, local, history, vars, TypeOK
<1>20. CASE DumpBound
  BY <1>20 DEF DumpBound, At, GoTo, local, history, vars, TypeOK
<1>21. CASE DumpSlot
  <2>1. slot[Main] < MaxThreads
    BY <1>21 DEF DumpSlot, TypeOK
  <2>2. CASE state[slot[Main]] = "Uninitialized"
    BY <1>21, <2>2 DEF DumpSlot, At, GoTo, TypeOK, history
  <2>3. CASE state[slot[Main]] # "Uninitialized"
    BY <1>21, <2>1, <2>3 DEF DumpSlot, At, GoTo, TypeOK, history
  <2> QED
    BY <2>2, <2>3
<1>22. CASE DumpCounters
  BY <1>22 DEF DumpCounters, At, GoTo, local, history, vars, TypeOK
<1>23. CASE WriteReport
  BY <1>23 DEF WriteReport, At, GoTo, local, history, vars, TypeOK
<1>24. CASE Ended
  BY <1>24 DEF Ended, At, GoTo, local, history, vars, TypeOK
<1>25. CASE UNCHANGED vars
  BY <1>25 DEF vars, local, history
<1> QED
  BY <1>1, <1>2, <1>3, <1>4, <1>5, <1>6, <1>7, <1>8, <1>9, <1>10, <1>11,
     <1>12, <1>13, <1>14, <1>15, <1>16, <1>17, <1>18, <1>19, <1>20, <1>21,
     <1>22, <1>23, <1>24, <1>25
     DEF Next, AllocateStep, ThreadStep, ReportStep

-----------------------------------------------------------------------------
(* Who holds what                                                          *)

\* The steps that claim no slot, hand out none and release none.
Quiet ==
    \/ \E t \in Threads :
         \/ LoadBound(t) \/ ScanSlot(t) \/ ScanExhausted(t) \/ ClaimLost(t)
         \/ ResetSlot(t) \/ UndoGrow(t) \/ Activate(t) \/ Spawn(t)
         \/ Record(t) \/ RetryInit(t) \/ Return(t) \/ FinalCharge(t)
         \/ Die(t)
    \/ (next_slot >= MaxThreads /\ \E t \in Threads : GrowRegistry(t))
    \/ Exit \/ ReportStep \/ Ended \/ UNCHANGED vars

\* Next is a quiet step or one of the three others.
LEMMA QuietOrNot ==
    [Next]_vars =>
      \/ Quiet
      \/ \E t \in Threads :
           \/ ClaimWon(t)
           \/ GrowRegistry(t) /\ ~ (next_slot >= MaxThreads)
           \/ MarkTerminated(t)
BY DEF Next, AllocateStep, ThreadStep, Quiet

\* Activate moves a slot from slot[t] to THREAD_SLOT[t]; the other quiet steps
\* touch neither for a thread that holds one.
LEMMA QuietHolds == TypeOK /\ LocalInv /\ Quiet => HoldsUnchanged
<1> SUFFICES ASSUME TypeOK, LocalInv, Quiet PROVE HoldsUnchanged
  OBVIOUS
<1> USE ThreadsAssumption DEF LocalInv, Allocating, Reporting, None, Slots,
    HoldsUnchanged, Keeps
<1>1. ASSUME NEW t \in Threads, LoadBound(t) PROVE HoldsUnchanged
  BY <1>1 DEF LoadBound, At, GoTo, local, history, vars, TypeOK
<1>2. ASSUME NEW t \in Threads, ScanSlot(t) PROVE HoldsUnchanged
  <2>1. pc' = [pc EXCEPT ![t] = "claim"] \/ pc' = pc
    BY <1>2 DEF ScanSlot, GoTo
  <2>2. \A u \in Threads : u # t => slot'[u] = slot[u]
    BY <1>2 DEF ScanSlot, TypeOK
  <2> QED
    BY <1>2, <2>1, <2>2 DEF ScanSlot, At, history, TypeOK
<1>3. ASSUME NEW t \in Threads, ScanExhausted(t) PROVE HoldsUnchanged
  BY <1>3 DEF ScanExhausted, At, GoTo, local, history, vars, TypeOK
<1>4. ASSUME NEW t \in Threads, ClaimLost(t) PROVE HoldsUnchanged
  BY <1>4 DEF ClaimLost, At, GoTo, local, history, vars, TypeOK
<1>5. ASSUME NEW t \in Threads, ResetSlot(t) PROVE HoldsUnchanged
  BY <1>5 DEF ResetSlot, At, GoTo, local, history, vars, TypeOK
<1>6. ASSUME NEW t \in Threads, UndoGrow(t) PROVE HoldsUnchanged
  BY <1>6 DEF UndoGrow, At, GoTo, local, history, vars, TypeOK
<1>7. ASSUME NEW t \in Threads, Activate(t) PROVE HoldsUnchanged
  BY <1>7 DEF Activate, At, GoTo, local, history, vars, TypeOK
<1>8. ASSUME NEW t \in Threads, Spawn(t) PROVE HoldsUnchanged
  BY <1>8 DEF Spawn, At, GoTo, local, history, vars, TypeOK
<1>9. ASSUME NEW t \in Threads, Record(t) PROVE HoldsUnchanged
  BY <1>9 DEF Record, Charge, CallsHooks, At, GoTo, local, history, vars, TypeOK
<1>10. ASSUME NEW t \in Threads, RetryInit(t) PROVE HoldsUnchanged
  BY <1>10 DEF RetryInit, CallsHooks, At, GoTo, local, history, vars, TypeOK
<1>11. ASSUME NEW t \in Threads, Return(t) PROVE HoldsUnchanged
  BY <1>11 DEF Return, At, GoTo, local, history, vars, TypeOK
<1>12. ASSUME NEW t \in Threads, FinalCharge(t) PROVE HoldsUnchanged
  BY <1>12 DEF FinalCharge, Charge, At, GoTo, local, history, vars, TypeOK
<1>13. ASSUME NEW t \in Threads, Die(t) PROVE HoldsUnchanged
  BY <1>13 DEF Die, At, GoTo, local, history, vars, TypeOK
<1>14. CASE Exit
  BY <1>14 DEF Exit, At, GoTo, local, history, vars, TypeOK
<1>15. CASE PrintStats
  BY <1>15 DEF PrintStats, At, GoTo, local, history, vars, TypeOK
<1>16. CASE PrintStatsAgain
  BY <1>16 DEF PrintStatsAgain, At, GoTo, local, history, vars, TypeOK
<1>17. CASE DumpBound
  BY <1>17 DEF DumpBound, At, GoTo, local, history, vars, TypeOK
<1>18. CASE DumpSlot
  BY <1>18 DEF DumpSlot, At, GoTo, local, history, vars, TypeOK
<1>19. CASE DumpCounters
  BY <1>19 DEF DumpCounters, At, GoTo, local, history, vars, TypeOK
<1>20. CASE WriteReport
  BY <1>20 DEF WriteReport, At, GoTo, local, history, vars, TypeOK
<1>21. CASE Ended
  BY <1>21 DEF Ended, At, GoTo, local, history, vars, TypeOK
<1>22. ASSUME NEW t \in Threads, GrowRegistry(t), next_slot >= MaxThreads
        PROVE HoldsUnchanged
  <2>1. pc' = [pc EXCEPT ![t] = "undo"] /\ slot' = slot
    BY <1>22, MaxThreadsAssumption DEF GrowRegistry, GoTo, TypeOK
  <2> QED
    BY <1>22, <2>1 DEF GrowRegistry, At, history, TypeOK
<1>23. CASE UNCHANGED vars
  BY <1>23 DEF vars, local, history
<1> QED
  BY <1>1, <1>2, <1>3, <1>4, <1>5, <1>6, <1>7, <1>8, <1>9, <1>10, <1>11,
     <1>12, <1>13, <1>14, <1>15, <1>16, <1>17, <1>18, <1>19, <1>20, <1>21,
     <1>22, <1>23
     DEF Quiet, ReportStep

\* The winner of the compare-exchange gains a slot that nobody held.
LEMMA ClaimWonHolds ==
    ASSUME SafeInv, NEW t \in Threads, ClaimWon(t)
    PROVE  /\ slot[t] \in Slots
           /\ \A u \in Threads : ~ Keeps(u, slot[t])
           /\ HoldsGained(t, slot[t])
<1> USE DEF SafeInv
<1>1. slot[t] \in Slots
  BY MaxThreadsAssumption DEF ClaimWon, At, LocalInv, TypeOK, Slots
<1>2. \A u \in Threads : ~ Keeps(u, slot[t])
  BY <1>1 DEF ClaimWon, TableAccounted, KeepsAccounted
<1>3. HoldsGained(t, slot[t])
  <2>1. UNCHANGED <<THREAD_SLOT, slot, released>> /\ pc' = [pc EXCEPT ![t] = "reset"]
    BY DEF ClaimWon, GoTo, local
  <2>2. pc[t] = "claim" /\ THREAD_SLOT[t] = None
    BY DEF ClaimWon, At, LocalInv, Allocating
  <2> QED
    BY <2>1, <2>2 DEF HoldsGained, Keeps, TypeOK, Slots, None
<1> QED
  BY <1>1, <1>2, <1>3

\* A fetch_add below the end of the table yields a slot that nobody held.
LEMMA GrowHolds ==
    ASSUME SafeInv, NEW t \in Threads, GrowRegistry(t), ~ (next_slot >= MaxThreads)
    PROVE  /\ next_slot \in Slots
           /\ \A u \in Threads : ~ Keeps(u, next_slot)
           /\ HoldsGained(t, next_slot)
           /\ UNCHANGED <<state, THREAD_SLOT, released>>
           /\ next_slot' = next_slot + 1
           /\ pc' = [pc EXCEPT ![t] = "activate"]
           /\ slot' = [slot EXCEPT ![t] = next_slot]
           /\ Undoing' = Undoing
<1> USE DEF SafeInv
<1>1. next_slot \in Slots /\ next_slot < MaxThreads
  BY MaxThreadsAssumption DEF TypeOK, Slots
<1>2. \A u \in Threads : ~ Keeps(u, next_slot)
  BY <1>1 DEF TableAccounted, KeepsAccounted, TypeOK
<1>3. /\ UNCHANGED <<state, THREAD_SLOT, released>>
      /\ next_slot' = next_slot + 1
      /\ pc' = [pc EXCEPT ![t] = "activate"]
      /\ slot' = [slot EXCEPT ![t] = next_slot]
  BY <1>1 DEF GrowRegistry, GoTo, history
<1>4. pc[t] = "grow" /\ THREAD_SLOT[t] = None
  BY DEF GrowRegistry, At, LocalInv, Allocating
<1>5. HoldsGained(t, next_slot)
  BY <1>1, <1>3, <1>4 DEF HoldsGained, Keeps, TypeOK, Slots, None
<1>6. Undoing' = Undoing
  BY <1>3, <1>4 DEF Undoing, TypeOK
<1> QED
  BY <1>1, <1>2, <1>3, <1>5, <1>6

\* thread_cleanup ends with the thread giving up its own slot.
LEMMA MarkHolds ==
    ASSUME SafeInv, NEW t \in Threads, MarkTerminated(t)
    PROVE  /\ THREAD_SLOT[t] \in Slots
           /\ Keeps(t, THREAD_SLOT[t])
           /\ HoldsLost(t, THREAD_SLOT[t])
<1> USE DEF SafeInv
<1>1. pc[t] = "mark" /\ THREAD_SLOT[t] \in Slots /\ t \notin released
  BY DEF MarkTerminated, At, LocalInv, TypeOK
<1>2. /\ UNCHANGED <<THREAD_SLOT, slot>>
      /\ released' = released \cup {t}
      /\ pc' = [pc EXCEPT ![t] = "dtors"]
  BY DEF MarkTerminated, GoTo, local
<1>3. HoldsLost(t, THREAD_SLOT[t])
  BY <1>1, <1>2 DEF HoldsLost, Keeps, TypeOK
<1> QED
  BY <1>1, <1>3 DEF Keeps

-----------------------------------------------------------------------------
(* The invariants                                                          *)

\* No step gives a slot a second holder.
LEMMA ExclusiveStep == SafeInv /\ [Next]_vars => SlotExclusive'
<1> SUFFICES ASSUME SafeInv, [Next]_vars PROVE SlotExclusive'
  OBVIOUS
<1> USE DEF SafeInv
<1>1. CASE Quiet
  BY <1>1, QuietHolds DEF HoldsUnchanged, SlotExclusive, Slots
<1>2. ASSUME NEW t \in Threads, ClaimWon(t) PROVE SlotExclusive'
  BY <1>2, ClaimWonHolds DEF HoldsGained, SlotExclusive, Slots
<1>3. ASSUME NEW t \in Threads, GrowRegistry(t), ~ (next_slot >= MaxThreads)
      PROVE SlotExclusive'
  BY <1>3, GrowHolds DEF HoldsGained, SlotExclusive, Slots
<1>4. ASSUME NEW t \in Threads, MarkTerminated(t) PROVE SlotExclusive'
  BY <1>4, MarkHolds DEF HoldsLost, SlotExclusive, Slots
<1> QED
  BY <1>1, <1>2, <1>3, <1>4, QuietOrNot

\* What a quiet step may do to the table: Activate makes a slot that is held
\* Active, UndoGrow takes back an excess of next_slot.
LEMMA QuietTable ==
    ASSUME SafeInv, Quiet
    PROVE  \A s \in Slots :
             /\ s < next_slot' <=> s < next_slot
             /\ \/ state'[s] = state[s]
                \/ state'[s] = "Active" /\ \E t \in Threads : Keeps(t, s)
<1> USE ThreadsAssumption, MaxThreadsAssumption DEF SafeInv, Slots
<1>1. ASSUME NEW t \in Threads, UndoGrow(t)
      PROVE  next_slot > MaxThreads /\ next_slot' = next_slot - 1 /\ state' = state
  <2>1. t \in Undoing
    BY <1>1 DEF UndoGrow, At, Undoing
  <2>2. IsFiniteSet(Undoing) /\ Cardinality(Undoing) \in Nat /\ Cardinality(Undoing) # 0
    BY <2>1, FS_Subset, FS_CardinalityType, FS_EmptySet DEF Undoing
  <2> QED
    BY <1>1, <2>1, <2>2 DEF UndoGrow, TableAccounted, ExcessUndone
<1>2. ASSUME NEW t \in Threads, GrowRegistry(t), next_slot >= MaxThreads
      PROVE  next_slot' = next_slot + 1 /\ state' = state
  BY <1>2 DEF GrowRegistry
<1>3. ASSUME NEW t \in Threads, Activate(t)
      PROVE  /\ next_slot' = next_slot
             /\ \A s \in Slots : \/ state'[s] = state[s]
                                 \/ state'[s] = "Active" /\ Keeps(t, s)
  BY <1>3 DEF Activate, At, Keeps, TypeOK
<1>4. \/ \E t \in Threads : UndoGrow(t) \/ Activate(t)
      \/ next_slot >= MaxThreads /\ \E t \in Threads : GrowRegistry(t)
      \/ UNCHANGED <<state, next_slot>>
  BY DEF Quiet, LoadBound, ScanSlot, ScanExhausted, ClaimLost, ResetSlot, Spawn, Record, RetryInit, Return, FinalCharge, Die,
     Charge, Exit, PrintStats, PrintStatsAgain, DumpBound, DumpSlot, DumpCounters, WriteReport, Ended, ReportStep, shared, vars
<1> QED
  BY <1>1, <1>2, <1>3, <1>4 DEF TypeOK

\* Every step keeps the books of the table.
LEMMA AccountedStep == SafeInv /\ [Next]_vars => KeepsAccounted'
<1> SUFFICES ASSUME SafeInv, [Next]_vars, NEW s \in Slots
             PROVE  IF s < next_slot'
                    THEN state'[s] = "Terminated" <=> ~ \E t \in Threads : Keeps(t, s)'
                    ELSE state'[s] = "Uninitialized" /\ ~ \E t \in Threads : Keeps(t, s)'
  BY DEF KeepsAccounted, Slots
<1>0. IF s < next_slot
      THEN state[s] = "Terminated" <=> ~ \E t \in Threads : Keeps(t, s)
      ELSE state[s] = "Uninitialized" /\ ~ \E t \in Threads : Keeps(t, s)
  BY DEF SafeInv, TableAccounted, KeepsAccounted
<1>1. CASE Quiet
  BY <1>0, <1>1, QuietHolds, QuietTable DEF HoldsUnchanged, SafeInv
<1>2. ASSUME NEW t \in Threads, ClaimWon(t)
      PROVE  IF s < next_slot'
             THEN state'[s] = "Terminated" <=> ~ \E u \in Threads : Keeps(u, s)'
             ELSE state'[s] = "Uninitialized" /\ ~ \E u \in Threads : Keeps(u, s)'
  <2>1. next_slot' = next_slot
    BY <1>2 DEF ClaimWon
  <2>2. state' = [state EXCEPT ![slot[t]] = "Uninitialized"] /\ state[slot[t]] = "Terminated"
    BY <1>2 DEF ClaimWon
  <2>3. state \in [Slots -> States]
    BY DEF SafeInv, TypeOK
  <2> QED
    BY <1>0, <1>2, <2>1, <2>2, <2>3, ClaimWonHolds DEF HoldsGained
<1>3. ASSUME NEW t \in Threads, GrowRegistry(t), ~ (next_slot >= MaxThreads)
      PROVE  IF s < next_slot'
             THEN state'[s] = "Terminated" <=> ~ \E u \in Threads : Keeps(u, s)'
             ELSE state'[s] = "Uninitialized" /\ ~ \E u \in Threads : Keeps(u, s)'
  <2>1. s < next_slot' <=> s < next_slot \/ s = next_slot
    BY <1>3, GrowHolds DEF SafeInv, TypeOK, Slots
  <2>2. state' = state /\ HoldsGained(t, next_slot)
    BY <1>3, GrowHolds
  <2> QED
    BY <1>0, <2>1, <2>2 DEF HoldsGained, SafeInv, TypeOK, Slots
<1>4. ASSUME NEW t \in Threads, MarkTerminated(t)
      PROVE  IF s < next_slot'
             THEN state'[s] = "Terminated" <=> ~ \E u \in Threads : Keeps(u, s)'
             ELSE state'[s] = "Uninitialized" /\ ~ \E u \in Threads : Keeps(u, s)'
  <2>1. next_slot' = next_slot
    BY <1>4 DEF MarkTerminated
  <2>2. state' = [state EXCEPT ![THREAD_SLOT[t]] = "Terminated"]
    BY <1>4 DEF MarkTerminated
  <2>3. state \in [Slots -> States]
    BY DEF SafeInv, TypeOK
  <2>4. Keeps(t, THREAD_SLOT[t]) /\ HoldsLost(t, THREAD_SLOT[t]) /\ THREAD_SLOT[t] \in Slots
    BY <1>4, MarkHolds
  <2>5. \A u \in Threads : Keeps(u, THREAD_SLOT[t]) => u = t
    BY <2>4 DEF SafeInv, SlotExclusive
  <2> QED
    BY <1>0, <2>1, <2>2, <2>3, <2>4, <2>5 DEF HoldsLost
<1> QED
  BY <1>1, <1>2, <1>3, <1>4, QuietOrNot

\* A fetch_add past the end and the fetch_sub that undoes it are counted.
LEMMA ExcessStep == SafeInv /\ [Next]_vars => ExcessUndone'
<1> SUFFICES ASSUME SafeInv, [Next]_vars PROVE ExcessUndone'
  OBVIOUS
<1> USE ThreadsAssumption, MaxThreadsAssumption DEF SafeInv, TableAccounted
<1>0. IsFiniteSet(Undoing) /\ Cardinality(Undoing) \in Nat
  BY FS_Subset, FS_CardinalityType DEF Undoing
<1>1. ASSUME NEW t \in Threads, GrowRegistry(t), next_slot >= MaxThreads
      PROVE  ExcessUndone'
  <2>1. next_slot' = next_slot + 1 /\ pc' = [pc EXCEPT ![t] = "undo"] /\ pc[t] = "grow"
    BY <1>1 DEF GrowRegistry, GoTo, At, TypeOK
  <2>2. Undoing' = Undoing \cup {t} /\ t \notin Undoing
    BY <2>1 DEF Undoing, TypeOK
  <2>3. Cardinality(Undoing') = Cardinality(Undoing) + 1
    BY <1>0, <2>2, FS_AddElement
  <2>4. Undoing = {} => Cardinality(Undoing) = 0
    BY FS_EmptySet
  <2>5. next_slot = MaxThreads + Cardinality(Undoing)
    BY <1>1, <2>4 DEF ExcessUndone, TypeOK
  <2> QED
    BY <1>0, <2>1, <2>2, <2>3, <2>5 DEF ExcessUndone
<1>2. ASSUME NEW t \in Threads, UndoGrow(t) PROVE ExcessUndone'
  <2>1. next_slot' = next_slot - 1 /\ pc' = [pc EXCEPT ![t] = back[t]] /\ pc[t] = "undo"
    BY <1>2 DEF UndoGrow, GoTo, At
  <2>2. Undoing' = Undoing \ {t} /\ t \in Undoing
    BY <2>1 DEF Undoing, TypeOK
  <2>3. Cardinality(Undoing') = Cardinality(Undoing) - 1
    BY <1>0, <2>2, FS_RemoveElement
  <2>4. next_slot = MaxThreads + Cardinality(Undoing)
    BY <2>2 DEF ExcessUndone
  <2>5. Undoing' = {} => Cardinality(Undoing') = 0
    BY FS_EmptySet
  <2> QED
    BY <1>0, <2>1, <2>3, <2>4, <2>5 DEF ExcessUndone
<1>3. ASSUME NEW t \in Threads, GrowRegistry(t), ~ (next_slot >= MaxThreads)
      PROVE  ExcessUndone'
  <2>1. next_slot' = next_slot + 1 /\ Undoing' = Undoing /\ next_slot < MaxThreads
    BY <1>3, GrowHolds DEF TypeOK
  <2>2. Undoing = {}
    BY <1>0, <2>1 DEF ExcessUndone, TypeOK
  <2> QED
    BY <2>1, <2>2 DEF ExcessUndone, TypeOK
<1>4. ASSUME next_slot' = next_slot, Undoing' = Undoing PROVE ExcessUndone'
  BY <1>4 DEF ExcessUndone
<1>5. ASSUME NEW t \in Threads,
             \/ LoadBound(t) \/ ScanSlot(t) \/ ScanExhausted(t)
             \/ ClaimWon(t) \/ ClaimLost(t) \/ ResetSlot(t) \/ Activate(t)
             \/ Spawn(t) \/ Record(t) \/ RetryInit(t) \/ Return(t)
             \/ FinalCharge(t) \/ MarkTerminated(t) \/ Die(t)
      PROVE  next_slot' = next_slot /\ Undoing' = Undoing
  <2>1. CASE LoadBound(t)
    BY <2>1 DEF LoadBound, At, GoTo, Undoing, TypeOK, shared
  <2>2. CASE ScanSlot(t)
    BY <2>2 DEF ScanSlot, At, GoTo, Undoing, TypeOK, shared
  <2>3. CASE ScanExhausted(t)
    BY <2>3 DEF ScanExhausted, At, GoTo, Undoing, TypeOK, shared
  <2>4. CASE ClaimWon(t)
    BY <2>4 DEF ClaimWon, At, GoTo, Undoing, TypeOK, shared
  <2>5. CASE ClaimLost(t)
    BY <2>5 DEF ClaimLost, At, GoTo, Undoing, TypeOK, shared
  <2>6. CASE ResetSlot(t)
    BY <2>6 DEF ResetSlot, At, GoTo, Undoing, TypeOK, shared
  <2>7. CASE Activate(t)
    BY <2>7 DEF Activate, At, GoTo, Undoing, TypeOK, shared
  <2>8. CASE Spawn(t)
    BY <2>8 DEF Spawn, At, GoTo, Undoing, TypeOK, shared
  <2>9. CASE Record(t)
    BY <2>9 DEF Record, Charge, CallsHooks, At, GoTo, Undoing, TypeOK, shared
  <2>10. CASE RetryInit(t)
    BY <2>10 DEF RetryInit, CallsHooks, At, GoTo, Undoing, TypeOK, shared
  <2>11. CASE Return(t)
    BY <2>11 DEF Return, At, GoTo, Undoing, TypeOK, shared
  <2>12. CASE FinalCharge(t)
    BY <2>12 DEF FinalCharge, Charge, At, GoTo, Undoing, TypeOK, shared
  <2>13. CASE MarkTerminated(t)
    BY <2>13 DEF MarkTerminated, At, GoTo, Undoing, TypeOK, shared
  <2>14. CASE Die(t)
    BY <2>14 DEF Die, At, GoTo, Undoing, TypeOK, shared
  <2> QED
    BY <1>5, <2>1, <2>2, <2>3, <2>4, <2>5, <2>6, <2>7, <2>8, <2>9, <2>10, <2>11, <2>12, <2>13, <2>14
<1>6. ASSUME Exit \/ ReportStep \/ Ended \/ UNCHANGED vars
      PROVE  next_slot' = next_slot /\ Undoing' = Undoing
  <2>1. CASE Exit
    BY <2>1 DEF Exit, At, GoTo, Undoing, TypeOK, shared, vars
  <2>2. CASE PrintStats
    BY <2>2 DEF PrintStats, At, GoTo, Undoing, TypeOK, shared, vars
  <2>3. CASE PrintStatsAgain
    BY <2>3 DEF PrintStatsAgain, At, GoTo, Undoing, TypeOK, shared, vars
  <2>4. CASE DumpBound
    BY <2>4 DEF DumpBound, At, GoTo, Undoing, TypeOK, shared, vars
  <2>5. CASE DumpSlot
    BY <2>5 DEF DumpSlot, At, GoTo, Undoing, TypeOK, shared, vars
  <2>6. CASE DumpCounters
    BY <2>6 DEF DumpCounters, At, GoTo, Undoing, TypeOK, shared, vars
  <2>7. CASE WriteReport
    BY <2>7 DEF WriteReport, At, GoTo, Undoing, TypeOK, shared, vars
  <2>8. CASE Ended
    BY <2>8 DEF Ended, At, GoTo, Undoing, TypeOK, shared, vars
  <2>9. CASE UNCHANGED vars
    BY <2>9 DEF At, GoTo, Undoing, TypeOK, shared, vars
  <2> QED
    BY <1>6, <2>1, <2>2, <2>3, <2>4, <2>5, <2>6, <2>7, <2>8, <2>9 DEF ReportStep
<1> QED
  BY <1>1, <1>2, <1>3, <1>4, <1>5, <1>6 DEF Next, AllocateStep, ThreadStep

\* The invariant holds in every reachable state.
LEMMA SafeInvariant == Spec => []SafeInv
<1>1. SafeInv /\ [Next]_vars => SafeInv'
  BY TypeStep, LocalStep, ExclusiveStep, AccountedStep, ExcessStep
     DEF SafeInv, TableAccounted
<1> QED
  BY SafeInit, <1>1, PTL DEF Spec

\* All variables stay in their types; next_slot is never decremented below zero.
THEOREM TypeCorrect == Spec => []TypeOK
<1>1. SafeInv => TypeOK
  BY DEF SafeInv
<1> QED
  BY SafeInvariant, <1>1, PTL

\* Two threads never own the same slot (allocate_slot).
THEOREM SlotsExclusive == Spec => []SlotExclusive
<1>1. SafeInv => SlotExclusive
  BY DEF SafeInv
<1> QED
  BY SafeInvariant, <1>1, PTL

\* What a thread has is its own while it lives, and lost once it is dead.
LEMMA KeepsSplit ==
    ASSUME TypeOK, LocalInv, NEW t \in Threads, NEW s \in Slots
    PROVE  Keeps(t, s) <=> Holds(t, s) \/ LostBy(t, s)
<1>1. CASE pc[t] = "gone"
  <2>1. s # None
    BY DEF Slots, None
  <2>2. THREAD_SLOT[t] = s => (t \notin released <=> back[t] = "dtors")
    BY <1>1, <2>1 DEF LocalInv
  <2> QED
    BY <1>1, <2>2 DEF Keeps, Holds, LostBy
<1>2. CASE pc[t] # "gone"
  BY <1>2 DEF Holds, LostBy
<1> QED
  BY <1>1, <1>2

\* A slot that has been handed out is owned by a living thread, can be claimed again,
\* or was got by a late hook of a thread that is dead (allocate_slot, thread_cleanup).
THEOREM SlotsAccountedFor == Spec => []SlotAccounting
<1>1. SafeInv => SlotAccounting
  <2> SUFFICES ASSUME SafeInv PROVE SlotAccounting
    OBVIOUS
  <2>1. SlotsAccounted
    BY KeepsSplit DEF SafeInv, TableAccounted, KeepsAccounted, SlotsAccounted
  <2> QED
    BY <2>1 DEF SafeInv, TableAccounted, SlotAccounting
<1> QED
  BY SafeInvariant, <1>1, PTL

\* Every slot handed out is owned by a living thread or can be claimed again.
NoSlotLost ==
    \A s \in Slots :
      s < next_slot => state[s] = "Terminated" \/ \E t \in Threads : Holds(t, s)

\* Where no thread-local destructor is instrumented no slot is lost (thread_cleanup).
THEOREM SlotsNeverLost == ASSUME LateHooks = {} PROVE Spec => []NoSlotLost
<1>1. SafeInv => NoSlotLost
  <2> SUFFICES ASSUME SafeInv PROVE NoSlotLost
    OBVIOUS
  <2>1. \A t \in Threads, s \in Slots : ~ LostBy(t, s)
    BY DEF SafeInv, LocalInv, LostBy
  <2>2. \A t \in Threads, s \in Slots : Keeps(t, s) => Holds(t, s)
    BY <2>1, KeepsSplit DEF SafeInv
  <2> QED
    BY <2>2 DEF SafeInv, TableAccounted, KeepsAccounted, NoSlotLost
<1> QED
  BY SafeInvariant, <1>1, PTL
-----------------------------------------------------------------------------
(* One report                                                              *)

\* The flag is set by whoever writes the report, and stays set.
OnceInv ==
    /\ pc[Main] \in {"dump", "sum", "add"} => stats_written /\ reports = 0
    /\ pc[Main] = "exit" /\ stats_written => reports = 1
    /\ pc[Main] = "exit" /\ ~ stats_written => reports = 0
    /\ pc[Main] = "exited" => reports = 1
    /\ pc[Main] \notin Reporting \cup {"exited"} => ~ stats_written /\ reports = 0

\* What the steps outside the exit path are to the report: they leave it, and the main
\* thread while it is at it, alone.
Aside(t) ==
    /\ UNCHANGED <<stats_written, report, reports, due>>
    /\ pc[t] \notin Reporting \cup {"exited"} /\ pc'[t] \notin Reporting \cup {"exited"}
    /\ \A u \in Threads \ {t} : pc'[u] = pc[u] /\ slot'[u] = slot[u] /\ bound'[u] = bound[u]

LEMMA StepAside ==
    ASSUME TypeOK, NEW t \in Threads, AllocateStep(t) \/ ThreadStep(t)
    PROVE  Aside(t)
<1> USE DEF At, GoTo, shared, local, reporting, history, Reporting, TypeOK
<1>0. back[t] \in {"run", "dtors"}
  OBVIOUS
<1>1. CASE LoadBound(t)
  BY <1>1 DEF LoadBound, Aside
<1>2. CASE ScanSlot(t)
  BY <1>2 DEF ScanSlot, Aside
<1>3. CASE ScanExhausted(t)
  BY <1>3 DEF ScanExhausted, Aside
<1>4. CASE ClaimWon(t)
  BY <1>4 DEF ClaimWon, Aside
<1>5. CASE ClaimLost(t)
  BY <1>5 DEF ClaimLost, Aside
<1>6. CASE ResetSlot(t)
  BY <1>6 DEF ResetSlot, Aside
<1>7. CASE GrowRegistry(t)
  BY <1>7 DEF GrowRegistry, Aside
<1>8. CASE UndoGrow(t)
  BY <1>0, <1>8 DEF UndoGrow, Aside
<1>9. CASE Activate(t)
  BY <1>0, <1>9 DEF Activate, Aside
<1>10. CASE Spawn(t)
  BY <1>10 DEF Spawn, Aside
<1>11. CASE Record(t)
  BY <1>11 DEF Record, CallsHooks, Charge, Aside
<1>12. CASE RetryInit(t)
  BY <1>12 DEF RetryInit, CallsHooks, Aside
<1>13. CASE Return(t)
  BY <1>13 DEF Return, Aside
<1>14. CASE FinalCharge(t)
  BY <1>14 DEF FinalCharge, Charge, Aside
<1>15. CASE MarkTerminated(t)
  BY <1>15 DEF MarkTerminated, Aside
<1>16. CASE Die(t)
  BY <1>16 DEF Die, Aside
<1> QED
  BY <1>1, <1>2, <1>3, <1>4, <1>5, <1>6, <1>7, <1>8, <1>9, <1>10, <1>11, <1>12,
     <1>13, <1>14, <1>15, <1>16, Zenon DEF AllocateStep, ThreadStep

\* The destructors take the flag from clear to set once, and report then.
LEMMA OnceStep == TypeOK /\ OnceInv /\ [Next]_vars => OnceInv'
<1> SUFFICES ASSUME TypeOK, OnceInv, [Next]_vars PROVE OnceInv'
  OBVIOUS
<1>1. ASSUME NEW t \in Threads, AllocateStep(t) \/ ThreadStep(t) PROVE OnceInv'
  <2>1. Aside(t)
    BY <1>1, StepAside
  <2>2. \/ pc'[Main] = pc[Main]
        \/ pc[Main] \notin Reporting \cup {"exited"} /\ pc'[Main] \notin Reporting \cup {"exited"}
    BY <2>1, ThreadsAssumption DEF Aside
  <2> QED
    BY <2>1, <2>2 DEF Aside, OnceInv, Reporting
<1> USE ThreadsAssumption DEF At, GoTo, shared, local, reporting, history, Reporting, TypeOK, OnceInv
<1>2. CASE Exit
  BY <1>2 DEF Exit
<1>3. CASE PrintStats
  BY <1>3 DEF PrintStats
<1>4. CASE PrintStatsAgain
  BY <1>4 DEF PrintStatsAgain
<1>5. CASE DumpBound
  BY <1>5 DEF DumpBound
<1>6. CASE DumpSlot
  BY <1>6 DEF DumpSlot
<1>7. CASE DumpCounters
  BY <1>7 DEF DumpCounters
<1>8. CASE WriteReport
  BY <1>8 DEF WriteReport
<1>9. CASE Ended \/ UNCHANGED vars
  BY <1>9 DEF Ended, vars
<1> QED
  BY <1>1, <1>2, <1>3, <1>4, <1>5, <1>6, <1>7, <1>8, <1>9 DEF Next, ReportStep

\* Nobody has reported and the flag is clear.
LEMMA OnceInit == Init => OnceInv
BY ThreadsAssumption DEF Init, OnceInv, Reporting

\* However many destructors call print_cpu_cycle_stats, the first one reports, and the
\* process does not end without a report.
THEOREM OneReport == Spec => []ReportedOnce
<1>1. Spec => [](TypeOK /\ OnceInv)
  BY OnceInit, TypeCorrect, OnceStep, PTL DEF Spec
<1>2. TypeOK /\ OnceInv => ReportedOnce
  BY ThreadsAssumption DEF OnceInv, ReportedOnce, Reporting
<1> QED
  BY <1>1, <1>2, PTL
=============================================================================
