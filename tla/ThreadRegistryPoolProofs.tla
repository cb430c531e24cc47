---------------------- MODULE ThreadRegistryPoolProofs ----------------------
(***************************************************************************)
(* Proofs, for programs whose thread-local destructors are not             *)
(* instrumented, that a slot holds what its last owner recorded and        *)
(* nothing else, that the report at exit stays between what was due when   *)
(* it began and what has been recorded, and that the registry implements   *)
(* the pool of accounts of SlotPool.                                       *)
(*                                                                         *)
(* OwnWorkOnly alone is not inductive: that a slot is empty when its new   *)
(* owner activates it depends on the reset, or on its never having been    *)
(* handed out; and that only the owner adds to it depends on the earlier   *)
(* owners, whose THREAD_SLOT still names it, having all been evicted.      *)
(*                                                                         *)
(* ReportBounds speaks of the end of the report only.  What carries it     *)
(* there is SumInv: at every step of the main thread the sum so far is     *)
(* between what is due of the slots behind it and what was recorded in     *)
(* them, however many of them have changed hands since.                    *)
(***************************************************************************)
EXTENDS ThreadRegistryProofs, FiniteLemmas

Acquired(t) == pc[t] \in {"reset", "activate"}

TenantInv ==
    /\ \A t \in Threads :
         /\ t \in evicted => t \in released
         /\ THREAD_SLOT[t] = None => done[t] = 0
         /\ THREAD_SLOT[t] # None => THREAD_SLOT[t] < next_slot
         /\ pc[t] = "activate" => cycles[slot[t]] = 0
    /\ \A s \in Slots : s >= next_slot => cycles[s] = 0
    /\ \A t, u \in Threads :
         Acquired(t) /\ THREAD_SLOT[u] = slot[t] => u \in evicted
    /\ \A t, u \in Threads :
         THREAD_SLOT[t] # None /\ THREAD_SLOT[t] = THREAD_SLOT[u] =>
           t = u \/ t \in evicted \/ u \in evicted
    /\ OwnWorkOnly

WorkInv == SafeInv /\ TenantInv

\* What most steps are to the statistics: nothing.
Inert ==
    /\ UNCHANGED <<cycles, done, released, evicted, THREAD_SLOT, next_slot>>
    /\ \A u \in Threads :
         Acquired(u)' => pc'[u] = pc[u] /\ slot'[u] = slot[u]

\* The steps that neither touch a statistic nor change an owner.
Idle ==
    \/ \E t \in Threads :
         \/ LoadBound(t) \/ ScanSlot(t) \/ ScanExhausted(t) \/ ClaimLost(t)
         \/ Spawn(t) \/ RetryInit(t) \/ Return(t) \/ Die(t)
    \/ Exit \/ ReportStep \/ Ended \/ UNCHANGED vars

LEMMA IdleOrNot ==
    [Next]_vars =>
      \/ Idle
      \/ \E t \in Threads :
           \/ ClaimWon(t) \/ ResetSlot(t) \/ GrowRegistry(t) \/ UndoGrow(t) \/ Activate(t)
           \/ Record(t) \/ FinalCharge(t) \/ MarkTerminated(t)
BY DEF Next, AllocateStep, ThreadStep, Idle

\* Scanning, starting, returning and reporting are inert.
LEMMA IdleInert == SafeInv /\ Idle => Inert
<1> SUFFICES ASSUME SafeInv, Idle PROVE Inert
  OBVIOUS
<1> USE ThreadsAssumption DEF SafeInv, Inert, Acquired, At, GoTo, shared, local, history, TypeOK
<1>1. ASSUME NEW t \in Threads, LoadBound(t) PROVE Inert
  BY <1>1 DEF LoadBound
<1>2. ASSUME NEW t \in Threads, ScanSlot(t) PROVE Inert
  <2>1. pc' = [pc EXCEPT ![t] = "claim"] \/ pc' = pc
    BY <1>2 DEF ScanSlot
  <2>2. \A u \in Threads : u # t => slot'[u] = slot[u]
    BY <1>2 DEF ScanSlot
  <2> QED
    BY <1>2, <2>1, <2>2 DEF ScanSlot
<1>3. ASSUME NEW t \in Threads, ScanExhausted(t) PROVE Inert
  BY <1>3 DEF ScanExhausted
<1>4. ASSUME NEW t \in Threads, ClaimLost(t) PROVE Inert
  BY <1>4 DEF ClaimLost
<1>5. ASSUME NEW t \in Threads, Spawn(t) PROVE Inert
  BY <1>5 DEF Spawn
<1>6. ASSUME NEW t \in Threads, RetryInit(t) PROVE Inert
  BY <1>6 DEF RetryInit
<1>7. ASSUME NEW t \in Threads, Return(t) PROVE Inert
  BY <1>7 DEF Return
<1>8. ASSUME NEW t \in Threads, Die(t) PROVE Inert
  BY <1>8 DEF Die
<1>9. CASE Exit
  BY <1>9 DEF Exit
<1>10. CASE PrintStats
  BY <1>10 DEF PrintStats
<1>11. CASE PrintStatsAgain
  BY <1>11 DEF PrintStatsAgain
<1>12. CASE DumpBound
  BY <1>12 DEF DumpBound
<1>13. CASE DumpSlot
  BY <1>13 DEF DumpSlot
<1>14. CASE DumpCounters
  BY <1>14 DEF DumpCounters
<1>15. CASE WriteReport
  BY <1>15 DEF WriteReport
<1>16. CASE Ended \/ UNCHANGED vars
  BY <1>16 DEF Ended, vars
<1> QED
  BY <1>1, <1>2, <1>3, <1>4, <1>5, <1>6, <1>7, <1>8, <1>9, <1>10, <1>11, <1>12,
     <1>13, <1>14, <1>15, <1>16 DEF Idle, ReportStep

-----------------------------------------------------------------------------
(* The statistics                                                          *)

\* Nothing has been recorded and nobody has had a slot.
LEMMA TenantInit == Init => TenantInv
BY ThreadsAssumption DEF Init, TenantInv, OwnWorkOnly, Acquired, Slots, None

\* A thread that records, through a hook or in its final charge, owns its slot.
LEMMA ChargeTenant ==
    ASSUME WorkInv, NEW t \in Threads, NEW units \in Nat, Charge(t, units),
           THREAD_SLOT[t] # None, t \notin released, pc'[t] \in {"run", "mark"},
           \A u \in Threads : u # t => pc'[u] = pc[u]
    PROVE  TenantInv'
<1> USE DEF WorkInv, SafeInv, TenantInv, OwnWorkOnly
<1>1. THREAD_SLOT[t] \in Slots /\ THREAD_SLOT[t] < next_slot /\ t \notin evicted
  BY DEF TypeOK
<1>2. UNCHANGED <<THREAD_SLOT, slot, next_slot, released, evicted>>
  BY DEF Charge, local
<1>3. /\ cycles' = [cycles EXCEPT ![THREAD_SLOT[t]] = @ + units]
      /\ done' = [done EXCEPT ![t] = @ + units]
  BY DEF Charge
<1>4. \A u \in Threads :
        /\ u \in evicted' => u \in released'
        /\ THREAD_SLOT'[u] = None => done'[u] = 0
        /\ THREAD_SLOT'[u] # None => THREAD_SLOT'[u] < next_slot'
  BY <1>2, <1>3 DEF TypeOK
<1>5. \A u \in Threads : Acquired(u)' => Acquired(u) /\ pc'[u] = pc[u] /\ slot[u] # THREAD_SLOT[t]
  BY <1>1 DEF Acquired
<1>6. \A u \in Threads : pc'[u] = "activate" => cycles'[slot'[u]] = 0
  BY <1>1, <1>2, <1>3, <1>5 DEF Acquired, TypeOK
<1>7. \A s \in Slots : s >= next_slot' => cycles'[s] = 0
  BY <1>1, <1>2, <1>3 DEF TypeOK, Slots
<1>8. OwnWorkOnly'
  BY <1>1, <1>2, <1>3 DEF TypeOK, None
<1> QED
  BY <1>2, <1>4, <1>5, <1>6, <1>7, <1>8

\* Every step leaves each slot with the work of one thread.
LEMMA TenantStep ==
    ASSUME LateHooks = {}, WorkInv, SafeInv', [Next]_vars
    PROVE  TenantInv'
<1> USE DEF WorkInv, SafeInv
<1>1. CASE Idle
  BY <1>1, IdleInert DEF Inert, TenantInv, OwnWorkOnly, Acquired
<1>2. ASSUME NEW t \in Threads, ClaimWon(t) PROVE TenantInv'
  <2>1. /\ slot[t] \in Slots
        /\ \A u \in Threads : ~ Keeps(u, slot[t])
    BY <1>2, ClaimWonHolds
  <2>2. \A u \in Threads : THREAD_SLOT[u] = slot[t] => u \in released
    BY <2>1 DEF Keeps
  <2>3. /\ UNCHANGED <<cycles, next_slot, THREAD_SLOT, slot, done, released>>
        /\ pc' = [pc EXCEPT ![t] = "reset"]
        /\ evicted' = evicted \cup {u \in Threads : THREAD_SLOT[u] = slot[t]}
    BY <1>2 DEF ClaimWon, GoTo, local
  <2> QED
    BY <2>2, <2>3 DEF TenantInv, OwnWorkOnly, Acquired, TypeOK
<1>3. ASSUME NEW t \in Threads, ResetSlot(t) PROVE TenantInv'
  <2>1. /\ UNCHANGED <<next_slot, THREAD_SLOT, slot, done, released, evicted>>
        /\ cycles' = [cycles EXCEPT ![slot[t]] = 0]
        /\ pc' = [pc EXCEPT ![t] = "activate"]
        /\ pc[t] = "reset"
    BY <1>3 DEF ResetSlot, GoTo, At, local, history
  <2>2. OwnWorkOnly'
    BY <2>1 DEF TenantInv, OwnWorkOnly, Acquired, TypeOK
  <2>3. slot[t] \in Slots
    BY MaxThreadsAssumption, <2>1 DEF LocalInv, TypeOK, Slots
  <2>4. \A u \in Threads : pc'[u] = "activate" => cycles'[slot'[u]] = 0
    BY <2>1, <2>3 DEF TenantInv, TypeOK
  <2>5. \A s \in Slots : s >= next_slot' => cycles'[s] = 0
    BY <2>1 DEF TenantInv, TypeOK
  <2> QED
    BY <2>1, <2>2, <2>4, <2>5 DEF TenantInv, Acquired, TypeOK
<1>4. ASSUME NEW t \in Threads, GrowRegistry(t) PROVE TenantInv'
  <2>0. /\ next_slot \in Nat
        /\ \A u \in Threads : THREAD_SLOT[u] \in Int
    BY DEF TypeOK, Slots, None
  <2>1. CASE next_slot >= MaxThreads
    <3>1. /\ UNCHANGED <<cycles, THREAD_SLOT, slot, done, released, evicted>>
          /\ next_slot' = next_slot + 1
          /\ pc' = [pc EXCEPT ![t] = "undo"]
      BY <1>4, <2>1, MaxThreadsAssumption DEF GrowRegistry, GoTo, history, TypeOK
    <3>2. \A u \in Threads : THREAD_SLOT[u] # None => THREAD_SLOT[u] < next_slot'
      BY <2>0, <3>1 DEF TenantInv
    <3>3. \A s \in Slots : s >= next_slot' => cycles'[s] = 0
      BY <2>0, <3>1 DEF TenantInv, Slots
    <3> QED
      BY <3>1, <3>2, <3>3 DEF TenantInv, OwnWorkOnly, Acquired, TypeOK
  <2>2. CASE ~ (next_slot >= MaxThreads)
    <3>1. /\ next_slot \in Slots
          /\ UNCHANGED <<THREAD_SLOT, released>>
          /\ next_slot' = next_slot + 1
          /\ pc' = [pc EXCEPT ![t] = "activate"]
          /\ slot' = [slot EXCEPT ![t] = next_slot]
      BY <1>4, <2>2, GrowHolds
    <3>2. UNCHANGED <<cycles, done, evicted>>
      BY <1>4 DEF GrowRegistry, history
    <3>3. \A u \in Threads : THREAD_SLOT[u] # next_slot
      BY <2>0 DEF TenantInv, None
    <3>4. \A u \in Threads : THREAD_SLOT[u] # None => THREAD_SLOT[u] < next_slot'
      BY <2>0, <3>1 DEF TenantInv
    <3>5. \A s \in Slots : s >= next_slot' => cycles'[s] = 0
      BY <3>1, <3>2 DEF TenantInv, TypeOK, Slots
    <3>6. cycles[next_slot] = 0
      BY <3>1 DEF TenantInv, TypeOK, Slots
    <3> QED
      BY <3>1, <3>2, <3>3, <3>4, <3>5, <3>6 DEF TenantInv, OwnWorkOnly, Acquired, TypeOK
  <2> QED
    BY <2>1, <2>2
<1>5. ASSUME NEW t \in Threads, UndoGrow(t) PROVE TenantInv'
  <2>1. /\ UNCHANGED <<cycles, THREAD_SLOT, slot, done, released, evicted>>
        /\ pc' = [pc EXCEPT ![t] = back[t]]
    BY <1>5 DEF UndoGrow, GoTo, local, history
  <2>2. \A s \in Slots : s < next_slot' <=> s < next_slot
    BY <1>5, QuietTable DEF Quiet
  <2>3. \A u \in Threads : THREAD_SLOT[u] # None => THREAD_SLOT[u] < next_slot'
    BY <2>2 DEF TenantInv, TypeOK
  <2>4. \A s \in Slots : s >= next_slot' => cycles[s] = 0
    BY <2>2, <1>5 DEF TenantInv, TypeOK, Slots, UndoGrow
  <2>5. back[t] \in {"run", "dtors"}
    BY DEF TypeOK
  <2> QED
    BY <2>1, <2>3, <2>4, <2>5 DEF TenantInv, OwnWorkOnly, Acquired, TypeOK
<1>6. ASSUME NEW t \in Threads, Activate(t) PROVE TenantInv'
  <2>1. /\ UNCHANGED <<cycles, next_slot, slot, done, released, evicted>>
        /\ THREAD_SLOT' = [THREAD_SLOT EXCEPT ![t] = slot[t]]
        /\ pc' = [pc EXCEPT ![t] = back[t]]
        /\ pc[t] = "activate"
    BY <1>6 DEF Activate, GoTo, At, history
  <2>2. slot[t] \in Slots /\ THREAD_SLOT[t] = None /\ back[t] \in {"run", "dtors"}
    BY <2>1, MaxThreadsAssumption DEF LocalInv, TypeOK, Slots, Allocating
  <2>3. slot[t] < next_slot
    BY <2>1, <2>2 DEF TableAccounted, KeepsAccounted, Keeps
  <2>4. \A u \in Threads : Acquired(u)' => u # t /\ Acquired(u) /\ slot[u] # slot[t]
    BY <2>1, <2>2 DEF Acquired, SlotExclusive, Keeps, TypeOK
  <2>5. OwnWorkOnly'
    BY <2>1, <2>2 DEF TenantInv, OwnWorkOnly, TypeOK
  <2>6. \A u \in Threads :
          /\ u \in evicted' => u \in released'
          /\ THREAD_SLOT'[u] = None => done'[u] = 0
          /\ THREAD_SLOT'[u] # None => THREAD_SLOT'[u] < next_slot'
    BY <2>1, <2>2, <2>3 DEF TenantInv, TypeOK, Slots, None
  <2>7. \A u, v \in Threads : Acquired(u)' /\ THREAD_SLOT'[v] = slot'[u] => v \in evicted'
    BY <2>1, <2>2, <2>4 DEF TenantInv, TypeOK
  <2>8. \A u, v \in Threads :
          THREAD_SLOT'[u] # None /\ THREAD_SLOT'[u] = THREAD_SLOT'[v] =>
            u = v \/ u \in evicted' \/ v \in evicted'
    BY <2>1, <2>2 DEF TenantInv, Acquired, TypeOK
  <2>9. \A u \in Threads : pc'[u] = "activate" => cycles'[slot'[u]] = 0
    BY <2>1, <2>2 DEF TenantInv, TypeOK
  <2>10. \A s \in Slots : s >= next_slot' => cycles'[s] = 0
    BY <2>1 DEF TenantInv
  <2> QED
    BY <2>5, <2>6, <2>7, <2>8, <2>9, <2>10 DEF TenantInv
<1>7. ASSUME NEW t \in Threads, Record(t) PROVE TenantInv'
  <2>1. pc[t] = "run" /\ pc' = pc /\ THREAD_SLOT[t] # None /\ Charge(t, 1)
    BY <1>7 DEF Record, CallsHooks, At
  <2>2. t \notin released
    BY <2>1 DEF LocalInv
  <2> QED
    BY <2>1, <2>2, ChargeTenant
<1>8. ASSUME NEW t \in Threads, FinalCharge(t) PROVE TenantInv'
  <2>1. PICK units \in 0 .. 1 : Charge(t, units)
    BY <1>8 DEF FinalCharge
  <2>2. pc[t] = "cleanup" /\ pc' = [pc EXCEPT ![t] = "mark"]
    BY <1>8 DEF FinalCharge, At, GoTo
  <2>3. t \notin released /\ THREAD_SLOT[t] # None
    BY <2>2 DEF LocalInv
  <2>4. pc'[t] = "mark" /\ \A u \in Threads : u # t => pc'[u] = pc[u]
    BY <2>2 DEF TypeOK
  <2> QED
    BY <2>1, <2>3, <2>4, ChargeTenant
<1>9. ASSUME NEW t \in Threads, MarkTerminated(t) PROVE TenantInv'
  <2>1. /\ UNCHANGED <<cycles, next_slot, THREAD_SLOT, slot, done, evicted>>
        /\ released' = released \cup {t}
        /\ pc' = [pc EXCEPT ![t] = "dtors"]
    BY <1>9 DEF MarkTerminated, GoTo, local
  <2> QED
    BY <2>1 DEF TenantInv, OwnWorkOnly, Acquired, TypeOK
<1> QED
  BY <1>1, <1>2, <1>3, <1>4, <1>5, <1>6, <1>7, <1>8, <1>9, IdleOrNot

\* Both invariants hold in every reachable state.
LEMMA WorkInvariant == ASSUME LateHooks = {} PROVE Spec => []WorkInv
<1>1. Init => WorkInv
  BY SafeInit, TenantInit DEF WorkInv
<1>2. WorkInv /\ [Next]_vars => WorkInv'
  <2>1. SafeInv /\ [Next]_vars => SafeInv'
    BY TypeStep, LocalStep, ExclusiveStep, AccountedStep, ExcessStep
       DEF SafeInv, TableAccounted
  <2> QED
    BY <2>1, TenantStep DEF WorkInv
<1> QED
  BY <1>1, <1>2, PTL DEF Spec

\* A slot holds what its last owner recorded, no less, and nothing of others.
THEOREM SlotsKeepTheirWork == ASSUME LateHooks = {} PROVE Spec => []OwnWorkOnly
<1>1. WorkInv => OwnWorkOnly
  BY DEF WorkInv, TenantInv
<1> QED
  BY WorkInvariant, <1>1, PTL

-----------------------------------------------------------------------------
(* What the report counts                                                  *)

\* A slot holds no more than a thread has recorded that has, or has had, it.
EarnedInv ==
    \A s \in Slots :
      cycles[s] > 0 => \E t \in Threads : THREAD_SLOT[t] = s /\ cycles[s] <= done[t]

\* A slot that its last tenant has not lost is in use or Terminated.
LiveInv ==
    \A t \in Threads :
      THREAD_SLOT[t] # None /\ t \notin evicted => state[THREAD_SLOT[t]] # "Uninitialized"

\* While the main thread adds up the table: what is due is in the part of the table that
\* it goes through, and the sum so far is that of the slots behind it.
Counting == pc[Main] \in {"sum", "add"}
Counted == {t \in Threads : THREAD_SLOT[t] \in 0 .. slot[Main] - 1}

DueInv ==
    Counting =>
      \A t \in Threads :
        /\ due[t] <= done[t]
        /\ due[t] > 0 /\ t \notin evicted => THREAD_SLOT[t] \in 0 .. bound[Main] - 1

SumInv ==
    Counting =>
      /\ SumFunctionOnSet(due, Counted \ evicted) <= report
      /\ report <= SumFunctionOnSet(done, Counted)

BoundsInv == EarnedInv /\ LiveInv /\ DueInv /\ SumInv /\ ReportBounds

\* The steps that matter to slots and statistics.
Still == UNCHANGED <<state, cycles, done, evicted, THREAD_SLOT>>

LEMMA StillOrNot ==
    ASSUME SafeInv, [Next]_vars
    PROVE  \/ Still
           \/ \E t \in Threads :
                \/ ClaimWon(t) \/ ResetSlot(t) \/ Activate(t) \/ MarkTerminated(t)
                \/ Record(t) \/ FinalCharge(t)
<1> USE DEF Still, shared, local, history
<1>1. ASSUME NEW t \in Threads,
             \/ LoadBound(t) \/ ScanSlot(t) \/ ScanExhausted(t) \/ ClaimLost(t)
             \/ Spawn(t) \/ RetryInit(t) \/ Return(t) \/ Die(t)
      PROVE  Still
  BY <1>1 DEF LoadBound, ScanSlot, ScanExhausted, ClaimLost, Spawn, RetryInit, Return, Die
<1>2. ASSUME NEW t \in Threads, GrowRegistry(t) \/ UndoGrow(t) PROVE Still
  BY <1>2 DEF GrowRegistry, UndoGrow
<1>3. CASE Exit \/ ReportStep \/ Ended \/ UNCHANGED vars
  BY <1>3 DEF Exit, ReportStep, PrintStats, PrintStatsAgain, DumpBound, DumpSlot, DumpCounters,
     WriteReport, Ended, vars
<1> QED
  BY <1>1, <1>2, <1>3, IdleOrNot DEF Idle

\* What a thread records goes to its slot, which it has not lost.
LEMMA ChargeFacts ==
    ASSUME WorkInv, LateHooks = {}, NEW t \in Threads, Record(t) \/ FinalCharge(t)
    PROVE  /\ THREAD_SLOT[t] \in Slots /\ cycles[THREAD_SLOT[t]] = done[t]
           /\ UNCHANGED <<state, evicted, THREAD_SLOT>>
           /\ \E units \in Nat : /\ cycles' = [cycles EXCEPT ![THREAD_SLOT[t]] = @ + units]
                                 /\ done' = [done EXCEPT ![t] = @ + units]
<1> USE DEF WorkInv, SafeInv
<1>1. PICK units \in Nat : Charge(t, units)
  BY DEF Record, FinalCharge
<1>2. pc[t] \in {"run", "cleanup"} /\ THREAD_SLOT[t] # None
  BY DEF Record, FinalCharge, CallsHooks, At, LocalInv
<1>3. THREAD_SLOT[t] \in Slots /\ t \notin released
  BY <1>2 DEF TypeOK, LocalInv
<1>4. cycles[THREAD_SLOT[t]] = done[t]
  BY <1>2, <1>3 DEF TenantInv, OwnWorkOnly
<1> QED
  BY <1>1, <1>3, <1>4 DEF Charge, local

\* Slots are kept for life, evictions are final, work adds up.
LEMMA Grows ==
    ASSUME WorkInv, LateHooks = {}, [Next]_vars
    PROVE  /\ evicted \subseteq evicted'
           /\ \A t \in Threads : done[t] <= done'[t]
           /\ \A t \in Threads : THREAD_SLOT[t] # None => THREAD_SLOT'[t] = THREAD_SLOT[t]
<1> USE DEF WorkInv, SafeInv
<1>0. \A t \in Threads : done[t] \in Nat
  BY DEF TypeOK
<1>1. CASE Still
  BY <1>0, <1>1 DEF Still
<1>2. ASSUME NEW t \in Threads, ClaimWon(t) \/ ResetSlot(t) \/ MarkTerminated(t)
      PROVE  evicted \subseteq evicted' /\ done' = done /\ THREAD_SLOT' = THREAD_SLOT
  BY <1>2 DEF ClaimWon, ResetSlot, MarkTerminated, local, history
<1>3. ASSUME NEW t \in Threads, Activate(t)
      PROVE  /\ evicted' = evicted /\ done' = done
             /\ \A u \in Threads : THREAD_SLOT[u] # None => THREAD_SLOT'[u] = THREAD_SLOT[u]
  <2>1. THREAD_SLOT[t] = None
    BY <1>3 DEF Activate, At, LocalInv, Allocating
  <2> QED
    BY <1>3, <2>1 DEF Activate, history, TypeOK
<1>4. ASSUME NEW t \in Threads, Record(t) \/ FinalCharge(t)
      PROVE  /\ evicted' = evicted /\ THREAD_SLOT' = THREAD_SLOT
             /\ \A u \in Threads : done[u] <= done'[u]
  <2>1. PICK units \in Nat : done' = [done EXCEPT ![t] = @ + units]
    BY <1>4, ChargeFacts
  <2> QED
    BY <1>0, <1>4, <2>1, ChargeFacts DEF TypeOK
<1> QED
  BY <1>0, <1>1, <1>2, <1>3, <1>4, StillOrNot

LEMMA EarnedStep ==
    ASSUME WorkInv, LateHooks = {}, EarnedInv, [Next]_vars
    PROVE  EarnedInv'
<1> USE DEF WorkInv, SafeInv
<1> SUFFICES ASSUME NEW s \in Slots, cycles'[s] > 0
             PROVE  \E t \in Threads : THREAD_SLOT'[t] = s /\ cycles'[s] <= done'[t]
  BY DEF EarnedInv, Slots
<1>0. /\ s # None
      /\ \A t \in Threads : done[t] \in Nat /\ done'[t] \in Nat
      /\ cycles[s] \in Nat /\ cycles'[s] \in Nat
  <2>1. TypeOK'
    BY TypeStep DEF TableAccounted
  <2>2. s # None
    BY MaxThreadsAssumption DEF Slots, None
  <2>3. done \in [Threads -> Nat] /\ done' \in [Threads -> Nat]
    BY <2>1 DEF TypeOK
  <2>4. cycles \in [Slots -> Nat] /\ cycles' \in [Slots -> Nat]
    BY <2>1 DEF TypeOK, Slots
  <2> QED
    BY <2>2, <2>3, <2>4
<1>1. CASE cycles'[s] <= cycles[s]
  <2>0. cycles[s] > 0
    BY <1>0, <1>1
  <2>1. PICK t \in Threads : THREAD_SLOT[t] = s /\ cycles[s] <= done[t]
    BY <2>0 DEF EarnedInv
  <2>2. THREAD_SLOT'[t] = s /\ done[t] <= done'[t]
    BY <1>0, <2>1, Grows
  <2>3. cycles'[s] <= done'[t]
    BY <1>0, <1>1, <2>1, <2>2
  <2> QED
    BY <2>2, <2>3
<1>2. ASSUME NEW t \in Threads, Record(t) \/ FinalCharge(t), s = THREAD_SLOT[t]
      PROVE  THREAD_SLOT'[t] = s /\ cycles'[s] <= done'[t]
  <2>1. /\ cycles[s] = done[t] /\ THREAD_SLOT' = THREAD_SLOT
        /\ \E units \in Nat : /\ cycles' = [cycles EXCEPT ![s] = @ + units]
                              /\ done' = [done EXCEPT ![t] = @ + units]
    BY <1>2, ChargeFacts
  <2>2. cycles'[s] = done'[t]
    BY <2>1 DEF TypeOK
  <2> QED
    BY <1>0, <1>2, <2>1, <2>2
<1>3. CASE ~ (cycles'[s] <= cycles[s])
  <2>1. \E t \in Threads : (Record(t) \/ FinalCharge(t)) /\ s = THREAD_SLOT[t]
    <3>1. cycles'[s] # cycles[s]
      BY <1>0, <1>3, ThreadsAssumption
    <3>2. ASSUME NEW t \in Threads, ResetSlot(t) PROVE FALSE
      BY <1>0, <1>3, <3>1, <3>2, ThreadsAssumption DEF ResetSlot, TypeOK
    <3>3. ASSUME NEW t \in Threads, ClaimWon(t) \/ Activate(t) \/ MarkTerminated(t) PROVE FALSE
      BY <3>1, <3>3 DEF ClaimWon, Activate, MarkTerminated
    <3>4. ASSUME NEW t \in Threads, Record(t) \/ FinalCharge(t) PROVE s = THREAD_SLOT[t]
      BY <3>1, <3>4, ChargeFacts DEF TypeOK
    <3> QED
      BY <3>1, <3>2, <3>3, <3>4, StillOrNot DEF Still
  <2> QED
    BY <1>2, <2>1
<1> QED
  BY <1>1, <1>3

LEMMA LiveStep ==
    ASSUME WorkInv, LateHooks = {}, LiveInv, [Next]_vars
    PROVE  LiveInv'
<1> USE DEF WorkInv, SafeInv, LiveInv, TypeOK
<1>1. CASE Still
  BY <1>1 DEF Still
<1>2. ASSUME NEW t \in Threads, ClaimWon(t) PROVE LiveInv'
  BY <1>2 DEF ClaimWon, local
<1>3. ASSUME NEW t \in Threads, ResetSlot(t) PROVE LiveInv'
  BY <1>3 DEF ResetSlot, local, history
<1>4. ASSUME NEW t \in Threads, Activate(t) PROVE LiveInv'
  <2>1. slot[t] \in Slots
    BY <1>4, MaxThreadsAssumption DEF Activate, At, LocalInv, Slots
  <2> QED
    BY <1>4, <2>1 DEF Activate, history
<1>5. ASSUME NEW t \in Threads, MarkTerminated(t) PROVE LiveInv'
  BY <1>5 DEF MarkTerminated, local
<1>6. ASSUME NEW t \in Threads, Record(t) \/ FinalCharge(t) PROVE LiveInv'
  BY <1>6, ChargeFacts
<1> QED
  BY <1>1, <1>2, <1>3, <1>4, <1>5, <1>6, StillOrNot

\* What the rest of the program does while the main thread is in its exit path.
LEMMA MainAside ==
    ASSUME TypeOK, NEW t \in Threads, AllocateStep(t) \/ ThreadStep(t)
    PROVE  /\ UNCHANGED <<report, reports, due>>
           /\ pc'[Main] \in Reporting =>
                pc'[Main] = pc[Main] /\ slot'[Main] = slot[Main] /\ bound'[Main] = bound[Main]
<1>1. Aside(t)
  BY StepAside
<1>2. CASE t = Main
  BY <1>1, <1>2 DEF Aside
<1>3. CASE t # Main
  BY <1>1, <1>3, ThreadsAssumption DEF Aside
<1> QED
  BY <1>2, <1>3

\* What the exit path does to the table and to what the threads have recorded: nothing.
LEMMA ReportKeeps ==
    ASSUME Exit \/ ReportStep \/ Ended \/ UNCHANGED vars
    PROVE  UNCHANGED <<state, cycles, done, evicted, THREAD_SLOT, next_slot>>
BY DEF Exit, ReportStep, PrintStats, PrintStatsAgain, DumpBound, DumpSlot, DumpCounters,
   WriteReport, Ended, vars, shared, local, history

\* The statistics, as numbers.
LEMMA Numbers ==
    ASSUME TypeOK
    PROVE  /\ \A t \in Threads : due[t] \in Nat /\ done[t] \in Nat
           /\ \A t \in Threads : THREAD_SLOT[t] \in Int
           /\ slot[Main] \in Nat /\ bound[Main] \in Nat /\ report \in Nat
<1>1. due \in [Threads -> Nat] /\ done \in [Threads -> Nat]
  BY DEF TypeOK
<1>2. THREAD_SLOT \in [Threads -> Slots \cup {None}]
  BY DEF TypeOK
<1>3. slot \in [Threads -> 0 .. MaxThreads] /\ bound \in [Threads -> 0 .. MaxThreads]
  BY DEF TypeOK
<1>4. report \in Nat
  BY DEF TypeOK
<1>5. \A t \in Threads : THREAD_SLOT[t] \in Int
  BY <1>2, MaxThreadsAssumption DEF Slots, None
<1> QED
  BY <1>1, <1>3, <1>4, <1>5, ThreadsAssumption, MaxThreadsAssumption

LEMMA DueStep ==
    ASSUME WorkInv, LateHooks = {}, DueInv, [Next]_vars
    PROVE  DueInv'
<1> USE DEF WorkInv, SafeInv
<1>0. TypeOK'
  BY TypeStep DEF TableAccounted
<1>a. /\ \A t \in Threads : due[t] \in Nat /\ done[t] \in Nat /\ THREAD_SLOT[t] \in Int
      /\ \A t \in Threads : due'[t] \in Nat /\ done'[t] \in Nat
  BY <1>0, Numbers DEF TypeOK
<1>1. ASSUME NEW t \in Threads, AllocateStep(t) \/ ThreadStep(t) PROVE DueInv'
  <2> SUFFICES ASSUME Counting', NEW u \in Threads
               PROVE  /\ due'[u] <= done'[u]
                      /\ due'[u] > 0 /\ u \notin evicted' =>
                           THREAD_SLOT'[u] \in 0 .. bound'[Main] - 1
    BY DEF DueInv
  <2>1. Counting /\ bound'[Main] = bound[Main] /\ due' = due
    BY <1>1, MainAside DEF Counting, Reporting
  <2>2. evicted \subseteq evicted' /\ done[u] <= done'[u]
    BY Grows
  <2>3. due'[u] <= done'[u]
    BY <1>a, <2>1, <2>2 DEF DueInv
  <2>4. ASSUME due'[u] > 0, u \notin evicted' PROVE THREAD_SLOT'[u] \in 0 .. bound'[Main] - 1
    <3>1. THREAD_SLOT[u] \in 0 .. bound[Main] - 1
      BY <2>1, <2>2, <2>4 DEF DueInv
    <3>2. THREAD_SLOT[u] # None
      BY <3>1 DEF None
    <3> QED
      BY <2>1, <3>1, <3>2, Grows
  <2> QED
    BY <2>3, <2>4
<1>2. CASE DumpBound
  <2>1. due' = done /\ done' = done /\ THREAD_SLOT' = THREAD_SLOT
    BY <1>2 DEF DumpBound, local, history
  <2>2. bound'[Main] = Lesser(next_slot, MaxThreads)
    BY <1>2, ThreadsAssumption DEF DumpBound, TypeOK
  <2>3. ASSUME NEW u \in Threads, done[u] > 0
        PROVE  THREAD_SLOT[u] \in 0 .. Lesser(next_slot, MaxThreads) - 1
    <3>1. THREAD_SLOT[u] # None /\ THREAD_SLOT[u] < next_slot
      BY <2>3 DEF TenantInv
    <3>2. THREAD_SLOT[u] \in Slots /\ next_slot \in Nat
      BY <3>1 DEF TypeOK
    <3> QED
      BY <3>1, <3>2, MaxThreadsAssumption DEF Lesser, Slots
  <2> QED
    BY <1>a, <2>1, <2>2, <2>3 DEF DueInv
<1>3. CASE DumpSlot \/ DumpCounters \/ UNCHANGED vars
  <2>1. UNCHANGED <<bound, due>>
    BY <1>3 DEF DumpSlot, DumpCounters, vars, local, reporting
  <2>2. UNCHANGED <<done, evicted, THREAD_SLOT>>
    BY <1>3, ReportKeeps DEF ReportStep
  <2>3. Counting' => Counting
    BY <1>3 DEF DumpSlot, DumpCounters, vars, At, Counting
  <2> QED
    BY <2>1, <2>2, <2>3 DEF DueInv
<1>4. CASE Exit \/ PrintStats \/ PrintStatsAgain \/ WriteReport \/ Ended
  <2>1. ~ Counting'
    BY <1>4, ThreadsAssumption
       DEF Exit, PrintStats, PrintStatsAgain, WriteReport, Ended, GoTo, At, Counting, TypeOK, vars
  <2> QED
    BY <2>1 DEF DueInv
<1> QED
  BY <1>1, <1>2, <1>3, <1>4 DEF Next, ReportStep

\* A sum over some of the threads.
LEMMA SomeThreads ==
    ASSUME TypeOK, NEW S, S \subseteq Threads
    PROVE  /\ IsFiniteSet(S)
           /\ \A t \in S : due[t] \in Int /\ due[t] \in Nat /\ done[t] \in Int /\ done[t] \in Nat
           /\ SumFunctionOnSet(due, S) \in Int /\ SumFunctionOnSet(done, S) \in Int
<1>1. IsFiniteSet(S)
  BY ThreadsAssumption, FS_Subset
<1>2. \A t \in S : due[t] \in Int /\ due[t] \in Nat /\ done[t] \in Int /\ done[t] \in Nat
  BY Numbers
<1>3. \A t \in S : due[t] \in Int
  BY <1>2
<1>4. \A t \in S : done[t] \in Int
  BY <1>2
<1>5. SumFunctionOnSet(due, S) \in Int
  BY <1>1, <1>3, SumType
<1>6. SumFunctionOnSet(done, S) \in Int
  BY <1>1, <1>4, SumType
<1> QED
  BY <1>1, <1>2, <1>5, <1>6

\* The rest of the program neither adds to what is due of the slots behind the main thread
\* nor takes away from what was recorded in them.
LEMMA SumAside ==
    ASSUME WorkInv, LateHooks = {}, DueInv, SumInv, [Next]_vars,
           NEW t \in Threads, AllocateStep(t) \/ ThreadStep(t)
    PROVE  SumInv'
<1> SUFFICES ASSUME Counting'
             PROVE  /\ SumFunctionOnSet(due', (Counted \ evicted)') <= report'
                    /\ report' <= SumFunctionOnSet(done', Counted')
  BY DEF SumInv
<1> USE DEF WorkInv, SafeInv
<1>0. TypeOK'
  BY TypeStep DEF TableAccounted
<1>1. Counting /\ slot'[Main] = slot[Main] /\ due' = due /\ report' = report
  BY MainAside DEF Counting, Reporting
<1>2. \A x \in Threads : done[x] \in Nat /\ done'[x] \in Nat /\ due[x] \in Nat
  BY <1>0, Numbers DEF TypeOK
<1>3. ASSUME NEW x \in Counted PROVE x \in Counted' /\ done[x] <= done'[x]
  <2>1. x \in Threads /\ THREAD_SLOT[x] # None
    BY DEF Counted, None
  <2> QED
    BY <1>1, <1>3, <2>1, Grows DEF Counted
<1>4. ASSUME NEW x \in (Counted \ evicted)', due[x] > 0 PROVE x \in Counted \ evicted
  <2>1. x \in Threads /\ x \notin evicted
    BY Grows DEF Counted
  <2>2. THREAD_SLOT[x] # None
    BY <1>1, <1>4, <2>1 DEF DueInv, None
  <2>3. THREAD_SLOT'[x] = THREAD_SLOT[x]
    BY <2>1, <2>2, Grows
  <2> QED
    BY <1>1, <2>1, <2>3 DEF Counted
<1>5. SumFunctionOnSet(done, Counted) <= SumFunctionOnSet(done', Counted')
  <2>1. Counted \subseteq Threads /\ Counted' \subseteq Threads
    BY DEF Counted
  <2>2. IsFiniteSet(Counted) /\ IsFiniteSet(Counted')
    BY <2>1, ThreadsAssumption, FS_Subset
  <2>3. \A x \in Counted : done[x] \in Int
    BY <1>2, <2>1
  <2>4. \A x \in Counted' : done'[x] \in Nat
    BY <1>2, <2>1
  <2>5. \A x \in Counted : done[x] > 0 => x \in Counted' /\ done[x] <= done'[x]
    BY <1>3
  <2> QED
    BY <2>2, <2>3, <2>4, <2>5, SumGrows
<1>6. SumFunctionOnSet(due, (Counted \ evicted)') <= SumFunctionOnSet(due, Counted \ evicted)
  <2> DEFINE S == (Counted \ evicted)'
             T == Counted \ evicted
  <2>1. S \subseteq Threads /\ T \subseteq Threads
    BY DEF Counted
  <2>5. \A x \in S : due[x] > 0 => x \in T
    BY <1>4
  <2> HIDE DEF S, T
  <2>2. IsFiniteSet(S) /\ IsFiniteSet(T)
    BY <2>1, ThreadsAssumption, FS_Subset
  <2>3. \A x \in S : due[x] \in Int
    BY <1>2, <2>1
  <2>4. \A x \in T : due[x] \in Nat
    BY <1>2, <2>1
  <2>6. \A x \in S : due[x] > 0 => x \in T /\ due[x] <= due[x]
    BY <2>3, <2>5
  <2>7. SumFunctionOnSet(due, S) <= SumFunctionOnSet(due, T)
    BY <2>2, <2>3, <2>4, <2>6, SumGrows
  <2> QED
    BY <2>7 DEF S, T
<1> HIDE DEF WorkInv, SafeInv
<1>7. /\ SumFunctionOnSet(due, Counted \ evicted) \in Int
      /\ SumFunctionOnSet(done, Counted) \in Int
  <2>1. Counted \subseteq Threads /\ Counted \ evicted \subseteq Threads
    BY DEF Counted
  <2> QED
    BY <2>1, SomeThreads DEF WorkInv, SafeInv
<1>8. /\ SumFunctionOnSet(due, (Counted \ evicted)') \in Int
      /\ SumFunctionOnSet(done', Counted') \in Int
  <2>1. Counted' \subseteq Threads /\ (Counted \ evicted)' \subseteq Threads
    BY DEF Counted
  <2>2. IsFiniteSet(Counted') /\ IsFiniteSet((Counted \ evicted)')
    BY <2>1, ThreadsAssumption, FS_Subset
  <2>3. \A x \in (Counted \ evicted)' : due[x] \in Int
    BY <1>2, <2>1
  <2>4. \A x \in Counted' : done'[x] \in Int
    BY <1>2, <2>1
  <2> QED
    BY <2>2, <2>3, <2>4, SumType
<1>9. report \in Int
  BY Numbers DEF WorkInv, SafeInv
<1>10. SumFunctionOnSet(due, Counted \ evicted) <= report
       /\ report <= SumFunctionOnSet(done, Counted)
  BY <1>1 DEF SumInv
<1> QED
  BY <1>1, <1>5, <1>6, <1>7, <1>8, <1>9, <1>10

\* What is due of a part of the table is in the sum when it is in a part that has been
\* added up.
LEMMA Smaller ==
    ASSUME TypeOK, NEW S, NEW T, S \subseteq Threads, T \subseteq Threads
    PROVE  /\ (\A x \in S : due[x] > 0 => x \in T) =>
                SumFunctionOnSet(due, S) <= SumFunctionOnSet(due, T)
           /\ (\A x \in S : done[x] > 0 => x \in T) =>
                SumFunctionOnSet(done, S) <= SumFunctionOnSet(done, T)
<1>1. IsFiniteSet(S) /\ IsFiniteSet(T)
  BY ThreadsAssumption, FS_Subset
<1>2. (\A x \in S : due[x] \in Int) /\ (\A x \in T : due[x] \in Nat)
  BY Numbers
<1>3. (\A x \in S : done[x] \in Int) /\ (\A x \in T : done[x] \in Nat)
  BY Numbers
<1>4. ASSUME \A x \in S : due[x] > 0 => x \in T
      PROVE  SumFunctionOnSet(due, S) <= SumFunctionOnSet(due, T)
  <2>1. \A x \in S : due[x] > 0 => x \in T /\ due[x] <= due[x]
    BY <1>2, <1>4
  <2> QED
    BY <1>1, <1>2, <2>1, SumGrows
<1>5. ASSUME \A x \in S : done[x] > 0 => x \in T
      PROVE  SumFunctionOnSet(done, S) <= SumFunctionOnSet(done, T)
  <2>1. \A x \in S : done[x] > 0 => x \in T /\ done[x] <= done[x]
    BY <1>3, <1>5
  <2> QED
    BY <1>1, <1>3, <2>1, SumGrows
<1> QED
  BY <1>4, <1>5

\* Passing a slot that is Uninitialized leaves nothing out.
LEMMA SumPass ==
    ASSUME WorkInv, LiveInv, SumInv, DumpSlot PROVE SumInv'
<1> USE DEF WorkInv, SafeInv
<1> DEFINE k == slot[Main]
<1>1. Counting /\ UNCHANGED <<report, due, done, evicted, THREAD_SLOT>>
  BY DEF DumpSlot, At, Counting, shared, local, reporting, history
<1>2. CASE slot' = slot
  BY <1>1, <1>2 DEF SumInv, Counted
<1>3. CASE state[k] = "Uninitialized" /\ slot'[Main] = k + 1
  <2>0. \A x \in Threads : THREAD_SLOT[x] \in Int
    BY Numbers
  <2>1. k \in Nat
    BY Numbers
  <2>2. Counted' = {x \in Threads : THREAD_SLOT[x] \in 0 .. k}
    BY <1>1, <1>3, <2>1 DEF Counted
  <2>3. Counted \subseteq Counted' /\ Counted' \subseteq Threads
    BY <2>0, <2>1, <2>2 DEF Counted
  <2>4. ASSUME NEW x \in Counted' \ evicted PROVE x \in Counted \ evicted
    <3>1. x \in Threads /\ THREAD_SLOT[x] \in 0 .. k /\ x \notin evicted
      BY <2>2
    <3>2. THREAD_SLOT[x] # k
      BY <1>3, <2>1, <3>1 DEF LiveInv, None
    <3> QED
      BY <2>1, <3>1, <3>2 DEF Counted
  <2>5. SumFunctionOnSet(due, Counted' \ evicted) <= SumFunctionOnSet(due, Counted \ evicted)
    BY <2>3, <2>4, Smaller
  <2>6. SumFunctionOnSet(done, Counted) <= SumFunctionOnSet(done, Counted')
    BY <2>3, Smaller
  <2>7. /\ SumFunctionOnSet(due, Counted' \ evicted) \in Int
        /\ SumFunctionOnSet(due, Counted \ evicted) \in Int
        /\ SumFunctionOnSet(done, Counted') \in Int /\ SumFunctionOnSet(done, Counted) \in Int
    <3>1. /\ Counted' \ evicted \subseteq Threads /\ Counted \ evicted \subseteq Threads
          /\ Counted \subseteq Threads
      BY <2>3
    <3> QED
      BY <2>3, <3>1, SomeThreads
  <2>8. report \in Int
    BY Numbers
  <2>9. SumFunctionOnSet(due, Counted' \ evicted) <= report
        /\ report <= SumFunctionOnSet(done, Counted')
    BY <1>1, <2>5, <2>6, <2>7, <2>8 DEF SumInv
  <2> QED
    BY <1>1, <2>9 DEF SumInv
<1> QED
  BY <1>2, <1>3, ThreadsAssumption DEF DumpSlot, TypeOK

\* Adding a slot adds what its tenant has recorded, which is no less than what is due of
\* it and no more than somebody has recorded.
LEMMA SumAdd ==
    ASSUME WorkInv, EarnedInv, DueInv, SumInv, DumpCounters PROVE SumInv'
<1> USE DEF WorkInv, SafeInv
<1> DEFINE k == slot[Main]
           c == cycles[k]
<1>1. /\ Counting /\ UNCHANGED <<due, done, evicted, THREAD_SLOT>>
      /\ slot'[Main] = k + 1 /\ report' = report + c
  BY ThreadsAssumption DEF DumpCounters, At, Counting, shared, local, reporting, history, TypeOK
<1>2. k \in Slots /\ c \in Nat
  <2>1. k \in 0 .. MaxThreads /\ k < MaxThreads
    BY ThreadsAssumption DEF DumpCounters, At, TypeOK, LocalInv
  <2>2. k \in Slots
    BY <2>1, MaxThreadsAssumption DEF Slots
  <2> QED
    BY <2>2 DEF TypeOK
<1>3. k \in Nat /\ k # None /\ report \in Int
  BY <1>2, MaxThreadsAssumption, Numbers DEF Slots, None
<1>4. \A x \in Threads : /\ THREAD_SLOT[x] \in Int /\ due[x] \in Nat /\ done[x] \in Nat
                         /\ due[x] <= done[x]
  BY <1>1, Numbers DEF DueInv
<1> HIDE DEF c
<1>5. Counted' = {x \in Threads : THREAD_SLOT[x] \in 0 .. k}
  BY <1>1, <1>3 DEF Counted
<1>6. \A x \in Threads : x \in Counted' <=> x \in Counted \/ THREAD_SLOT[x] = k
  BY <1>3, <1>4, <1>5 DEF Counted
<1>7. \A x \in Threads : THREAD_SLOT[x] = k => x \notin Counted
  BY <1>3 DEF Counted
<1>8. Counted \subseteq Threads /\ Counted' \subseteq Threads
  BY <1>5 DEF Counted
<1> DEFINE A == Counted'
           B == Counted
           L == A \ evicted
           M == B \ evicted
<1>9. A \subseteq Threads /\ B \subseteq Threads /\ L \subseteq Threads /\ M \subseteq Threads
  BY <1>8
<1>10. \A x \in Threads : /\ x \in A <=> x \in B \/ THREAD_SLOT[x] = k
                          /\ THREAD_SLOT[x] = k => x \notin B
  BY <1>6, <1>7
<1>11. SumFunctionOnSet(due, M) <= report /\ report <= SumFunctionOnSet(done, B)
  BY <1>1 DEF SumInv
<1> HIDE DEF A, B
<1>12. report + c <= SumFunctionOnSet(done, A)
  <2>1. CASE c = 0
    <3>1. SumFunctionOnSet(done, B) <= SumFunctionOnSet(done, A)
      BY <1>9, <1>10, Smaller
    <3>2. SumFunctionOnSet(done, B) \in Int /\ SumFunctionOnSet(done, A) \in Int
      BY <1>9, SomeThreads
    <3> QED
      BY <1>3, <1>11, <2>1, <3>1, <3>2
  <2>2. CASE c > 0
    <3>1. PICK t \in Threads : THREAD_SLOT[t] = k /\ c <= done[t]
      BY <1>2, <2>2 DEF EarnedInv, c
    <3>2. t \in A /\ t \notin B
      BY <1>10, <3>1
    <3>3. IsFiniteSet(A) /\ \A x \in A : done[x] \in Int
      BY <1>9, SomeThreads
    <3>4. SumFunctionOnSet(done, A) = done[t] + SumFunctionOnSet(done, A \ {t})
      BY <3>2, <3>3, SumSplit
    <3>5. A \ {t} \subseteq Threads /\ \A x \in B : x \in A \ {t}
      BY <1>9, <1>10, <3>2
    <3>6. SumFunctionOnSet(done, B) <= SumFunctionOnSet(done, A \ {t})
      BY <1>9, <3>5, Smaller
    <3>7. SumFunctionOnSet(done, B) \in Int /\ SumFunctionOnSet(done, A \ {t}) \in Int
      BY <1>9, <3>5, SomeThreads
    <3> QED
      BY <1>2, <1>3, <1>4, <1>11, <3>1, <3>4, <3>6, <3>7
  <2> QED
    BY <1>2, <2>1, <2>2
<1>13. SumFunctionOnSet(due, L) <= report + c
  <2>1. ASSUME NEW t \in Threads \ evicted, THREAD_SLOT[t] = k
        PROVE  SumFunctionOnSet(due, L) <= report + c
    <3>1. c = done[t]
      BY <1>3, <2>1 DEF c, TenantInv, OwnWorkOnly
    <3>2. t \in L
      BY <1>10, <2>1
    <3>3. IsFiniteSet(L) /\ \A x \in L : due[x] \in Int
      BY <1>9, SomeThreads
    <3>4. SumFunctionOnSet(due, L) = due[t] + SumFunctionOnSet(due, L \ {t})
      BY <3>2, <3>3, SumSplit
    <3>5. ASSUME NEW x \in L \ {t} PROVE x \in M
      <4>1. x \in Threads /\ x \in A /\ x \notin evicted /\ x # t
        BY <1>9, <3>5
      <4>2. THREAD_SLOT[x] # k
        BY <1>3, <2>1, <4>1 DEF TenantInv
      <4> QED
        BY <1>10, <4>1, <4>2
    <3>6. L \ {t} \subseteq Threads
      BY <1>9
    <3>7. SumFunctionOnSet(due, L \ {t}) <= SumFunctionOnSet(due, M)
      BY <1>9, <3>5, <3>6, Smaller
    <3>8. SumFunctionOnSet(due, L \ {t}) \in Int /\ SumFunctionOnSet(due, M) \in Int
      BY <1>9, <3>6, SomeThreads
    <3> HIDE DEF L, M
    <3> QED
      BY <1>3, <1>4, <1>11, <2>1, <3>1, <3>4, <3>7, <3>8
  <2>2. ASSUME \A x \in Threads \ evicted : THREAD_SLOT[x] # k
        PROVE  SumFunctionOnSet(due, L) <= report + c
    <3>1. \A x \in L : x \in M
      BY <1>9, <1>10, <2>2
    <3>2. SumFunctionOnSet(due, L) <= SumFunctionOnSet(due, M)
      BY <1>9, <3>1, Smaller
    <3>3. SumFunctionOnSet(due, L) \in Int /\ SumFunctionOnSet(due, M) \in Int
      BY <1>9, SomeThreads
    <3> HIDE DEF L, M
    <3> QED
      BY <1>2, <1>3, <1>11, <3>2, <3>3
  <2> QED
    BY <2>1, <2>2
<1> QED
  BY <1>1, <1>12, <1>13 DEF SumInv, A, L

LEMMA SumStep ==
    ASSUME WorkInv, LateHooks = {}, EarnedInv, LiveInv, DueInv, SumInv, [Next]_vars
    PROVE  SumInv'
<1> USE DEF WorkInv, SafeInv
<1>1. ASSUME NEW t \in Threads, AllocateStep(t) \/ ThreadStep(t) PROVE SumInv'
  BY <1>1, SumAside
<1>2. CASE DumpBound
  <2>1. Counted' = {}
    <3>1. slot'[Main] = 0
      BY <1>2, ThreadsAssumption DEF DumpBound, TypeOK
    <3> QED
      BY <3>1 DEF Counted
  <2>2. Counted' \ evicted' = {} /\ report' = 0
    BY <1>2, <2>1 DEF DumpBound
  <2>3. SumFunctionOnSet(due', {}) = 0 /\ SumFunctionOnSet(done', {}) = 0
    BY SumEmpty
  <2>4. SumFunctionOnSet(due', Counted' \ evicted') = 0 /\ SumFunctionOnSet(done', Counted') = 0
    BY <2>1, <2>2, <2>3
  <2> QED
    BY <2>2, <2>4 DEF SumInv
<1>3. CASE DumpSlot
  BY <1>3, SumPass
<1>4. CASE DumpCounters
  BY <1>4, SumAdd
<1>5. CASE Exit \/ PrintStats \/ PrintStatsAgain \/ WriteReport \/ Ended
  <2>1. ~ Counting'
    BY <1>5, ThreadsAssumption
       DEF Exit, PrintStats, PrintStatsAgain, WriteReport, Ended, GoTo, At, Counting, TypeOK, vars
  <2> QED
    BY <2>1 DEF SumInv
<1>6. CASE UNCHANGED vars
  BY <1>6 DEF SumInv, Counting, Counted, vars, shared, local, reporting, history
<1> QED
  BY <1>1, <1>2, <1>3, <1>4, <1>5, <1>6 DEF Next, ReportStep

\* When the report is written all that is due has been behind the main thread; what is
\* recorded or evicted afterwards only widens the bounds.
LEMMA BoundsStep ==
    ASSUME WorkInv, LateHooks = {}, OnceInv, DueInv, SumInv, ReportBounds, [Next]_vars
    PROVE  ReportBounds'
<1> USE DEF WorkInv, SafeInv
<1>0. TypeOK'
  BY TypeStep DEF TableAccounted
<1>1. \A x \in Threads : done[x] \in Nat /\ done'[x] \in Nat /\ due[x] \in Nat
  BY <1>0, Numbers DEF TypeOK
<1>2. /\ IsFiniteSet(Threads) /\ IsFiniteSet(Threads \ evicted) /\ report \in Int
      /\ SumFunctionOnSet(due, Threads \ evicted) \in Int
      /\ SumFunctionOnSet(done, Threads) \in Int
  BY SomeThreads, Numbers
<1>3. ASSUME NEW t \in Threads, AllocateStep(t) \/ ThreadStep(t), pc'[Main] = "exit",
             ReportComplete'
      PROVE  /\ SumFunctionOnSet(due', Threads \ evicted') <= report'
             /\ report' <= SumFunctionOnSet(done', Threads)
  <2>1. pc[Main] = "exit" /\ UNCHANGED <<report, reports, due>>
    BY <1>3, MainAside DEF Reporting
  <2>2. /\ SumFunctionOnSet(due, Threads \ evicted) <= report
        /\ report <= SumFunctionOnSet(done, Threads)
    BY <1>3, <2>1 DEF ReportBounds, ReportComplete
  <2>3. evicted \subseteq evicted' /\ \A x \in Threads : done[x] <= done'[x]
    BY Grows
  <2>4. \A x \in Threads \ evicted' : x \in Threads \ evicted
    BY <2>3
  <2>5. SumFunctionOnSet(due, Threads \ evicted') <= SumFunctionOnSet(due, Threads \ evicted)
    BY <2>4, Smaller
  <2>6. SumFunctionOnSet(due, Threads \ evicted') \in Int
    BY SomeThreads
  <2>7. (\A x \in Threads : done[x] \in Int) /\ (\A x \in Threads : done'[x] \in Int)
    BY <1>1
  <2>8. SumFunctionOnSet(done', Threads) \in Int
    BY <1>2, <2>7, SumType
  <2>9. SumFunctionOnSet(done, Threads) <= SumFunctionOnSet(done', Threads)
    <3>1. \A x \in Threads : done'[x] \in Nat
      BY <1>1
    <3>2. \A x \in Threads : done[x] > 0 => x \in Threads /\ done[x] <= done'[x]
      BY <2>3
    <3> QED
      BY <1>2, <2>7, <3>1, <3>2, SumGrows
  <2> QED
    BY <1>2, <2>1, <2>2, <2>5, <2>6, <2>8, <2>9
<1>4. CASE WriteReport
  <2>1. Counting /\ slot[Main] >= bound[Main] /\ UNCHANGED <<report, due, done, evicted>>
    BY <1>4 DEF WriteReport, At, Counting, history
  <2>2. Counted \subseteq Threads
    BY DEF Counted
  <2>3. ASSUME NEW x \in Threads \ evicted, due[x] > 0 PROVE x \in Counted \ evicted
    <3>1. THREAD_SLOT[x] \in 0 .. bound[Main] - 1
      BY <2>1, <2>3 DEF DueInv
    <3>2. THREAD_SLOT[x] \in 0 .. slot[Main] - 1
      BY <2>1, <3>1, Numbers
    <3> QED
      BY <2>3, <3>2 DEF Counted
  <2>4. SumFunctionOnSet(due, Threads \ evicted) <= SumFunctionOnSet(due, Counted \ evicted)
    BY <2>2, <2>3, Smaller
  <2>5. SumFunctionOnSet(done, Counted) <= SumFunctionOnSet(done, Threads)
    BY <2>2, Smaller
  <2>6. SumFunctionOnSet(due, Counted \ evicted) \in Int /\ SumFunctionOnSet(done, Counted) \in Int
    BY <2>2, SomeThreads
  <2>7. SumFunctionOnSet(due, Threads \ evicted) <= report
        /\ report <= SumFunctionOnSet(done, Threads)
    BY <1>2, <2>1, <2>4, <2>5, <2>6 DEF SumInv
  <2> QED
    BY <2>1, <2>7 DEF ReportBounds
<1>5. CASE Exit
  <2>1. reports' = 0
    BY <1>5 DEF Exit, At, OnceInv, Reporting, reporting
  <2> QED
    BY <2>1 DEF ReportBounds, ReportComplete
<1>6. CASE PrintStats \/ PrintStatsAgain \/ DumpBound \/ DumpSlot \/ DumpCounters \/ Ended
  <2>1. pc'[Main] # "exit"
    BY <1>6, ThreadsAssumption
       DEF PrintStats, PrintStatsAgain, DumpBound, DumpSlot, DumpCounters, Ended, GoTo, At, TypeOK, vars
  <2> QED
    BY <2>1 DEF ReportBounds
<1>7. CASE UNCHANGED vars
  BY <1>7 DEF ReportBounds, ReportComplete, vars, local, reporting, history
<1> QED
  <2>1. ASSUME NEW t \in Threads, AllocateStep(t) \/ ThreadStep(t) PROVE ReportBounds'
    BY <1>3, <2>1 DEF ReportBounds
  <2> QED
    BY <1>4, <1>5, <1>6, <1>7, <2>1 DEF Next, ReportStep

LEMMA BoundsInit == Init => BoundsInv
BY MaxThreadsAssumption, ThreadsAssumption
   DEF Init, BoundsInv, EarnedInv, LiveInv, DueInv, SumInv, ReportBounds, Counting

\* The report, made while other threads run, start and end, counts all that was recorded
\* before it began by the threads that kept their slots, and nothing that nobody recorded.
THEOREM ReportBounded == ASSUME LateHooks = {} PROVE Spec => []ReportBounds
<1>1. WorkInv /\ OnceInv /\ BoundsInv /\ [Next]_vars => BoundsInv'
  <2> SUFFICES ASSUME WorkInv, OnceInv, BoundsInv, [Next]_vars PROVE BoundsInv'
    OBVIOUS
  <2>1. EarnedInv /\ LiveInv /\ DueInv /\ SumInv /\ ReportBounds
    BY DEF BoundsInv
  <2>2. EarnedInv' /\ LiveInv'
    BY <2>1, EarnedStep, LiveStep
  <2>3. DueInv' /\ SumInv' /\ ReportBounds'
    BY <2>1, DueStep, SumStep, BoundsStep
  <2> QED
    BY <2>2, <2>3 DEF BoundsInv
<1>2. WorkInv => TypeOK
  BY DEF WorkInv, SafeInv
<1>3. BoundsInv => ReportBounds
  BY DEF BoundsInv
<1>4. Spec => []WorkInv
  BY WorkInvariant
<1> QED
  BY <1>1, <1>2, <1>3, <1>4, OnceInit, OnceStep, BoundsInit, PTL DEF Spec

-----------------------------------------------------------------------------
(* The registry implements the pool of accounts                            *)

\* A slot is being reset by a thread that holds it, hence by no other.
Resetting(s) == \E t \in Threads : pc[t] = "reset" /\ slot[t] = s

LEMMA PoolInit == Init => Pool!Init
<1> SUFFICES ASSUME Init PROVE Pool!Init
  OBVIOUS
<1>1. \A t \in Threads, s \in Slots : ~ Keeps(t, s) /\ pc[t] # "reset"
  BY DEF Init, Keeps, Slots, None
<1>2. Owner = [s \in Slots |-> {}]
  BY <1>1 DEF Owner
<1>3. Balance = [s \in Slots |-> 0]
  BY <1>1 DEF Balance, Init
<1> QED
  BY <1>2, <1>3 DEF Pool!Init

\* Owners and balances stay when nobody's holding and no statistic changes.
LEMMA SameOwner == HoldsUnchanged => Owner' = Owner
BY DEF HoldsUnchanged, Owner

LEMMA SameBalance ==
    ASSUME TypeOK,
           \A s \in Slots : IF Resetting(s)' THEN Resetting(s) \/ cycles[s] = 0
                            ELSE IF Resetting(s) THEN cycles'[s] = 0
                            ELSE cycles'[s] = cycles[s]
    PROVE  Balance' = Balance
<1>1. Balance = [s \in Slots |-> IF Resetting(s) THEN 0 ELSE cycles[s]]
  BY DEF Balance, Resetting
<1>2. Balance' = [s \in Slots |-> IF Resetting(s)' THEN 0 ELSE cycles'[s]]
  BY DEF Balance, Resetting
<1> QED
  BY <1>1, <1>2

\* The owner and the balance of one slot.
LEMMA OwnerOf ==
    ASSUME SafeInv, NEW t \in Threads, NEW s \in Slots, Keeps(t, s)
    PROVE  Owner[s] = {t}
BY DEF SafeInv, SlotExclusive, Owner

\* A charge is a deposit to the slot of the thread that charges.
LEMMA ChargeDeposits ==
    ASSUME WorkInv, NEW t \in Threads, NEW units \in Nat, Charge(t, units),
           THREAD_SLOT[t] # None, t \notin released, HoldsUnchanged,
           \A u \in Threads : pc'[u] = "reset" <=> pc[u] = "reset"
    PROVE  Pool!Deposit(t, THREAD_SLOT[t])
<1> USE DEF WorkInv, SafeInv
<1> DEFINE s0 == THREAD_SLOT[t]
<1>1. s0 \in Slots /\ Keeps(t, s0)
  BY DEF TypeOK, Keeps
<1>2. Owner[s0] = {t} /\ Owner' = Owner
  BY <1>1, OwnerOf, SameOwner
<1>3. /\ cycles' = [cycles EXCEPT ![s0] = @ + units]
      /\ slot' = slot
  BY DEF Charge, local
<1>4. ~ Resetting(s0)
  <2>1. ASSUME NEW u \in Threads, pc[u] = "reset", slot[u] = s0 PROVE FALSE
    <3>1. Keeps(u, s0)
      BY <2>1 DEF Keeps
    <3>2. u = t
      BY <1>1, <3>1 DEF SlotExclusive
    <3> QED
      BY <2>1, <3>2 DEF LocalInv, Allocating
  <2> QED
    BY <2>1 DEF Resetting
<1>5. \A s \in Slots : Resetting(s)' <=> Resetting(s)
  BY <1>3 DEF Resetting
<1>6. Balance = [s \in Slots |-> IF Resetting(s) THEN 0 ELSE cycles[s]]
  BY DEF Balance, Resetting
<1>7. Balance' = [s \in Slots |-> IF Resetting(s) THEN 0 ELSE cycles'[s]]
  BY <1>5 DEF Balance, Resetting
<1>8. Balance' = [Balance EXCEPT ![s0] = cycles[s0] + units]
  BY <1>1, <1>3, <1>4, <1>6, <1>7 DEF TypeOK
<1>9. Balance[s0] = cycles[s0] /\ cycles[s0] \in Nat
  BY <1>1, <1>4, <1>6 DEF TypeOK
<1>10. Balance'[s0] = cycles[s0] + units
  BY <1>1, <1>6, <1>8
<1>11. Balance'[s0] >= Balance[s0]
  BY <1>9, <1>10
<1>12. Balance' = [Balance EXCEPT ![s0] = Balance'[s0]]
  BY <1>8, <1>10
<1> QED
  BY <1>2, <1>11, <1>12 DEF Pool!Deposit

\* A thread that gains a slot with nothing in it acquires an account.
LEMMA GainAcquires ==
    ASSUME WorkInv, NEW t \in Threads, NEW s0 \in Slots, HoldsGained(t, s0),
           THREAD_SLOT[t] = None, ~ Acquired(t),
           \A u \in Threads : ~ Keeps(u, s0),
           cycles' = cycles, \A s \in Slots : s # s0 => (Resetting(s)' <=> Resetting(s)),
           Resetting(s0)' \/ cycles[s0] = 0
    PROVE  Pool!Acquire(t, s0)
<1> USE DEF WorkInv, SafeInv
<1>1. Owner[s0] = {}
  BY DEF Owner
<1>2. \A s \in Slots : t \notin Owner[s]
  BY DEF Owner, Keeps, Acquired, None, Slots
<1>3. Owner' = [Owner EXCEPT ![s0] = {t}]
  BY DEF Owner, HoldsGained
<1>4. Balance = [s \in Slots |-> IF Resetting(s) THEN 0 ELSE cycles[s]]
  BY DEF Balance, Resetting
<1>5. Balance' = [s \in Slots |-> IF Resetting(s)' THEN 0 ELSE cycles'[s]]
  BY DEF Balance, Resetting
<1>6. Balance' = [Balance EXCEPT ![s0] = 0]
  BY <1>4, <1>5
<1> QED
  BY <1>1, <1>2, <1>3, <1>6 DEF Pool!Acquire

\* Every step of the registry is a step of the pool, or none.
LEMMA PoolStep ==
    ASSUME LateHooks = {}, WorkInv, [Next]_vars
    PROVE  [Pool!Next]_(Pool!vars)
<1> USE DEF WorkInv, SafeInv
<1> DEFINE Stutter == Owner' = Owner /\ Balance' = Balance
<1>0. Stutter => UNCHANGED Pool!vars
  BY DEF Pool!vars
<1>1. CASE Idle
  <2>1. Inert
    BY <1>1, IdleInert
  <2>2. HoldsUnchanged
    BY <1>1, QuietHolds DEF Idle, Quiet
  <2>3. \A s \in Slots : Resetting(s)' => Resetting(s)
    BY <2>1 DEF Inert, Resetting, Acquired
  <2>4. \A s \in Slots : Resetting(s) => Resetting(s)'
    <3>1. ASSUME NEW s \in Slots, NEW t \in Threads, pc[t] = "reset", slot[t] = s
          PROVE  Resetting(s)'
      <4>1. Keeps(t, s)'
        BY <2>2, <3>1 DEF HoldsUnchanged, Keeps
      <4>2. THREAD_SLOT'[t] = None
        BY <2>1, <3>1 DEF Inert, LocalInv, Allocating
      <4>3. Acquired(t)'
        BY <4>1, <4>2 DEF Keeps, Acquired, Slots, None
      <4> QED
        BY <2>1, <3>1, <4>3 DEF Inert, Resetting
    <3> QED
      BY <3>1 DEF Resetting
  <2>5. Stutter
    BY <2>1, <2>2, <2>3, <2>4, SameOwner, SameBalance DEF Inert
  <2> QED
    BY <1>0, <2>5
<1>2. ASSUME NEW t \in Threads, ClaimWon(t) PROVE Pool!Next
  <2>1. /\ slot[t] \in Slots
        /\ \A u \in Threads : ~ Keeps(u, slot[t])
        /\ HoldsGained(t, slot[t])
    BY <1>2, ClaimWonHolds
  <2>2. /\ UNCHANGED <<cycles, slot>>
        /\ pc' = [pc EXCEPT ![t] = "reset"]
        /\ pc[t] = "claim"
    BY <1>2 DEF ClaimWon, GoTo, At, local
  <2>3. THREAD_SLOT[t] = None /\ ~ Acquired(t)
    BY <2>2 DEF LocalInv, Allocating, Acquired
  <2>4. Resetting(slot[t])' /\ \A s \in Slots : s # slot[t] => (Resetting(s)' <=> Resetting(s))
    BY <2>2 DEF Resetting, TypeOK
  <2>5. Pool!Acquire(t, slot[t])
    BY <2>1, <2>2, <2>3, <2>4, GainAcquires
  <2> QED
    BY <2>1, <2>5 DEF Pool!Next
<1>3. ASSUME NEW t \in Threads, GrowRegistry(t), ~ (next_slot >= MaxThreads)
      PROVE  Pool!Next
  <2>1. /\ next_slot \in Slots
        /\ \A u \in Threads : ~ Keeps(u, next_slot)
        /\ HoldsGained(t, next_slot)
        /\ pc' = [pc EXCEPT ![t] = "activate"]
        /\ slot' = [slot EXCEPT ![t] = next_slot]
    BY <1>3, GrowHolds
  <2>2. cycles' = cycles /\ pc[t] = "grow"
    BY <1>3 DEF GrowRegistry, At
  <2>3. THREAD_SLOT[t] = None /\ ~ Acquired(t)
    BY <2>2 DEF LocalInv, Allocating, Acquired
  <2>4. \A s \in Slots : Resetting(s)' <=> Resetting(s)
    BY <2>1, <2>2 DEF Resetting, TypeOK
  <2>5. cycles[next_slot] = 0
    BY <2>1 DEF TenantInv, TypeOK
  <2>6. Pool!Acquire(t, next_slot)
    BY <2>1, <2>2, <2>3, <2>4, <2>5, GainAcquires
  <2> QED
    BY <2>1, <2>6 DEF Pool!Next
<1>4. ASSUME NEW t \in Threads,
             ResetSlot(t) \/ UndoGrow(t) \/ Activate(t)
               \/ (next_slot >= MaxThreads /\ GrowRegistry(t))
      PROVE  Stutter
  <2>1. Owner' = Owner
    BY <1>4, QuietHolds, SameOwner DEF Quiet
  <2>2. CASE ResetSlot(t)
    <3>1. /\ slot' = slot
          /\ cycles' = [cycles EXCEPT ![slot[t]] = 0]
          /\ pc' = [pc EXCEPT ![t] = "activate"]
          /\ pc[t] = "reset"
      BY <2>2 DEF ResetSlot, GoTo, At, local
    <3>2. \A s \in Slots : Resetting(s)' => Resetting(s)
      BY <3>1 DEF Resetting, TypeOK
    <3>3. \A s \in Slots : Resetting(s) /\ ~ Resetting(s)' => s = slot[t]
      BY <3>1 DEF Resetting, TypeOK
    <3>4. \A s \in Slots : ~ Resetting(s) => s # slot[t]
      BY <3>1 DEF Resetting
    <3> QED
      BY <2>1, <3>1, <3>2, <3>3, <3>4, SameBalance DEF TypeOK
  <2>3. CASE ~ ResetSlot(t)
    <3>1. /\ cycles' = cycles
          /\ \A u \in Threads : pc'[u] = "reset" <=> pc[u] = "reset"
          /\ \A u \in Threads : pc[u] = "reset" => slot'[u] = slot[u]
      <4>1. CASE UndoGrow(t)
        BY <4>1 DEF UndoGrow, At, GoTo, local, TypeOK
      <4>2. CASE Activate(t)
        BY <4>2 DEF Activate, At, GoTo, TypeOK
      <4>3. CASE next_slot >= MaxThreads /\ GrowRegistry(t)
        BY <4>3, MaxThreadsAssumption DEF GrowRegistry, At, GoTo, TypeOK
      <4> QED
        BY <1>4, <2>3, <4>1, <4>2, <4>3
    <3>2. \A s \in Slots : Resetting(s)' <=> Resetting(s)
      BY <3>1 DEF Resetting
    <3> QED
      BY <2>1, <3>1, <3>2, SameBalance
  <2> QED
    BY <2>2, <2>3
<1>5. ASSUME NEW t \in Threads, Record(t) PROVE Pool!Next
  <2>1. pc[t] = "run" /\ pc' = pc /\ THREAD_SLOT[t] # None /\ Charge(t, 1)
    BY <1>5 DEF Record, CallsHooks, At
  <2>2. t \notin released
    BY <2>1 DEF LocalInv
  <2>3. HoldsUnchanged
    BY <1>5, QuietHolds DEF Quiet
  <2>4. Pool!Deposit(t, THREAD_SLOT[t])
    BY <2>1, <2>2, <2>3, ChargeDeposits
  <2> QED
    BY <2>1, <2>4 DEF Pool!Next, TypeOK
<1>6. ASSUME NEW t \in Threads, FinalCharge(t) PROVE Pool!Next
  <2>1. PICK units \in 0 .. 1 : Charge(t, units)
    BY <1>6 DEF FinalCharge
  <2>2. pc[t] = "cleanup" /\ pc' = [pc EXCEPT ![t] = "mark"]
    BY <1>6 DEF FinalCharge, At, GoTo
  <2>3. t \notin released /\ THREAD_SLOT[t] # None
    BY <2>2 DEF LocalInv
  <2>4. HoldsUnchanged
    BY <1>6, QuietHolds DEF Quiet
  <2>5. \A u \in Threads : pc'[u] = "reset" <=> pc[u] = "reset"
    BY <2>2 DEF TypeOK
  <2>6. Pool!Deposit(t, THREAD_SLOT[t])
    BY <2>1, <2>3, <2>4, <2>5, ChargeDeposits
  <2> QED
    BY <2>3, <2>6 DEF Pool!Next, TypeOK
<1>7. ASSUME NEW t \in Threads, MarkTerminated(t) PROVE Pool!Next
  <2>1. /\ THREAD_SLOT[t] \in Slots
        /\ Keeps(t, THREAD_SLOT[t])
        /\ HoldsLost(t, THREAD_SLOT[t])
    BY <1>7, MarkHolds
  <2>2. /\ UNCHANGED <<cycles, slot>>
        /\ pc' = [pc EXCEPT ![t] = "dtors"]
        /\ pc[t] = "mark"
    BY <1>7 DEF MarkTerminated, GoTo, At, local
  <2>3. Owner[THREAD_SLOT[t]] = {t}
    BY <2>1, OwnerOf
  <2>4. Owner' = [Owner EXCEPT ![THREAD_SLOT[t]] = {}]
    <3>1. \A s \in Slots : {u \in Threads : Keeps(u, s)'}
            = IF s = THREAD_SLOT[t] THEN {} ELSE {u \in Threads : Keeps(u, s)}
      BY <2>1 DEF HoldsLost, SlotExclusive
    <3> QED
      BY <2>1, <3>1 DEF Owner
  <2>5. Balance' = Balance
    <3>1. \A s \in Slots : Resetting(s)' <=> Resetting(s)
      BY <2>2 DEF Resetting, TypeOK
    <3> QED
      BY <2>2, <3>1, SameBalance
  <2>6. Pool!Release(t, THREAD_SLOT[t])
    BY <2>3, <2>4, <2>5 DEF Pool!Release
  <2> QED
    BY <2>1, <2>6 DEF Pool!Next
<1> QED
  BY <1>0, <1>1, <1>2, <1>3, <1>4, <1>5, <1>6, <1>7, IdleOrNot

\* The registry, driven by any interleaving of threads, is a pool of accounts.
THEOREM RegistryImplementsPool ==
    ASSUME LateHooks = {} PROVE Spec => ImplementsSlotPool
<1>1. WorkInv /\ [Next]_vars => [Pool!Next]_(Pool!vars)
  BY PoolStep
<1> QED
  BY PoolInit, <1>1, WorkInvariant, PTL DEF Spec, ImplementsSlotPool, Pool!Spec
=============================================================================
