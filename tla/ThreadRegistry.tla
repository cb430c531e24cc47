--------------------------- MODULE ThreadRegistry ---------------------------
(***************************************************************************)
(* The slot registry of the CPU cycle counter                              *)
(* (unsafe_perf_source/src/cpu_cycle_counter.rs): every thread of the      *)
(* instrumented program claims a slot of a fixed table when it starts,     *)
(* accumulates its cycles there, marks the slot Terminated when its start  *)
(* routine returns, and a later thread may claim the slot again.  At       *)
(* program exit the main thread adds up the table while other threads may  *)
(* still be running.                                                       *)
(*                                                                         *)
(* One action is one access to the shared table or to next_slot.  What a   *)
(* thread does to its own thread-local data is folded into the access it   *)
(* follows.  The nine statistics of a slot are nine independent atomics    *)
(* handled alike; cycles[s] stands for any one of them.                    *)
(***************************************************************************)
EXTENDS Integers, FiniteSets, Functions

CONSTANTS
    Threads,     \* the threads of the program
    Main,        \* the one that runs main() and, at exit, the destructors
    MaxThreads,  \* MAX_THREADS, the size of the table
    MaxWork,     \* bound: units of work a thread records through its hooks
    LateHooks    \* threads whose thread-local destructors are instrumented

ASSUME ThreadsAssumption == Main \in Threads /\ IsFiniteSet(Threads)
ASSUME MaxThreadsAssumption == MaxThreads \in Nat \ {0}
ASSUME MaxWorkAssumption == MaxWork \in Nat
ASSUME LateHooksAssumption == LateHooks \subseteq Threads \ {Main}

VARIABLES
    state,         \* per slot: ThreadStats.state
    cycles,        \* per slot: a statistic of ThreadStats
    next_slot,     \* ThreadRegistry.next_slot
    stats_written, \* ThreadRegistry.stats_written
    pc,            \* where each thread is
    back,          \* where initialize_thread returns to
    THREAD_SLOT,   \* the thread-local slot number
    bound,         \* local: end of the loop over the slots
    slot,          \* local: the slot the thread is looking at
    report,        \* running total of calculate_total_stats
    reports,       \* number of reports written
    done,          \* history: units each thread has recorded
    released,      \* history: threads that have marked their slot Terminated
    evicted,       \* history: threads whose slot has been claimed again
    due            \* history: done, when the report began

shared == <<state, cycles, next_slot, stats_written>>
local == <<back, THREAD_SLOT, bound, slot>>
reporting == <<report, reports, due>>
history == <<done, released, evicted>>
vars == <<shared, pc, local, reporting, history>>

Slots == 0 .. MaxThreads - 1
None == -1
States == {"Uninitialized", "Active", "Terminated"}

Allocating == {"init", "scan", "claim", "reset", "grow", "undo", "activate"}
Reporting == {"exit", "dump", "sum", "add"}
Locations == Allocating \cup Reporting
               \cup {"idle", "run", "cleanup", "mark", "dtors", "gone", "exited"}

Lesser(a, b) == IF a < b THEN a ELSE b

Init ==
    /\ state = [s \in Slots |-> "Uninitialized"]
    /\ cycles = [s \in Slots |-> 0]
    /\ next_slot = 0
    /\ stats_written = FALSE
    /\ pc = [t \in Threads |-> IF t = Main THEN "init" ELSE "idle"]
    /\ back = [t \in Threads |-> "run"]
    /\ THREAD_SLOT = [t \in Threads |-> None]
    /\ bound = [t \in Threads |-> 0]
    /\ slot = [t \in Threads |-> 0]
    /\ report = 0
    /\ reports = 0
    /\ due = [t \in Threads |-> 0]
    /\ done = [t \in Threads |-> 0]
    /\ released = {}
    /\ evicted = {}

\* Every step of a thread needs the process: it ends with the main thread.
At(t, location) == pc[t] = location /\ pc[Main] # "exited"
GoTo(t, location) == pc' = [pc EXCEPT ![t] = location]

-----------------------------------------------------------------------------
(* Starting a thread and allocate_slot                                     *)

\* A running thread calls pthread_create; the new one starts in
\* thread_start_wrapper, which initializes it.
Spawn(t) ==
    /\ At(t, "idle")
    /\ \E parent \in Threads : pc[parent] = "run"
    /\ GoTo(t, "init")
    /\ UNCHANGED <<shared, local, reporting, history>>

LoadBound(t) ==
    /\ At(t, "init")
    /\ bound' = [bound EXCEPT ![t] = Lesser(next_slot, MaxThreads)]
    /\ slot' = [slot EXCEPT ![t] = 0]
    /\ GoTo(t, "scan")
    /\ UNCHANGED <<shared, back, THREAD_SLOT, reporting, history>>

\* Mutant: the scan waits for a slot that is in use instead of passing it.
ScanSlotWaits(t) ==
    /\ At(t, "scan")
    /\ slot[t] < bound[t]
    /\ state[slot[t]] = "Terminated"
    /\ GoTo(t, "claim")
    /\ UNCHANGED <<shared, local, reporting, history>>

ScanSlot(t) ==
    /\ At(t, "scan")
    /\ slot[t] < bound[t]
    /\ IF state[slot[t]] = "Terminated"
       THEN GoTo(t, "claim") /\ UNCHANGED slot
       ELSE slot' = [slot EXCEPT ![t] = @ + 1] /\ UNCHANGED pc
    /\ UNCHANGED <<shared, back, THREAD_SLOT, bound, reporting, history>>

ScanExhausted(t) ==
    /\ At(t, "scan")
    /\ slot[t] >= bound[t]
    /\ GoTo(t, "grow")
    /\ UNCHANGED <<shared, local, reporting, history>>

\* Mutant: the claim is a plain store, the state is not compared again.
ClaimUnchecked(t) ==
    /\ At(t, "claim")
    /\ state' = [state EXCEPT ![slot[t]] = "Uninitialized"]
    /\ evicted' = evicted \cup {u \in Threads : THREAD_SLOT[u] = slot[t]}
    /\ GoTo(t, "reset")
    /\ UNCHANGED <<cycles, next_slot, stats_written, local, reporting, done, released>>

\* The compare-exchange Terminated -> Uninitialized.
ClaimWon(t) ==
    /\ At(t, "claim")
    /\ state[slot[t]] = "Terminated"
    /\ state' = [state EXCEPT ![slot[t]] = "Uninitialized"]
    /\ evicted' = evicted \cup {u \in Threads : THREAD_SLOT[u] = slot[t]}
    /\ GoTo(t, "reset")
    /\ UNCHANGED <<cycles, next_slot, stats_written, local, reporting, done, released>>

ClaimLost(t) ==
    /\ At(t, "claim")
    /\ state[slot[t]] # "Terminated"
    /\ slot' = [slot EXCEPT ![t] = @ + 1]
    /\ GoTo(t, "scan")
    /\ UNCHANGED <<shared, back, THREAD_SLOT, bound, reporting, history>>

\* Mutant: one of the nine counters is forgotten.
ResetForgotten(t) ==
    /\ At(t, "reset")
    /\ GoTo(t, "activate")
    /\ UNCHANGED <<shared, local, reporting, history>>

ResetSlot(t) ==
    /\ At(t, "reset")
    /\ cycles' = [cycles EXCEPT ![slot[t]] = 0]
    /\ GoTo(t, "activate")
    /\ UNCHANGED <<state, next_slot, stats_written, local, reporting, history>>

\* Mutant: off by one in the test for a full table.
GrowPastEnd(t) ==
    /\ At(t, "grow")
    /\ next_slot' = next_slot + 1
    /\ IF next_slot <= MaxThreads
       THEN slot' = [slot EXCEPT ![t] = next_slot] /\ GoTo(t, "activate")
       ELSE GoTo(t, "undo") /\ UNCHANGED slot
    /\ UNCHANGED <<state, cycles, stats_written, back, THREAD_SLOT, bound,
                   reporting, history>>

\* fetch_add on next_slot.
GrowRegistry(t) ==
    /\ At(t, "grow")
    /\ next_slot' = next_slot + 1
    /\ IF next_slot < MaxThreads
       THEN slot' = [slot EXCEPT ![t] = next_slot] /\ GoTo(t, "activate")
       ELSE GoTo(t, "undo") /\ UNCHANGED slot
    /\ UNCHANGED <<state, cycles, stats_written, back, THREAD_SLOT, bound,
                   reporting, history>>

\* Mutant: the failed fetch_add is not undone.
UndoForgotten(t) ==
    /\ At(t, "undo")
    /\ GoTo(t, back[t])
    /\ UNCHANGED <<shared, local, reporting, history>>

\* fetch_sub: the table is full, the thread goes on without a slot.
UndoGrow(t) ==
    /\ At(t, "undo")
    /\ next_slot' = next_slot - 1
    /\ GoTo(t, back[t])
    /\ UNCHANGED <<state, cycles, stats_written, local, reporting, history>>

\* The end of initialize_thread: the slot becomes Active and the thread's own.
Activate(t) ==
    /\ At(t, "activate")
    /\ state' = [state EXCEPT ![slot[t]] = "Active"]
    /\ THREAD_SLOT' = [THREAD_SLOT EXCEPT ![t] = slot[t]]
    /\ GoTo(t, back[t])
    /\ UNCHANGED <<cycles, next_slot, stats_written, back, bound, slot, reporting, history>>
-----------------------------------------------------------------------------
(* Running, thread_cleanup and the thread-local destructors after it       *)

\* Where instrumented code of the thread can call a hook.
CallsHooks(t) == At(t, "run") \/ (At(t, "dtors") /\ t \in LateHooks)

Charge(t, units) ==
    /\ cycles' = [cycles EXCEPT ![THREAD_SLOT[t]] = @ + units]
    /\ done' = [done EXCEPT ![t] = @ + units]
    /\ UNCHANGED <<state, next_slot, stats_written, local, reporting, released, evicted>>

\* A hook of a thread that has a slot adds to its statistics.
Record(t) ==
    /\ CallsHooks(t)
    /\ THREAD_SLOT[t] # None
    /\ done[t] < MaxWork
    /\ Charge(t, 1)
    /\ UNCHANGED pc

\* Mutant: initialize_thread does not look at THREAD_SLOT first.
ReInit(t) ==
    /\ CallsHooks(t)
    /\ back' = [back EXCEPT ![t] = pc[t]]
    /\ GoTo(t, "init")
    /\ UNCHANGED <<shared, THREAD_SLOT, bound, slot, reporting, history>>

\* A hook of a thread that has none tries to get one: or_else(initialize_thread).
RetryInit(t) ==
    /\ CallsHooks(t)
    /\ THREAD_SLOT[t] = None
    /\ back' = [back EXCEPT ![t] = pc[t]]
    /\ GoTo(t, "init")
    /\ UNCHANGED <<shared, THREAD_SLOT, bound, slot, reporting, history>>

\* The start routine returns to thread_start_wrapper.
Return(t) ==
    /\ At(t, "run")
    /\ t # Main
    /\ GoTo(t, IF THREAD_SLOT[t] = None THEN "dtors" ELSE "cleanup")
    /\ UNCHANGED <<shared, local, reporting, history>>

\* thread_cleanup charges the frame that was open; it may be empty.
FinalCharge(t) ==
    /\ At(t, "cleanup")
    /\ \E units \in 0 .. 1 : Charge(t, units)
    /\ GoTo(t, "mark")

\* Mutant: the slot goes back to Uninitialized, which no scan looks for.
MarkUninitialized(t) ==
    /\ At(t, "mark")
    /\ state' = [state EXCEPT ![THREAD_SLOT[t]] = "Uninitialized"]
    /\ released' = released \cup {t}
    /\ GoTo(t, "dtors")
    /\ UNCHANGED <<cycles, next_slot, stats_written, local, reporting, done, evicted>>

MarkTerminated(t) ==
    /\ At(t, "mark")
    /\ state' = [state EXCEPT ![THREAD_SLOT[t]] = "Terminated"]
    /\ released' = released \cup {t}
    /\ GoTo(t, "dtors")
    /\ UNCHANGED <<cycles, next_slot, stats_written, local, reporting, done, evicted>>

Die(t) ==
    /\ At(t, "dtors")
    /\ GoTo(t, "gone")
    /\ UNCHANGED <<shared, local, reporting, history>>
-----------------------------------------------------------------------------
(* The report at program exit, made by the main thread                     *)

Exit ==
    /\ At(Main, "run")
    /\ GoTo(Main, "exit")
    /\ UNCHANGED <<shared, local, reporting, history>>

\* Mutant: the flag is tested and not set.
PrintStatsUnflagged ==
    /\ At(Main, "exit")
    /\ ~stats_written
    /\ GoTo(Main, "dump")
    /\ UNCHANGED <<shared, local, reporting, history>>

\* print_cpu_cycle_stats, called by the destructors of the program.
PrintStats ==
    /\ At(Main, "exit")
    /\ ~stats_written
    /\ stats_written' = TRUE
    /\ GoTo(Main, "dump")
    /\ UNCHANGED <<state, cycles, next_slot, local, reporting, history>>

\* Mutant: the compare-exchange is retried until it succeeds.
PrintStatsRetries ==
    /\ At(Main, "exit")
    /\ stats_written
    /\ UNCHANGED vars

PrintStatsAgain ==
    /\ At(Main, "exit")
    /\ stats_written
    /\ GoTo(Main, "exited")
    /\ UNCHANGED <<shared, local, reporting, history>>

\* calculate_total_stats
DumpBound ==
    /\ At(Main, "dump")
    /\ bound' = [bound EXCEPT ![Main] = Lesser(next_slot, MaxThreads)]
    /\ slot' = [slot EXCEPT ![Main] = 0]
    /\ report' = 0
    /\ due' = done
    /\ GoTo(Main, "sum")
    /\ UNCHANGED <<shared, back, THREAD_SLOT, reports, history>>

\* Mutant: only the threads that are still running are counted.
DumpActiveOnly ==
    /\ At(Main, "sum")
    /\ slot[Main] < bound[Main]
    /\ IF state[slot[Main]] # "Active"
       THEN slot' = [slot EXCEPT ![Main] = @ + 1] /\ UNCHANGED pc
       ELSE GoTo(Main, "add") /\ UNCHANGED slot
    /\ UNCHANGED <<shared, back, THREAD_SLOT, bound, reporting, history>>

DumpSlot ==
    /\ At(Main, "sum")
    /\ slot[Main] < bound[Main]
    /\ IF state[slot[Main]] = "Uninitialized"
       THEN slot' = [slot EXCEPT ![Main] = @ + 1] /\ UNCHANGED pc
       ELSE GoTo(Main, "add") /\ UNCHANGED slot
    /\ UNCHANGED <<shared, back, THREAD_SLOT, bound, reporting, history>>

DumpCounters ==
    /\ At(Main, "add")
    /\ report' = report + cycles[slot[Main]]
    /\ slot' = [slot EXCEPT ![Main] = @ + 1]
    /\ GoTo(Main, "sum")
    /\ UNCHANGED <<shared, back, THREAD_SLOT, bound, reports, due, history>>

WriteReport ==
    /\ At(Main, "sum")
    /\ slot[Main] >= bound[Main]
    /\ reports' = reports + 1
    /\ GoTo(Main, "exit")
    /\ UNCHANGED <<shared, local, report, due, history>>
-----------------------------------------------------------------------------
AllocateStep(t) ==
    \/ LoadBound(t) \/ ScanSlot(t) \/ ScanExhausted(t)
    \/ ClaimWon(t) \/ ClaimLost(t) \/ ResetSlot(t)
    \/ GrowRegistry(t) \/ UndoGrow(t) \/ Activate(t)

ThreadStep(t) ==
    \/ Spawn(t) \/ Record(t) \/ RetryInit(t) \/ Return(t)
    \/ FinalCharge(t) \/ MarkTerminated(t) \/ Die(t)

ReportStep ==
    \/ PrintStats \/ PrintStatsAgain
    \/ DumpBound \/ DumpSlot \/ DumpCounters \/ WriteReport

\* The process is gone.
Ended == pc[Main] = "exited" /\ UNCHANGED vars

Next ==
    \/ \E t \in Threads : AllocateStep(t) \/ ThreadStep(t)
    \/ Exit
    \/ ReportStep
    \/ Ended

\* The scheduler runs every runnable thread: a thread inside allocate_slot,
\* and the main thread in its exit path, is never stopped for ever.  Nothing
\* forces the program to call hooks, to return or to exit.
Fairness ==
    /\ \A t \in Threads : WF_vars(AllocateStep(t))
    /\ WF_vars(ReportStep)

Spec == Init /\ [][Next]_vars
FairSpec == Spec /\ Fairness
-----------------------------------------------------------------------------
(* Properties                                                              *)

\* The values of the shared atomics, of each thread's locals and of the history.
TypeOK ==
    /\ state \in [Slots -> States]
    /\ cycles \in [Slots -> Nat]
    /\ next_slot \in Nat
    /\ stats_written \in BOOLEAN
    /\ pc \in [Threads -> Locations]
    /\ back \in [Threads -> {"run", "dtors"}]
    /\ THREAD_SLOT \in [Threads -> Slots \cup {None}]
    /\ bound \in [Threads -> 0 .. MaxThreads]
    /\ slot \in [Threads -> 0 .. MaxThreads]
    /\ report \in Nat
    /\ reports \in Nat
    /\ due \in [Threads -> Nat]
    /\ done \in [Threads -> Nat]
    /\ released \subseteq Threads
    /\ evicted \subseteq Threads

\* Thread t has been given slot s and has not given it back: it has claimed it and
\* not yet activated it, or it is its THREAD_SLOT and t has not marked it Terminated.
Keeps(t, s) ==
    \/ pc[t] \in {"reset", "activate"} /\ slot[t] = s
    \/ THREAD_SLOT[t] = s /\ t \notin released

\* Two threads never have the same slot, whatever the interleaving of their
\* scans, compare-exchanges and fetch_adds (allocate_slot): otherwise they
\* would reset and charge each other's statistics.
SlotExclusive ==
    \A s \in Slots : \A t, u \in Threads : Keeps(t, s) /\ Keeps(u, s) => t = u

\* A thread that is still there owns slot s.
Holds(t, s) == pc[t] # "gone" /\ Keeps(t, s)

\* Thread t has died with slot s.  It had none when thread_cleanup looked for one
\* to release; a hook of its thread-local destructors got it afterwards.
LostBy(t, s) == pc[t] = "gone" /\ THREAD_SLOT[t] = s /\ back[t] = "dtors"

\* A slot that has been handed out is owned by a living thread, or it is Terminated
\* and a later scan can claim it; the one way to lose it is a hook in a thread-local
\* destructor of a thread that had none.  One that has not is untouched.
SlotsAccounted ==
    \A s \in Slots :
      IF s < next_slot
      THEN state[s] = "Terminated" <=> ~ \E t \in Threads : Holds(t, s) \/ LostBy(t, s)
      ELSE state[s] = "Uninitialized" /\ ~ \E t \in Threads : Keeps(t, s)

Undoing == {t \in Threads : pc[t] = "undo"}

\* next_slot is past the end of the table by the fetch_adds not yet undone.
ExcessUndone ==
    IF Undoing = {} THEN next_slot <= MaxThreads
                    ELSE next_slot = MaxThreads + Cardinality(Undoing)

\* Through any number of starts, exits and refused allocations no slot is lost in
\* any other way (allocate_slot, thread_cleanup).
SlotAccounting == SlotsAccounted /\ ExcessUndone

\* Until a slot is claimed again it holds exactly what its thread recorded:
\* nothing of an earlier owner survives the reset, and nobody else adds to it.
\* (For programs whose thread-local destructors are not instrumented.)
OwnWorkOnly ==
    \A t \in Threads :
      THREAD_SLOT[t] # None /\ t \notin evicted => cycles[THREAD_SLOT[t]] = done[t]

ReportComplete == reports > 0

\* What calculate_total_stats, running against the other threads, promises: it
\* counts all that was recorded before it began by the threads whose slots are
\* not claimed again before it ends, and it counts nothing that nobody recorded.
ReportBounds ==
    pc[Main] = "exit" /\ ReportComplete =>
      /\ SumFunctionOnSet(due, Threads \ evicted) <= report
      /\ report <= SumFunctionOnSet(done, Threads)

\* print_cpu_cycle_stats may be called by several destructors; one report is
\* written, and it has been written when the process is gone.
ReportedOnce == reports <= 1 /\ (pc[Main] = "exited" => reports = 1)

\* allocate_slot ends, with or without a slot, whatever the other threads do
\* to the slots it is scanning.
AllocationEnds ==
    \A t \in Threads :
      pc[t] \in Allocating ~> (pc[t] \notin Allocating \/ pc[Main] = "exited")

\* Once the exit path is taken the report is written and the process ends.
ExitEnds == pc[Main] = "exit" ~> pc[Main] = "exited"

\* The header's promise of "accurate tracking of the entire lifecycle of every
\* thread": the report counts what every thread recorded before it began.
EveryThreadReported ==
    pc[Main] = "exit" /\ ReportComplete => SumFunctionOnSet(due, Threads) <= report

-----------------------------------------------------------------------------
(* The registry implements a pool of accounts: a slot's owner is the thread *)
(* that has it, its balance what has been charged since it was acquired.    *)

Owner == [s \in Slots |-> {t \in Threads : Keeps(t, s)}]

\* The statistics of a slot that is being reset are already void.
Balance ==
    [s \in Slots |-> IF \E t \in Threads : pc[t] = "reset" /\ slot[t] = s
                     THEN 0 ELSE cycles[s]]

Pool == INSTANCE SlotPool WITH owner <- Owner, balance <- Balance

\* Every step of the registry acquires a free slot with nothing in it, adds to
\* the slot of the thread that takes the step, releases that thread's own slot,
\* or changes neither owners nor balances.
ImplementsSlotPool == Pool!Spec
=============================================================================
