--------------------------- MODULE UnsafeCoverage ---------------------------
(***************************************************************************)
(* The tracker of executed unsafe lines                                    *)
(* (unsafe_perf_source/src/unsafe_coverage.rs) in one process.  What       *)
(* becomes of the reports is in Pipeline and CoverageReport.               *)
(*                                                                         *)
(* Module constructors, at start or when a library is loaded, register     *)
(* lines; hooks track the lines that run.  Any thread may use the          *)
(* functions for programmatic access.  The destructors of the module and   *)
(* of the library ask for the report when main exits, while other threads  *)
(* still run.                                                              *)
(*                                                                         *)
(* One action is one critical section or one access to an atomic; the      *)
(* report is formatted and written under the locks.  A module has one line.*)
(***************************************************************************)
EXTENDS Integers, FiniteSets

CONSTANTS
    Lines,          \* locations in the source, file:line
    Threads,
    Main,           \* runs the destructors
    Nobody,         \* no holder of a mutex
    MaxCalls        \* bound: calls of the functions for programmatic access

ASSUME LinesAssumption == IsFiniteSet(Lines)
ASSUME ThreadsAssumption ==
    IsFiniteSet(Threads) /\ Main \in Threads /\ Nobody \notin Threads
ASSUME BoundAssumption == MaxCalls \in Nat

VARIABLES
    registered_lines, executed_lines,
    mutex,          \* who holds the mutexes of the two
    stats_written, run_counter,
    pc,
    frame,          \* what a thread that wants or holds both mutexes is doing, what
                    \* it has read under them, and (history) the lines that had
                    \* been tracked when it began
    exits,          \* destructors that main has run
    history         \* lines whose constructor has run, lines that have been tracked;
                    \* calls, resets and prints by the program; how often reset has
                    \* cleared stats_written; reports

sets == <<registered_lines, executed_lines>>
flags == <<stats_written, run_counter>>
vars == <<sets, mutex, flags, pc, frame, exits, history>>

NoFrame == [call |-> "none", run |-> 0, registered |-> {}, executed |-> {}, due |-> {}]

Init ==
    /\ registered_lines = {} /\ executed_lines = {}
    /\ mutex = [m \in {"registered", "executed"} |-> Nobody]
    /\ stats_written = FALSE /\ run_counter = 0
    /\ pc = [t \in Threads |-> "app"]
    /\ frame = [t \in Threads |-> NoFrame]
    /\ exits = 0
    /\ history = [loaded |-> {}, tracked |-> {}, calls |-> 0, resets |-> 0, prints |-> 0,
                  clears |-> 0, reports |-> 0]

Exited == exits = 2 /\ pc[Main] = "app"

Go(t, from, to) ==
    /\ pc[t] = from
    /\ ~Exited
    /\ pc' = [pc EXCEPT ![t] = to]

\* The thread runs code of the program.
InProgram(t) == pc[t] = "app" /\ (t = Main => exits = 0)

Calls(t) == InProgram(t) /\ history.calls < MaxCalls
-----------------------------------------------------------------------------
(* The hooks, each one critical section                                    *)

register_unsafe_line(t, line) ==
    /\ InProgram(t) /\ Go(t, "app", "app")
    /\ line \notin history.loaded
    /\ mutex["registered"] = Nobody
    /\ registered_lines' = registered_lines \cup {line}
    /\ history' = [history EXCEPT !.loaded = @ \cup {line}]
    /\ UNCHANGED <<executed_lines, mutex, flags, frame, exits>>

\* The code of a line runs after the constructor of its module.
Runs(t, line) ==
    /\ InProgram(t) /\ Go(t, "app", "app")
    /\ line \in history.loaded
    /\ history' = [history EXCEPT !.tracked = @ \cup {line}]
    /\ UNCHANGED <<registered_lines, mutex, flags, frame, exits>>

\* Mutant: a line is dropped when the set is in use.
TryTrack(t, line) ==
    /\ Runs(t, line)
    /\ executed_lines' = executed_lines \cup {l \in {line} : mutex["executed"] = Nobody}

track_unsafe_line_execution(t, line) ==
    /\ Runs(t, line)
    /\ mutex["executed"] = Nobody
    /\ executed_lines' = executed_lines \cup {line}
-----------------------------------------------------------------------------
(* The functions that hold both mutexes                                    *)

get_unsafe_coverage_percentage(t) ==
    /\ Calls(t) /\ Go(t, "app", "first")
    /\ frame' = [frame EXCEPT ![t].call = "percentage"]
    /\ history' = [history EXCEPT !.calls = @ + 1]
    /\ UNCHANGED <<sets, mutex, flags, exits>>

\* write_stats up to its locks.
Swap(t) ==
    /\ IF stats_written
       THEN Go(t, "app", "app") /\ UNCHANGED frame
       ELSE /\ Go(t, "app", "first")
            /\ frame' = [frame EXCEPT ![t] = [@ EXCEPT !.call = "report", !.due = history.tracked]]
    /\ UNCHANGED <<sets, mutex, run_counter>>

\* Mutant: the flag is looked at and not set.
WriteStatsUnflagged(t) == Swap(t) /\ UNCHANGED stats_written
WriteStats(t) == Swap(t) /\ stats_written' = TRUE

print_unsafe_coverage_stats(t) ==
    /\ Calls(t) /\ WriteStats(t)
    /\ history' = [history EXCEPT !.calls = @ + 1, !.prints = @ + 1]
    /\ UNCHANGED exits

\* The destructors of the module and of the library, on the main thread.
dump_coverage_at_exit ==
    /\ exits < 2 /\ WriteStats(Main)
    /\ exits' = exits + 1
    /\ UNCHANGED history

\* The order in which a function takes the mutexes.  Mutant: the percentage
\* takes them in the other one.
LocksSwapped(call) ==
    IF call = "percentage" THEN <<"executed", "registered">> ELSE <<"registered", "executed">>
Locks(call) == <<"registered", "executed">>

ReadRegistered(t) ==
    /\ Go(t, "first", "second")
    /\ mutex[Locks(frame[t].call)[1]] = Nobody
    /\ frame' = [frame EXCEPT ![t].registered = registered_lines]
    /\ UNCHANGED <<sets, flags, exits, history>>

\* Mutant: the first mutex is released again as soon as the set has been read.
LockFirstBriefly(t) == ReadRegistered(t) /\ UNCHANGED mutex

LockFirst(t) ==
    ReadRegistered(t) /\ mutex' = [mutex EXCEPT ![Locks(frame[t].call)[1]] = t]

LockSecond(t) ==
    /\ Go(t, "second", "both")
    /\ mutex[Locks(frame[t].call)[2]] = Nobody
    /\ mutex' = [mutex EXCEPT ![Locks(frame[t].call)[2]] = t]
    /\ frame' = [frame EXCEPT ![t].executed = executed_lines]
    /\ UNCHANGED <<sets, flags, exits, history>>

Return(t, from) ==
    /\ Go(t, from, "app")
    /\ mutex' = [m \in DOMAIN mutex |-> Nobody]
    /\ frame' = [frame EXCEPT ![t] = NoFrame]
    /\ UNCHANGED <<sets, flags, exits>>

ReturnPercentage(t) ==
    frame[t].call = "percentage" /\ Return(t, "both") /\ UNCHANGED history

NumberRun(t) ==
    /\ frame[t].call = "report"
    /\ Go(t, "both", "append")
    /\ run_counter' = run_counter + 1
    /\ frame' = [frame EXCEPT ![t].run = run_counter + 1]
    /\ UNCHANGED <<sets, mutex, stats_written, exits, history>>

\* write_detailed_stats: whether or not the file can be written, the caller returns.
WriteDetailedStats(t) ==
    Return(t, "append") /\ history' = [history EXCEPT !.reports = @ + 1]
-----------------------------------------------------------------------------
(* reset                                                                   *)

ResetRegistered(t) ==
    /\ Calls(t) /\ Go(t, "app", "reset executed")
    /\ mutex["registered"] = Nobody
    /\ registered_lines' = {}
    /\ history' = [history EXCEPT !.calls = @ + 1, !.resets = @ + 1]
    /\ UNCHANGED <<executed_lines, mutex, flags, frame, exits>>

ResetExecuted(t) ==
    /\ Go(t, "reset executed", "reset flag")
    /\ mutex["executed"] = Nobody
    /\ executed_lines' = {}
    /\ UNCHANGED <<registered_lines, mutex, flags, frame, exits, history>>

ResetFlag(t) ==
    /\ Go(t, "reset flag", "reset counter")
    /\ stats_written' = FALSE
    /\ history' = [history EXCEPT !.clears = @ + 1]
    /\ UNCHANGED <<sets, mutex, run_counter, frame, exits>>

\* The value that is stored in the counter.  Mutant: the last run is taken back.
LastRun == run_counter - 1
FirstRun == 0

ResetCounter(t) ==
    /\ Go(t, "reset counter", "app")
    /\ run_counter' = FirstRun
    /\ UNCHANGED <<sets, mutex, stats_written, frame, exits, history>>

Stopped == Exited /\ UNCHANGED vars

Next ==
    \/ \E t \in Threads :
         \/ \E line \in Lines :
              register_unsafe_line(t, line) \/ track_unsafe_line_execution(t, line)
         \/ get_unsafe_coverage_percentage(t) \/ print_unsafe_coverage_stats(t)
         \/ LockFirst(t) \/ LockSecond(t) \/ ReturnPercentage(t) \/ NumberRun(t)
         \/ WriteDetailedStats(t)
         \/ ResetRegistered(t) \/ ResetExecuted(t) \/ ResetFlag(t) \/ ResetCounter(t)
    \/ dump_coverage_at_exit \/ Stopped

Spec == Init /\ [][Next]_vars
-----------------------------------------------------------------------------
(* Properties                                                              *)

Frames == [call : {"none", "percentage", "report"}, run : Nat, registered : SUBSET Lines,
           executed : SUBSET Lines, due : SUBSET Lines]
Histories == [loaded : SUBSET Lines, tracked : SUBSET Lines, calls : Nat, resets : Nat,
              prints : Nat, clears : Nat, reports : Nat]

\* The sets, the mutexes, the counter and the frames keep their types.
TypeOK ==
    /\ registered_lines \subseteq Lines /\ executed_lines \subseteq Lines
    /\ mutex \in [{"registered", "executed"} -> Threads \cup {Nobody}]
    /\ stats_written \in BOOLEAN /\ run_counter \in Nat
    /\ pc \in [Threads -> {"app", "first", "second", "both", "append",
                           "reset executed", "reset flag", "reset counter"}]
    /\ frame \in [Threads -> Frames]
    /\ exits \in 0 .. 2
    /\ history \in Histories

HasRead(t) == pc[t] \in {"both", "append"}

\* "percentage >= 0.0 && percentage <= 100.0": as long as nobody has called reset,
\* no report and no percentage counts more executed than registered lines, also
\* while libraries are loaded.
CoverageWithin100 ==
    \A t \in Threads : history.resets = 0 /\ HasRead(t) =>
      Cardinality(frame[t].executed) <= Cardinality(frame[t].registered)

\* No two threads, and no thread by itself, wait for a mutex that the other holds.
NoCircularWait ==
    LET Waits(t, u) == \/ pc[t] = "first" /\ mutex[Locks(frame[t].call)[1]] = u
                       \/ pc[t] = "second" /\ mutex[Locks(frame[t].call)[2]] = u
    IN  \A t, u \in Threads : ~(Waits(t, u) /\ Waits(u, t))

\* "Flag to ensure stats are written only once": once for every time that the
\* flag has been cleared, and exactly once, by main, if nobody else has asked.
ReportedOnce ==
    /\ history.reports <= 1 + history.clears
    /\ Exited /\ history.resets = 0 /\ history.prints = 0 => history.reports = 1

\* A report has the lines that had been tracked before it was asked for, and none
\* that has not been: a hook that meets the report waits for it.
ReportComplete ==
    \A t \in Threads : history.resets = 0 /\ HasRead(t) =>
      /\ frame[t].due \subseteq frame[t].executed
      /\ frame[t].executed \subseteq history.tracked
-----------------------------------------------------------------------------
(* The snapshots that the percentage and the report promise                *)

\* A thread sees the sets when it takes the second mutex.
Asked == [t \in Threads |-> frame[t].call]
Seen == [t \in Threads |->
           IF HasRead(t)
           THEN {[registered |-> frame[t].registered, executed |-> frame[t].executed]} ELSE {}]

Snapshots == INSTANCE CoverageSnapshots WITH registered <- registered_lines,
    executed <- executed_lines, written <- stats_written, asked <- Asked, seen <- Seen

\* Each percentage and each report is of the sets as they are at one moment after it
\* was asked for, and still are when it is answered, although they are read one after
\* the other while lines run and somebody resets.
ImplementsSnapshots == Snapshots!Spec
=============================================================================
