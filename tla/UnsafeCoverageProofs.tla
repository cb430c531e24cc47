------------------------ MODULE UnsafeCoverageProofs ------------------------
(***************************************************************************)
(* Proofs, for any number of threads, lines and calls, that the coverage   *)
(* tracker cannot deadlock, that what a report or a percentage has read    *)
(* fits together and is complete, and that reports are not repeated.       *)
(*                                                                         *)
(* The properties speak of a thread that has read both sets. What makes    *)
(* them inductive is who holds which mutex where (LockInv), that a set     *)
(* cannot change between being read and the release of its mutex, so that  *)
(* a frame holds the sets as they still are, even if somebody resets       *)
(* (FrameInv), and what the sets are until somebody does (DataInv).        *)
(* FrameInv is also why each answer is a snapshot (SnapshotsTaken). The    *)
(* reports are counted together with those that are under way (CountInv),  *)
(* which have consumed the flag already.                                   *)
(***************************************************************************)
EXTENDS UnsafeCoverage, FiniteSetTheorems, TLAPS

\* Where a thread holds the first mutex, and the second.
HoldsFirst == {"second", "both", "append"}
HoldsSecond == {"both", "append"}
Resetting == {"reset executed", "reset flag", "reset counter"}

\* The holders of the mutexes, and which call is where.
LockInv ==
    \A t \in Threads :
      /\ mutex["registered"] = t <=> pc[t] \in HoldsFirst
      /\ mutex["executed"] = t <=> pc[t] \in HoldsSecond
      /\ frame[t].call = "none" <=> pc[t] \notin {"first"} \cup HoldsFirst
      /\ pc[t] = "append" => frame[t].call = "report"

\* What a thread has read under a mutex is still so, resets or not.
FrameInv ==
    \A t \in Threads :
      /\ pc[t] \in HoldsFirst => frame[t].registered = registered_lines
      /\ pc[t] \in HoldsSecond => frame[t].executed = executed_lines

\* As long as nobody resets, the sets are what was loaded and tracked.
DataInv ==
    /\ \A t \in Threads : pc[t] \in Resetting => history.resets > 0
    /\ history.resets = 0 =>
         /\ registered_lines = history.loaded /\ executed_lines = history.tracked
         /\ history.tracked \subseteq history.loaded
         /\ \A t \in Threads : frame[t].due \subseteq history.tracked

\* Threads whose report is under way.
Reporting == {t \in Threads : frame[t].call = "report"}

\* What the flag still allows.
Allowed == IF stats_written THEN 0 ELSE 1

\* Each clearing of the flag allows one report, which is counted from the moment
\* when it sets the flag.
CountInv == history.reports + Cardinality(Reporting) + Allowed <= 1 + history.clears

\* Without other printing and resets the flag and the report are main's: before its
\* destructors, while one of them reports, and after that.
Before == exits = 0 /\ Reporting = {} /\ history.reports = 0
During == exits > 0 /\ Reporting = {Main} /\ history.reports = 0
After == exits > 0 /\ Reporting = {} /\ history.reports = 1

ExitInv ==
    history.resets = 0 /\ history.prints = 0 =>
      (~stats_written => Before) /\ (stats_written => During \/ After)

-----------------------------------------------------------------------------
(* Types                                                                   *)

\* What the steps do to a frame keeps it a frame.
LEMMA FrameUpdates ==
    /\ NoFrame \in Frames
    /\ \A f \in Frames :
         /\ \A S \in SUBSET Lines :
              /\ [f EXCEPT !.registered = S] \in Frames
              /\ [f EXCEPT !.executed = S] \in Frames
              /\ [f EXCEPT !.call = "report", !.due = S] \in Frames
         /\ \A call \in {"none", "percentage", "report"} : [f EXCEPT !.call = call] \in Frames
         /\ \A n \in Nat : [f EXCEPT !.run = n] \in Frames
BY DEF Frames, NoFrame

\* The same for the history.
LEMMA HistoryUpdates ==
    ASSUME NEW h \in Histories
    PROVE  /\ \A S \in SUBSET Lines :
                /\ [h EXCEPT !.loaded = S] \in Histories
                /\ [h EXCEPT !.tracked = S] \in Histories
           /\ [h EXCEPT !.calls = @ + 1] \in Histories
           /\ [h EXCEPT !.calls = @ + 1, !.prints = @ + 1] \in Histories
           /\ [h EXCEPT !.calls = @ + 1, !.resets = @ + 1] \in Histories
           /\ [h EXCEPT !.clears = @ + 1] \in Histories
           /\ [h EXCEPT !.reports = @ + 1] \in Histories
           /\ h.loaded \subseteq Lines /\ h.tracked \subseteq Lines
<1> USE DEF Histories
<1>1. \A S \in SUBSET Lines :
        [h EXCEPT !.loaded = S] \in Histories /\ [h EXCEPT !.tracked = S] \in Histories
  OBVIOUS
<1>2. [h EXCEPT !.calls = @ + 1] \in Histories
  OBVIOUS
<1>3. [h EXCEPT !.calls = @ + 1, !.prints = @ + 1] \in Histories
  <2>1. \A g \in Histories : [g EXCEPT !.prints = @ + 1] \in Histories
    OBVIOUS
  <2> HIDE DEF Histories
  <2> QED
    BY <1>2, <2>1
<1>4. [h EXCEPT !.calls = @ + 1, !.resets = @ + 1] \in Histories
  <2>1. \A g \in Histories : [g EXCEPT !.resets = @ + 1] \in Histories
    OBVIOUS
  <2> HIDE DEF Histories
  <2> QED
    BY <1>2, <2>1
<1>5. [h EXCEPT !.clears = @ + 1] \in Histories /\ [h EXCEPT !.reports = @ + 1] \in Histories
  OBVIOUS
<1> QED
  BY <1>1, <1>2, <1>3, <1>4, <1>5

\* Types hold at the start.
LEMMA TypeInit == Init => TypeOK
<1> SUFFICES ASSUME Init PROVE TypeOK
  OBVIOUS
<1>1. frame \in [Threads -> Frames]
  BY FrameUpdates DEF Init
<1>2. history \in Histories
  <2>1. history = [loaded |-> {}, tracked |-> {}, calls |-> 0, resets |-> 0, prints |-> 0,
                   clears |-> 0, reports |-> 0]
    BY DEF Init
  <2> QED
    BY <2>1 DEF Histories
<1> HIDE DEF NoFrame
<1>3. mutex \in [{"registered", "executed"} -> Threads \cup {Nobody}]
  BY DEF Init
<1>4. pc \in [Threads -> {"app", "first", "second", "both", "append",
                          "reset executed", "reset flag", "reset counter"}]
  BY DEF Init
<1>5. run_counter \in Nat /\ exits \in 0 .. 2
  BY DEF Init
<1>6. registered_lines \subseteq Lines /\ executed_lines \subseteq Lines /\ stats_written \in BOOLEAN
  BY DEF Init
<1> QED
  BY <1>1, <1>2, <1>3, <1>4, <1>5, <1>6, Zenon DEF TypeOK

\* One case for each action.
LEMMA TypeStep == TypeOK /\ [Next]_vars => TypeOK'
<1> SUFFICES ASSUME TypeOK, [Next]_vars PROVE TypeOK'
  OBVIOUS
<1> DEFINE
      MutexOK == mutex \in [{"registered", "executed"} -> Threads \cup {Nobody}]
      PcOK == pc \in [Threads -> {"app", "first", "second", "both", "append"} \cup Resetting]
<1> DEFINE Typed ==
             /\ registered_lines \subseteq Lines /\ executed_lines \subseteq Lines
             /\ MutexOK /\ PcOK /\ stats_written \in BOOLEAN /\ run_counter \in Nat
             /\ frame \in [Threads -> Frames] /\ exits \in 0 .. 2 /\ history \in Histories
<1>a. Typed /\ (Typed' => TypeOK')
  BY DEF TypeOK, Resetting
<1>b. /\ history \in Histories /\ frame \in [Threads -> Frames]
      /\ exits \in 0 .. 2 /\ run_counter \in Nat /\ PcOK /\ MutexOK
      /\ history.tracked \in SUBSET Lines
  BY <1>a, HistoryUpdates
<1> USE ThreadsAssumption DEF Go, Resetting
\* write_stats, whoever calls it.
<1>s. ASSUME NEW t \in Threads, WriteStats(t)
      PROVE  /\ frame' \in [Threads -> Frames] /\ stats_written' \in BOOLEAN /\ PcOK'
             /\ UNCHANGED <<registered_lines, executed_lines, mutex, run_counter>>
  <2>1. [frame[t] EXCEPT !.call = "report", !.due = history.tracked] \in Frames
    BY <1>b, FrameUpdates
  <2>2. frame' \in [Threads -> Frames] /\ PcOK'
    BY <1>s, <1>b, <2>1 DEF WriteStats, Swap
  <2> QED
    BY <1>s, <2>2 DEF WriteStats, Swap, sets
<1>1. ASSUME NEW t \in Threads, NEW line \in Lines, register_unsafe_line(t, line) PROVE Typed'
  BY <1>1, <1>a, HistoryUpdates DEF register_unsafe_line, flags
<1>2. ASSUME NEW t \in Threads, NEW line \in Lines, track_unsafe_line_execution(t, line) PROVE Typed'
  BY <1>2, <1>a, HistoryUpdates DEF track_unsafe_line_execution, Runs, flags
<1>3. ASSUME NEW t \in Threads, get_unsafe_coverage_percentage(t) PROVE Typed'
  BY <1>3, <1>a, FrameUpdates, HistoryUpdates DEF get_unsafe_coverage_percentage, sets, flags
<1>4. ASSUME NEW t \in Threads, print_unsafe_coverage_stats(t) PROVE Typed'
  <2>1. history' \in Histories
    BY <1>4, <1>b, HistoryUpdates DEF print_unsafe_coverage_stats
  <2>2. WriteStats(t) /\ UNCHANGED exits
    BY <1>4 DEF print_unsafe_coverage_stats
  <2> QED
    BY <2>1, <2>2, <1>a, <1>s
<1>5. ASSUME NEW t \in Threads, LockFirst(t) PROVE Typed'
  BY <1>5, <1>a, FrameUpdates DEF LockFirst, ReadRegistered, Locks, sets, flags
<1>6. ASSUME NEW t \in Threads, LockSecond(t) PROVE Typed'
  BY <1>6, <1>a, FrameUpdates DEF LockSecond, Locks, sets, flags
<1>7. ASSUME NEW t \in Threads, ReturnPercentage(t) PROVE Typed'
  BY <1>7, <1>a, FrameUpdates DEF ReturnPercentage, Return, sets, flags
<1>8. ASSUME NEW t \in Threads, NumberRun(t) PROVE Typed'
  <2>1. run_counter \in Nat => run_counter + 1 \in Nat
    OBVIOUS
  <2>2. [frame[t] EXCEPT !.run = run_counter + 1] \in Frames
    BY <1>b, <2>1, FrameUpdates
  <2>3. frame' \in [Threads -> Frames] /\ PcOK' /\ run_counter' \in Nat
    BY <1>8, <1>b, <2>1, <2>2 DEF NumberRun
  <2> QED
    BY <1>8, <1>a, <2>3 DEF NumberRun, sets
<1>9. ASSUME NEW t \in Threads, WriteDetailedStats(t) PROVE Typed'
  BY <1>9, <1>a, FrameUpdates, HistoryUpdates DEF WriteDetailedStats, Return, sets, flags
<1>10. ASSUME NEW t \in Threads, ResetRegistered(t) PROVE Typed'
  BY <1>10, <1>a, HistoryUpdates DEF ResetRegistered, flags
<1>11. ASSUME NEW t \in Threads, ResetExecuted(t) PROVE Typed'
  BY <1>11, <1>a DEF ResetExecuted, flags
<1>12. ASSUME NEW t \in Threads, ResetFlag(t) PROVE Typed'
  BY <1>12, <1>a, HistoryUpdates DEF ResetFlag, sets
<1>13. ASSUME NEW t \in Threads, ResetCounter(t) PROVE Typed'
  BY <1>13, <1>a DEF ResetCounter, FirstRun, sets
<1>14. CASE dump_coverage_at_exit
  <2>1. WriteStats(Main) /\ exits < 2 /\ exits' = exits + 1 /\ UNCHANGED history
    BY <1>14 DEF dump_coverage_at_exit
  <2>2. exits \in 0 .. 2 /\ exits < 2 => exits + 1 \in 0 .. 2
    OBVIOUS
  <2> QED
    BY <2>1, <2>2, <1>a, <1>b, <1>s
<1>15. CASE Stopped \/ UNCHANGED vars
  BY <1>15, <1>a DEF Stopped, vars, sets, flags
<1> QED
  BY <1>a, <1>1, <1>2, <1>3, <1>4, <1>5, <1>6, <1>7, <1>8, <1>9, <1>10, <1>11, <1>12,
     <1>13, <1>14, <1>15 DEF Next

-----------------------------------------------------------------------------
(* What the steps of a thread that wants or holds both mutexes do to it    *)

Becomes(t, to, call, registered, executed, due) ==
    /\ pc'[t] = to
    /\ frame'[t].call = call /\ frame'[t].due = due
    /\ frame'[t].registered = registered /\ frame'[t].executed = executed
    /\ \A u \in Threads \ {t} : pc'[u] = pc[u] /\ frame'[u] = frame[u]

\* What setting a place, and a field of a frame, does to each thread.
LEMMA Becoming ==
    ASSUME TypeOK, NEW t \in Threads, NEW to, NEW new \in Frames,
           pc' = [pc EXCEPT ![t] = to], frame' = [frame EXCEPT ![t] = new]
    PROVE  Becomes(t, to, new.call, new.registered, new.executed, new.due)
<1>1. pc \in [Threads -> {"app", "first", "second", "both", "append",
                         "reset executed", "reset flag", "reset counter"}]
      /\ frame \in [Threads -> Frames]
  BY DEF TypeOK
<1> QED
  BY <1>1 DEF Becomes

\* What each action does to the places and frames, as facts about each thread.
LEMMA Effects ==
    ASSUME TypeOK, NEW t \in Threads
    PROVE  LET f == frame[t]
           IN  /\ get_unsafe_coverage_percentage(t) =>
                    Becomes(t, "first", "percentage", f.registered, f.executed, f.due)
               /\ WriteStats(t) /\ ~stats_written =>
                    Becomes(t, "first", "report", f.registered, f.executed, history.tracked)
               /\ LockFirst(t) =>
                    Becomes(t, "second", f.call, registered_lines, f.executed, f.due)
               /\ LockSecond(t) =>
                    Becomes(t, "both", f.call, f.registered, executed_lines, f.due)
               /\ NumberRun(t) => Becomes(t, "append", f.call, f.registered, f.executed, f.due)
               /\ \A from : Return(t, from) => Becomes(t, "app", "none", {}, {}, {})
<1> DEFINE f == frame[t]
<1>1. /\ f \in Frames /\ registered_lines \in SUBSET Lines /\ executed_lines \in SUBSET Lines
      /\ history.tracked \in SUBSET Lines
  BY HistoryUpdates DEF TypeOK
<1>2. run_counter + 1 \in Nat
  <2>1. run_counter \in Nat
    BY DEF TypeOK
  <2> QED
    BY <2>1
<1> USE DEF Go
<1>3. ASSUME get_unsafe_coverage_percentage(t)
      PROVE  Becomes(t, "first", "percentage", f.registered, f.executed, f.due)
  <2> DEFINE new == [f EXCEPT !.call = "percentage"]
  <2>1. new \in Frames /\ new.call = "percentage" /\ new.registered = f.registered
        /\ new.executed = f.executed /\ new.due = f.due
    BY <1>1 DEF Frames
  <2>2. Becomes(t, "first", new.call, new.registered, new.executed, new.due)
    BY <1>3, <2>1, Becoming DEF get_unsafe_coverage_percentage
  <2> QED
    BY <2>1, <2>2
<1>4. ASSUME WriteStats(t), ~stats_written
      PROVE  Becomes(t, "first", "report", f.registered, f.executed, history.tracked)
  <2> DEFINE new == [f EXCEPT !.call = "report", !.due = history.tracked]
  <2>1. new \in Frames
    BY <1>1, FrameUpdates
  <2>2. new.call = "report" /\ new.registered = f.registered
        /\ new.executed = f.executed /\ new.due = history.tracked
    BY <1>1 DEF Frames
  <2>3. Becomes(t, "first", new.call, new.registered, new.executed, new.due)
    BY <1>4, <2>1, Becoming DEF WriteStats, Swap
  <2> QED
    BY <2>2, <2>3
<1>5. ASSUME LockFirst(t)
      PROVE  Becomes(t, "second", f.call, registered_lines, f.executed, f.due)
  <2> DEFINE new == [f EXCEPT !.registered = registered_lines]
  <2>1. new \in Frames /\ new.call = f.call /\ new.registered = registered_lines
        /\ new.executed = f.executed /\ new.due = f.due
    BY <1>1 DEF Frames
  <2>2. Becomes(t, "second", new.call, new.registered, new.executed, new.due)
    BY <1>5, <2>1, Becoming DEF LockFirst, ReadRegistered
  <2> QED
    BY <2>1, <2>2
<1>6. ASSUME LockSecond(t)
      PROVE  Becomes(t, "both", f.call, f.registered, executed_lines, f.due)
  <2> DEFINE new == [f EXCEPT !.executed = executed_lines]
  <2>1. new \in Frames /\ new.call = f.call /\ new.registered = f.registered
        /\ new.executed = executed_lines /\ new.due = f.due
    BY <1>1 DEF Frames
  <2>2. Becomes(t, "both", new.call, new.registered, new.executed, new.due)
    BY <1>6, <2>1, Becoming DEF LockSecond
  <2> QED
    BY <2>1, <2>2
<1>7. ASSUME NumberRun(t)
      PROVE  Becomes(t, "append", f.call, f.registered, f.executed, f.due)
  <2> DEFINE new == [f EXCEPT !.run = run_counter + 1]
  <2>1. new \in Frames
    BY <1>1, <1>2, FrameUpdates
  <2>2. new.call = f.call /\ new.registered = f.registered
        /\ new.executed = f.executed /\ new.due = f.due
    BY <1>1 DEF Frames
  <2>3. Becomes(t, "append", new.call, new.registered, new.executed, new.due)
    BY <1>7, <2>1, Becoming DEF NumberRun
  <2> QED
    BY <2>2, <2>3
<1>8. ASSUME NEW from, Return(t, from) PROVE Becomes(t, "app", "none", {}, {}, {})
  <2>1. NoFrame.call = "none" /\ NoFrame.registered = {} /\ NoFrame.executed = {}
        /\ NoFrame.due = {}
    BY DEF NoFrame
  <2>2. Becomes(t, "app", NoFrame.call, NoFrame.registered, NoFrame.executed, NoFrame.due)
    BY <1>8, FrameUpdates, Becoming DEF Return
  <2> QED
    BY <2>1, <2>2
<1> QED
  BY <1>3, <1>4, <1>5, <1>6, <1>7, <1>8

-----------------------------------------------------------------------------
(* Mutexes                                                                 *)

\* The steps of a thread that neither wants nor holds both mutexes.
Outside == {"app"} \cup Resetting

Apart(t) ==
    /\ pc[t] \in Outside /\ pc'[t] \in Outside
    /\ \A u \in Threads \ {t} : pc'[u] = pc[u]
    /\ UNCHANGED <<mutex, frame>>

\* The actions of a thread that has nothing to do with the mutexes over its step.
LEMMA ApartSteps ==
    ASSUME TypeOK, NEW t \in Threads,
           \/ \E line \in Lines :
                register_unsafe_line(t, line) \/ track_unsafe_line_execution(t, line)
           \/ ResetRegistered(t) \/ ResetExecuted(t) \/ ResetFlag(t) \/ ResetCounter(t)
           \/ WriteStats(t) /\ stats_written
    PROVE  Apart(t)
<1> pc \in [Threads -> {"app", "first", "second", "both", "append",
                        "reset executed", "reset flag", "reset counter"}]
  BY DEF TypeOK
<1> USE DEF Go, Outside, Resetting, Apart
<1>1. ASSUME NEW line \in Lines,
             register_unsafe_line(t, line) \/ track_unsafe_line_execution(t, line)
      PROVE  Apart(t)
  BY <1>1 DEF register_unsafe_line, track_unsafe_line_execution, Runs
<1>2. CASE ResetRegistered(t) \/ ResetExecuted(t)
  BY <1>2 DEF ResetRegistered, ResetExecuted
<1>3. CASE ResetFlag(t) \/ ResetCounter(t)
  BY <1>3 DEF ResetFlag, ResetCounter
<1>4. CASE WriteStats(t) /\ stats_written
  BY <1>4 DEF WriteStats, Swap
<1> QED
  BY <1>1, <1>2, <1>3, <1>4

\* The part of LockInv that is about one thread.
LockInvOf(t) ==
    /\ mutex["registered"] = t <=> pc[t] \in HoldsFirst
    /\ mutex["executed"] = t <=> pc[t] \in HoldsSecond
    /\ frame[t].call = "none" <=> pc[t] \notin {"first"} \cup HoldsFirst
    /\ pc[t] = "append" => frame[t].call = "report"

\* At the start nobody holds a mutex.
LEMMA LockInit == Init => LockInv
BY ThreadsAssumption DEF Init, LockInv, HoldsFirst, HoldsSecond, NoFrame

\* Every step keeps account of who holds which mutex.
LEMMA LockStep == TypeOK /\ LockInv /\ [Next]_vars => LockInv'
<1> SUFFICES ASSUME TypeOK, LockInv, [Next]_vars PROVE LockInv'
  OBVIOUS
<1>a. /\ \A u \in Threads : LockInvOf(u)
      /\ (\A u \in Threads : LockInvOf(u)') => LockInv'
  BY DEF LockInv, LockInvOf
<1>b. /\ mutex \in [{"registered", "executed"} -> Threads \cup {Nobody}]
      /\ frame \in [Threads -> Frames]
  BY DEF TypeOK
<1> USE ThreadsAssumption DEF HoldsFirst, HoldsSecond
<1>c. ASSUME NEW t \in Threads, Apart(t) PROVE LockInv'
  <2>1. ASSUME NEW u \in Threads PROVE LockInvOf(u)'
    <3>1. mutex' = mutex /\ frame' = frame /\ LockInvOf(u)
      BY <1>a, <1>c DEF Apart
    <3>2. pc'[u] = pc[u] \/ (u = t /\ pc[t] \in Outside /\ pc'[t] \in Outside)
      BY <1>c DEF Apart
    <3> QED
      BY <3>1, <3>2 DEF Outside, Resetting, LockInvOf
  <2> QED
    BY <1>a, <2>1
<1>d. ASSUME NEW t \in Threads, WriteStats(t) PROVE LockInv'
  <2>1. CASE stats_written
    BY <1>c, <1>d, <2>1, ApartSteps
  <2>2. CASE ~stats_written
    <3>1. Becomes(t, "first", "report", frame[t].registered, frame[t].executed, history.tracked)
      BY <1>d, <2>2, Effects
    <3>2. pc[t] = "app" /\ UNCHANGED mutex
      BY <1>d, <2>2 DEF WriteStats, Swap, Go
    <3>3. ASSUME NEW u \in Threads PROVE LockInvOf(u)'
      BY <1>a, <3>1, <3>2, <3>3 DEF Becomes, LockInvOf
    <3> QED
      BY <1>a, <3>3
  <2> QED
    BY <2>1, <2>2
<1>e. ASSUME NEW t \in Threads, NEW from, Return(t, from), from \in HoldsSecond PROVE LockInv'
  <2>1. Becomes(t, "app", "none", {}, {}, {})
    BY <1>e, Effects
  <2>2. pc[t] = from /\ mutex' = [m \in {"registered", "executed"} |-> Nobody]
    BY <1>b, <1>e DEF Return, Go
  <2>3. ASSUME NEW u \in Threads PROVE LockInvOf(u)'
    BY <1>a, <1>e, <2>1, <2>2, <2>3 DEF Becomes, LockInvOf
  <2> QED
    BY <1>a, <2>3
<1>1. ASSUME NEW t \in Threads,
             \/ \E line \in Lines :
                  register_unsafe_line(t, line) \/ track_unsafe_line_execution(t, line)
             \/ ResetRegistered(t) \/ ResetExecuted(t) \/ ResetFlag(t) \/ ResetCounter(t)
      PROVE  LockInv'
  BY <1>1, <1>c, ApartSteps
<1>2. ASSUME NEW t \in Threads, get_unsafe_coverage_percentage(t) PROVE LockInv'
  <2>1. Becomes(t, "first", "percentage", frame[t].registered, frame[t].executed, frame[t].due)
    BY <1>2, Effects
  <2>2. pc[t] = "app" /\ UNCHANGED mutex
    BY <1>2 DEF get_unsafe_coverage_percentage, Go
  <2>3. ASSUME NEW u \in Threads PROVE LockInvOf(u)'
    BY <1>a, <2>1, <2>2, <2>3 DEF Becomes, LockInvOf
  <2> QED
    BY <1>a, <2>3
<1>3. ASSUME NEW t \in Threads, print_unsafe_coverage_stats(t) PROVE LockInv'
  BY <1>3, <1>d DEF print_unsafe_coverage_stats
<1>4. ASSUME NEW t \in Threads, LockFirst(t) PROVE LockInv'
  <2>1. Becomes(t, "second", frame[t].call, registered_lines, frame[t].executed, frame[t].due)
    BY <1>4, Effects
  <2>2. /\ pc[t] = "first" /\ mutex["registered"] = Nobody
        /\ mutex' = [mutex EXCEPT !["registered"] = t]
    BY <1>4 DEF LockFirst, ReadRegistered, Locks, Go
  <2>3. ASSUME NEW u \in Threads PROVE LockInvOf(u)'
    BY <1>a, <1>b, <2>1, <2>2, <2>3 DEF Becomes, LockInvOf
  <2> QED
    BY <1>a, <2>3
<1>5. ASSUME NEW t \in Threads, LockSecond(t) PROVE LockInv'
  <2>1. Becomes(t, "both", frame[t].call, frame[t].registered, executed_lines, frame[t].due)
    BY <1>5, Effects
  <2>2. /\ pc[t] = "second" /\ mutex["executed"] = Nobody
        /\ mutex' = [mutex EXCEPT !["executed"] = t]
    BY <1>5 DEF LockSecond, Locks, Go
  <2>3. ASSUME NEW u \in Threads PROVE LockInvOf(u)'
    BY <1>a, <1>b, <2>1, <2>2, <2>3 DEF Becomes, LockInvOf
  <2> QED
    BY <1>a, <2>3
<1>6. ASSUME NEW t \in Threads, ReturnPercentage(t) \/ WriteDetailedStats(t) PROVE LockInv'
  BY <1>6, <1>e DEF ReturnPercentage, WriteDetailedStats
<1>7. ASSUME NEW t \in Threads, NumberRun(t) PROVE LockInv'
  <2>1. Becomes(t, "append", frame[t].call, frame[t].registered, frame[t].executed, frame[t].due)
    BY <1>7, Effects
  <2>2. pc[t] = "both" /\ frame[t].call = "report" /\ UNCHANGED mutex
    BY <1>7 DEF NumberRun, Go
  <2>3. ASSUME NEW u \in Threads PROVE LockInvOf(u)'
    BY <1>a, <2>1, <2>2, <2>3 DEF Becomes, LockInvOf
  <2> QED
    BY <1>a, <2>3
<1>8. CASE dump_coverage_at_exit
  BY <1>8, <1>d DEF dump_coverage_at_exit
<1>9. CASE Stopped \/ UNCHANGED vars
  <2>1. UNCHANGED <<mutex, pc, frame>>
    BY <1>9 DEF Stopped, vars
  <2> QED
    BY <2>1 DEF LockInv
<1> QED
  BY <1>1, <1>2, <1>3, <1>4, <1>5, <1>6, <1>7, <1>8, <1>9 DEF Next

\* Whoever waits for a mutex of a thread that itself waits: the first has none yet,
\* and the second waits for the mutex that nobody holds without both.
LEMMA LockOrder == TypeOK /\ LockInv => NoCircularWait
<1> SUFFICES ASSUME TypeOK, LockInv PROVE NoCircularWait
  OBVIOUS
<1> QED
  BY DEF LockInv, NoCircularWait, HoldsFirst, HoldsSecond, Locks

-----------------------------------------------------------------------------
(* Data                                                                    *)

\* What the steps do to the parts of the history.
LEMMA HistoryParts ==
    ASSUME NEW h \in Histories
    PROVE  /\ h.calls \in Nat /\ h.resets \in Nat /\ h.prints \in Nat /\ h.clears \in Nat
           /\ h.reports \in Nat
           /\ \A S : LET g == [h EXCEPT !.loaded = S]
                     IN  g.loaded = S /\ g.tracked = h.tracked /\ g.resets = h.resets
                         /\ g.prints = h.prints /\ g.clears = h.clears /\ g.reports = h.reports
           /\ \A S : LET g == [h EXCEPT !.tracked = S]
                     IN  g.tracked = S /\ g.loaded = h.loaded /\ g.resets = h.resets
                         /\ g.prints = h.prints /\ g.clears = h.clears /\ g.reports = h.reports
           /\ LET g == [h EXCEPT !.calls = @ + 1]
              IN  g.loaded = h.loaded /\ g.tracked = h.tracked /\ g.resets = h.resets
                  /\ g.prints = h.prints /\ g.clears = h.clears /\ g.reports = h.reports
           /\ LET g == [h EXCEPT !.calls = @ + 1, !.prints = @ + 1]
              IN  g.loaded = h.loaded /\ g.tracked = h.tracked /\ g.resets = h.resets
                  /\ g.prints = h.prints + 1 /\ g.clears = h.clears /\ g.reports = h.reports
           /\ LET g == [h EXCEPT !.calls = @ + 1, !.resets = @ + 1]
              IN  g.resets = h.resets + 1 /\ g.clears = h.clears /\ g.reports = h.reports
           /\ LET g == [h EXCEPT !.clears = @ + 1]
              IN  g.resets = h.resets /\ g.clears = h.clears + 1 /\ g.reports = h.reports
           /\ LET g == [h EXCEPT !.reports = @ + 1]
              IN  g.loaded = h.loaded /\ g.tracked = h.tracked /\ g.resets = h.resets
                  /\ g.prints = h.prints /\ g.clears = h.clears /\ g.reports = h.reports + 1
BY Zenon DEF Histories

\* The part of FrameInv that is about one thread.
FrameInvOf(t) ==
    /\ pc[t] \in HoldsFirst => frame[t].registered = registered_lines
    /\ pc[t] \in HoldsSecond => frame[t].executed = executed_lines

\* At the start nobody has read anything.
LEMMA FrameInit == Init => FrameInv
BY DEF Init, FrameInv, HoldsFirst, HoldsSecond

\* A set changes only while nobody holds its mutex, and so while nobody has read it.
LEMMA FrameStep == TypeOK /\ LockInv /\ FrameInv /\ [Next]_vars => FrameInv'
<1> SUFFICES ASSUME TypeOK, LockInv, FrameInv, [Next]_vars PROVE FrameInv'
  OBVIOUS
<1>a. /\ \A u \in Threads : FrameInvOf(u)
      /\ (\A u \in Threads : FrameInvOf(u)') => FrameInv'
  BY DEF FrameInv, FrameInvOf
<1> USE ThreadsAssumption DEF HoldsFirst, HoldsSecond
\* A step of a thread that holds no mutex.
<1>b. ASSUME NEW t \in Threads, Apart(t),
             mutex["registered"] = Nobody \/ registered_lines' = registered_lines,
             mutex["executed"] = Nobody \/ executed_lines' = executed_lines
      PROVE  FrameInv'
  <2>1. ASSUME NEW u \in Threads PROVE FrameInvOf(u)'
    <3>1. /\ mutex["registered"] = u <=> pc[u] \in HoldsFirst
          /\ mutex["executed"] = u <=> pc[u] \in HoldsSecond
      BY DEF LockInv
    <3>2. pc'[u] = pc[u] \/ (pc[u] \in Outside /\ pc'[u] \in Outside)
      BY <1>b DEF Apart
    <3>3. frame' = frame /\ FrameInvOf(u)
      BY <1>a, <1>b DEF Apart
    <3> QED
      BY <1>b, <3>1, <3>2, <3>3 DEF FrameInvOf, Outside, Resetting
  <2> QED
    BY <1>a, <2>1
\* A step that changes no set.
<1>c. ASSUME NEW t \in Threads, UNCHANGED sets, FrameInvOf(t)',
             \A u \in Threads \ {t} : pc'[u] = pc[u] /\ frame'[u] = frame[u]
      PROVE  FrameInv'
  <2>1. ASSUME NEW u \in Threads PROVE FrameInvOf(u)'
    <3>1. CASE u = t
      BY <1>c, <3>1
    <3>2. CASE u # t
      BY <1>a, <1>c, <3>2 DEF FrameInvOf, sets
    <3> QED
      BY <3>1, <3>2
  <2> QED
    BY <1>a, <2>1
<1>d. ASSUME NEW t \in Threads, WriteStats(t) PROVE FrameInv'
  <2>1. UNCHANGED sets
    BY <1>d DEF WriteStats, Swap
  <2>2. CASE stats_written
    BY <1>b, <1>d, <2>1, <2>2, ApartSteps DEF sets
  <2>3. CASE ~stats_written
    <3>1. Becomes(t, "first", "report", frame[t].registered, frame[t].executed, history.tracked)
      BY <1>d, <2>3, Effects
    <3>2. FrameInvOf(t)'
      BY <3>1 DEF Becomes, FrameInvOf
    <3> QED
      BY <1>c, <2>1, <3>1, <3>2 DEF Becomes
  <2> QED
    BY <2>2, <2>3
<1>1. ASSUME NEW t \in Threads, NEW line \in Lines,
             register_unsafe_line(t, line) \/ track_unsafe_line_execution(t, line)
      PROVE  FrameInv'
  <2>1. /\ mutex["registered"] = Nobody \/ registered_lines' = registered_lines
        /\ mutex["executed"] = Nobody \/ executed_lines' = executed_lines
    BY <1>1 DEF register_unsafe_line, track_unsafe_line_execution, Runs
  <2>2. Apart(t)
    BY <1>1, ApartSteps
  <2> QED
    BY <1>b, <2>1, <2>2
<1>2. ASSUME NEW t \in Threads, get_unsafe_coverage_percentage(t) PROVE FrameInv'
  <2>1. Becomes(t, "first", "percentage", frame[t].registered, frame[t].executed, frame[t].due)
    BY <1>2, Effects
  <2>2. FrameInvOf(t)' /\ UNCHANGED sets
    BY <1>2, <2>1 DEF get_unsafe_coverage_percentage, Becomes, FrameInvOf
  <2> QED
    BY <1>c, <2>1, <2>2 DEF Becomes
<1>3. ASSUME NEW t \in Threads, print_unsafe_coverage_stats(t) PROVE FrameInv'
  BY <1>3, <1>d DEF print_unsafe_coverage_stats
<1>4. ASSUME NEW t \in Threads, LockFirst(t) PROVE FrameInv'
  <2>1. Becomes(t, "second", frame[t].call, registered_lines, frame[t].executed, frame[t].due)
    BY <1>4, Effects
  <2>2. UNCHANGED sets
    BY <1>4 DEF LockFirst, ReadRegistered
  <2>3. FrameInvOf(t)'
    BY <2>1, <2>2 DEF Becomes, FrameInvOf, sets
  <2> QED
    BY <1>c, <2>1, <2>2, <2>3 DEF Becomes
<1>5. ASSUME NEW t \in Threads, LockSecond(t) PROVE FrameInv'
  <2>1. Becomes(t, "both", frame[t].call, frame[t].registered, executed_lines, frame[t].due)
    BY <1>5, Effects
  <2>2. UNCHANGED sets /\ pc[t] = "second"
    BY <1>5 DEF LockSecond, Go
  <2>3. FrameInvOf(t)'
    BY <1>a, <2>1, <2>2 DEF Becomes, FrameInvOf, sets
  <2> QED
    BY <1>c, <2>1, <2>2, <2>3 DEF Becomes
<1>6. ASSUME NEW t \in Threads, ReturnPercentage(t) \/ WriteDetailedStats(t) PROVE FrameInv'
  <2>1. Becomes(t, "app", "none", {}, {}, {})
    BY <1>6, Effects DEF ReturnPercentage, WriteDetailedStats
  <2>2. UNCHANGED sets
    BY <1>6 DEF ReturnPercentage, WriteDetailedStats, Return
  <2>3. FrameInvOf(t)'
    BY <2>1 DEF Becomes, FrameInvOf
  <2> QED
    BY <1>c, <2>1, <2>2, <2>3 DEF Becomes
<1>7. ASSUME NEW t \in Threads, NumberRun(t) PROVE FrameInv'
  <2>1. Becomes(t, "append", frame[t].call, frame[t].registered, frame[t].executed, frame[t].due)
    BY <1>7, Effects
  <2>2. UNCHANGED sets /\ pc[t] = "both"
    BY <1>7 DEF NumberRun, Go
  <2>3. FrameInvOf(t)'
    BY <1>a, <2>1, <2>2 DEF Becomes, FrameInvOf, sets
  <2> QED
    BY <1>c, <2>1, <2>2, <2>3 DEF Becomes
<1>8. ASSUME NEW t \in Threads,
             ResetRegistered(t) \/ ResetExecuted(t) \/ ResetFlag(t) \/ ResetCounter(t)
      PROVE  FrameInv'
  <2>1. /\ mutex["registered"] = Nobody \/ registered_lines' = registered_lines
        /\ mutex["executed"] = Nobody \/ executed_lines' = executed_lines
    BY <1>8 DEF ResetRegistered, ResetExecuted, ResetFlag, ResetCounter, sets
  <2>2. Apart(t)
    BY <1>8, ApartSteps
  <2> QED
    BY <1>b, <2>1, <2>2
<1>9. CASE dump_coverage_at_exit
  BY <1>9, <1>d DEF dump_coverage_at_exit
<1>10. CASE Stopped \/ UNCHANGED vars
  <2>1. UNCHANGED <<registered_lines, executed_lines, pc, frame>>
    BY <1>10 DEF Stopped, vars, sets
  <2> QED
    BY <2>1 DEF FrameInv
<1> QED
  BY <1>1, <1>2, <1>3, <1>4, <1>5, <1>6, <1>7, <1>8, <1>9, <1>10 DEF Next

\* The part of DataInv that is about one thread.
DataInvOf(t) == frame[t].due \subseteq history.tracked

SetsOK ==
    /\ registered_lines = history.loaded /\ executed_lines = history.tracked
    /\ history.tracked \subseteq history.loaded

\* The sets and what they are compared with are as they were.
SameData ==
    /\ UNCHANGED <<registered_lines, executed_lines>>
    /\ history'.loaded = history.loaded /\ history'.tracked = history.tracked
    /\ history'.resets = history.resets

\* At the start the sets are empty and nobody has reset.
LEMMA DataInit == Init => DataInv
BY DEF Init, DataInv, HoldsFirst, HoldsSecond, Resetting, NoFrame

\* Until somebody resets, every step keeps the sets what was loaded and tracked.
LEMMA DataStep == TypeOK /\ LockInv /\ DataInv /\ [Next]_vars => DataInv'
<1> SUFFICES ASSUME TypeOK, LockInv, DataInv, [Next]_vars PROVE DataInv'
  OBVIOUS
<1>a. /\ \A u \in Threads : pc[u] \in Resetting => history.resets > 0
      /\ history.resets = 0 => SetsOK /\ \A u \in Threads : DataInvOf(u)
      /\ (\A u \in Threads : pc[u] \in Resetting => history.resets > 0)'
           /\ (history'.resets = 0 => SetsOK' /\ \A u \in Threads : DataInvOf(u)') => DataInv'
  BY DEF DataInv, DataInvOf, SetsOK
<1>b. /\ history \in Histories /\ history.resets \in Nat
      /\ pc \in [Threads -> {"app", "first", "second", "both", "append"} \cup Resetting]
  BY HistoryParts DEF TypeOK, Resetting
<1> USE ThreadsAssumption
\* A step that changes no set and starts no reset.
<1>c. ASSUME SameData, NEW t \in Threads, pc'[t] \notin Resetting,
             \A u \in Threads \ {t} : pc'[u] = pc[u] /\ frame'[u] = frame[u],
             history.resets = 0 => DataInvOf(t)'
      PROVE  DataInv'
  <2>1. ASSUME NEW u \in Threads, pc'[u] \in Resetting PROVE history'.resets > 0
    BY <1>a, <1>c, <2>1 DEF SameData
  <2>2. ASSUME history'.resets = 0 PROVE SetsOK'
    BY <1>a, <1>c, <2>2 DEF SameData, SetsOK
  <2>3. ASSUME history'.resets = 0, NEW u \in Threads PROVE DataInvOf(u)'
    <3>1. CASE u = t
      BY <1>c, <2>3, <3>1 DEF SameData
    <3>2. CASE u # t
      BY <1>a, <1>c, <2>3, <3>2 DEF SameData, DataInvOf
    <3> QED
      BY <3>1, <3>2
  <2> QED
    BY <1>a, <2>1, <2>2, <2>3
\* A step of a reset.
<1>d. ASSUME NEW t \in Threads, Apart(t), history'.resets > 0, history'.resets \in Nat
      PROVE  DataInv'
  BY <1>a, <1>d
<1>e. ASSUME NEW t \in Threads, WriteStats(t), SameData PROVE DataInv'
  <2>1. CASE stats_written
    <3>1. frame' = frame /\ pc[t] = "app" /\ pc' = [pc EXCEPT ![t] = "app"]
      BY <1>e, <2>1 DEF WriteStats, Swap, Go
    <3>2. pc' = pc
      BY <1>b, <3>1
    <3>3. history.resets = 0 => DataInvOf(t)'
      BY <1>a, <1>e, <3>1, <3>2 DEF SameData, DataInvOf
    <3>4. pc'[t] \notin Resetting
      BY <3>1, <3>2 DEF Resetting
    <3> QED
      BY <1>c, <1>e, <3>1, <3>2, <3>3, <3>4
  <2>2. CASE ~stats_written
    <3>1. Becomes(t, "first", "report", frame[t].registered, frame[t].executed, history.tracked)
      BY <1>e, <2>2, Effects
    <3>2. DataInvOf(t)' /\ pc'[t] \notin Resetting
      BY <1>e, <3>1 DEF Becomes, SameData, DataInvOf, HoldsFirst, HoldsSecond, Resetting
    <3> QED
      BY <1>c, <1>e, <3>1, <3>2 DEF Becomes
  <2> QED
    BY <2>1, <2>2
<1>f. ASSUME NEW t \in Threads, NEW from, Return(t, from), SameData PROVE DataInv'
  <2>1. Becomes(t, "app", "none", {}, {}, {})
    BY <1>f, Effects
  <2>2. DataInvOf(t)' /\ pc'[t] \notin Resetting
    BY <2>1 DEF Becomes, DataInvOf, HoldsFirst, HoldsSecond, Resetting
  <2> QED
    BY <1>c, <1>f, <2>1, <2>2 DEF Becomes
<1>1. ASSUME NEW t \in Threads, NEW line \in Lines, register_unsafe_line(t, line) PROVE DataInv'
  <2>1. /\ mutex["registered"] = Nobody /\ pc[t] = "app" /\ pc' = pc /\ frame' = frame
        /\ registered_lines' = registered_lines \cup {line} /\ executed_lines' = executed_lines
    BY <1>1, <1>b DEF register_unsafe_line, Go
  <2>2. /\ history'.loaded = history.loaded \cup {line} /\ history'.tracked = history.tracked
        /\ history'.resets = history.resets
    BY <1>1, <1>b, HistoryParts DEF register_unsafe_line
  <2>3. history.resets = 0 => SetsOK'
    BY <1>a, <2>1, <2>2 DEF SetsOK
  <2>4. ASSUME NEW u \in Threads, history.resets = 0 PROVE DataInvOf(u)'
    BY <1>a, <2>1, <2>2, <2>4 DEF DataInvOf, LockInv
  <2> QED
    BY <1>a, <2>1, <2>2, <2>3, <2>4
<1>2. ASSUME NEW t \in Threads, NEW line \in Lines, track_unsafe_line_execution(t, line)
      PROVE  DataInv'
  <2>1. /\ mutex["executed"] = Nobody /\ pc[t] = "app" /\ pc' = pc /\ frame' = frame
        /\ line \in history.loaded
        /\ executed_lines' = executed_lines \cup {line} /\ registered_lines' = registered_lines
    BY <1>2, <1>b DEF track_unsafe_line_execution, Runs, Go
  <2>2. /\ history'.tracked = history.tracked \cup {line} /\ history'.loaded = history.loaded
        /\ history'.resets = history.resets
    BY <1>2, <1>b, HistoryParts DEF track_unsafe_line_execution, Runs
  <2>3. history.resets = 0 => SetsOK'
    BY <1>a, <2>1, <2>2 DEF SetsOK
  <2>4. ASSUME NEW u \in Threads, history.resets = 0 PROVE DataInvOf(u)'
    BY <1>a, <2>1, <2>2, <2>4 DEF DataInvOf, LockInv
  <2> QED
    BY <1>a, <2>1, <2>2, <2>3, <2>4
<1>3. ASSUME NEW t \in Threads, get_unsafe_coverage_percentage(t) PROVE DataInv'
  <2>1. Becomes(t, "first", "percentage", frame[t].registered, frame[t].executed, frame[t].due)
    BY <1>3, Effects
  <2>2. SameData
    BY <1>3, <1>b, HistoryParts DEF get_unsafe_coverage_percentage, SameData, sets
  <2>3. (history.resets = 0 => DataInvOf(t)') /\ pc'[t] \notin Resetting
    BY <1>a, <2>1, <2>2 DEF Becomes, SameData, DataInvOf, HoldsFirst, HoldsSecond, Resetting
  <2> QED
    BY <1>c, <2>1, <2>2, <2>3 DEF Becomes
<1>4. ASSUME NEW t \in Threads, print_unsafe_coverage_stats(t) PROVE DataInv'
  <2>1. SameData
    BY <1>4, <1>b, HistoryParts
    DEF print_unsafe_coverage_stats, WriteStats, Swap, SameData, sets
  <2> QED
    BY <1>4, <1>e, <2>1 DEF print_unsafe_coverage_stats
<1>5. ASSUME NEW t \in Threads, LockFirst(t) PROVE DataInv'
  <2>1. Becomes(t, "second", frame[t].call, registered_lines, frame[t].executed, frame[t].due)
    BY <1>5, Effects
  <2>2. SameData
    BY <1>5 DEF LockFirst, ReadRegistered, SameData, sets
  <2>3. (history.resets = 0 => DataInvOf(t)') /\ pc'[t] \notin Resetting
    BY <1>a, <2>1, <2>2 DEF Becomes, SameData, DataInvOf, HoldsFirst, HoldsSecond, Resetting
  <2> QED
    BY <1>c, <2>1, <2>2, <2>3 DEF Becomes
<1>6. ASSUME NEW t \in Threads, LockSecond(t) PROVE DataInv'
  <2>1. Becomes(t, "both", frame[t].call, frame[t].registered, executed_lines, frame[t].due)
    BY <1>6, Effects
  <2>2. SameData /\ pc[t] = "second"
    BY <1>6 DEF LockSecond, SameData, sets, Go
  <2>3. (history.resets = 0 => DataInvOf(t)') /\ pc'[t] \notin Resetting
    BY <1>a, <2>1, <2>2 DEF Becomes, SameData, DataInvOf, HoldsFirst, HoldsSecond, Resetting
  <2> QED
    BY <1>c, <2>1, <2>2, <2>3 DEF Becomes
<1>7. ASSUME NEW t \in Threads, ReturnPercentage(t) \/ WriteDetailedStats(t) PROVE DataInv'
  <2>1. SameData
    BY <1>7, <1>b, HistoryParts DEF ReturnPercentage, WriteDetailedStats, Return, SameData, sets
  <2> QED
    BY <1>7, <1>f, <2>1 DEF ReturnPercentage, WriteDetailedStats
<1>8. ASSUME NEW t \in Threads, NumberRun(t) PROVE DataInv'
  <2>1. Becomes(t, "append", frame[t].call, frame[t].registered, frame[t].executed, frame[t].due)
    BY <1>8, Effects
  <2>2. SameData /\ pc[t] = "both"
    BY <1>8 DEF NumberRun, SameData, sets, Go
  <2>3. (history.resets = 0 => DataInvOf(t)') /\ pc'[t] \notin Resetting
    BY <1>a, <2>1, <2>2 DEF Becomes, SameData, DataInvOf, HoldsFirst, HoldsSecond, Resetting
  <2> QED
    BY <1>c, <2>1, <2>2, <2>3 DEF Becomes
<1>9. ASSUME NEW t \in Threads, ResetRegistered(t) PROVE DataInv'
  <2>1. history'.resets = history.resets + 1
    BY <1>9, <1>b, HistoryParts DEF ResetRegistered
  <2>2. history'.resets > 0 /\ history'.resets \in Nat
    BY <2>1, <1>b
  <2> QED
    BY <1>9, <1>d, <2>2, ApartSteps
<1>10. ASSUME NEW t \in Threads, ResetExecuted(t) \/ ResetFlag(t) \/ ResetCounter(t) PROVE DataInv'
  <2>1. history'.resets = history.resets
    BY <1>10, <1>b, HistoryParts DEF ResetExecuted, ResetFlag, ResetCounter
  <2>2. history.resets > 0
    BY <1>10, <1>a DEF ResetExecuted, ResetFlag, ResetCounter, Go, Resetting
  <2> QED
    BY <1>10, <1>b, <1>d, <2>1, <2>2, ApartSteps
<1>11. CASE dump_coverage_at_exit
  <2>1. SameData
    BY <1>11 DEF dump_coverage_at_exit, WriteStats, Swap, SameData, sets
  <2> QED
    BY <1>11, <1>e, <2>1 DEF dump_coverage_at_exit
<1>12. CASE Stopped \/ UNCHANGED vars
  BY <1>12 DEF Stopped, vars, sets, DataInv
<1> QED
  BY <1>1, <1>2, <1>3, <1>4, <1>5, <1>6, <1>7, <1>8, <1>9, <1>10, <1>11, <1>12 DEF Next

\* What has been read of the executed lines is among the registered ones.
LEMMA DataBounds == TypeOK /\ FrameInv /\ DataInv => CoverageWithin100
<1> SUFFICES ASSUME TypeOK, FrameInv, DataInv, NEW t \in Threads, history.resets = 0, HasRead(t)
             PROVE  Cardinality(frame[t].executed) <= Cardinality(frame[t].registered)
  BY DEF CoverageWithin100
<1>1. frame[t].executed \subseteq frame[t].registered
  BY DEF FrameInv, DataInv, HasRead, HoldsFirst, HoldsSecond
<1>2. frame[t].registered \subseteq Lines
  BY DEF TypeOK, Frames
<1>3. IsFiniteSet(frame[t].registered)
  BY <1>2, LinesAssumption, FS_Subset
<1> QED
  BY <1>1, <1>3, FS_Subset

\* What has been read and is still so has all lines that are due.
LEMMA DataComplete == TypeOK /\ FrameInv /\ DataInv => ReportComplete
BY DEF FrameInv, DataInv, ReportComplete, HasRead, HoldsSecond

-----------------------------------------------------------------------------
(* Reports                                                                 *)

\* What the steps do to the reports that are under way.
LEMMA ReportingSteps ==
    ASSUME TypeOK, LockInv, NEW t \in Threads
    PROVE  /\ (\/ Apart(t) \/ get_unsafe_coverage_percentage(t)
               \/ LockFirst(t) \/ LockSecond(t) \/ NumberRun(t) \/ ReturnPercentage(t))
                => Reporting' = Reporting
           /\ WriteStats(t) /\ ~stats_written
                => t \notin Reporting /\ Reporting' = Reporting \cup {t}
           /\ WriteDetailedStats(t) => t \in Reporting /\ Reporting' = Reporting \ {t}
<1>1. ASSUME Apart(t) PROVE Reporting' = Reporting
  BY <1>1 DEF Apart, Reporting
<1>2. ASSUME get_unsafe_coverage_percentage(t) PROVE Reporting' = Reporting
  <2>1. Becomes(t, "first", "percentage", frame[t].registered, frame[t].executed, frame[t].due)
    BY <1>2, Effects
  <2>2. frame[t].call = "none"
    BY <1>2 DEF get_unsafe_coverage_percentage, Go, LockInv, HoldsFirst
  <2> QED
    BY <2>1, <2>2 DEF Becomes, Reporting
<1>3. ASSUME LockFirst(t) \/ LockSecond(t) \/ NumberRun(t) PROVE Reporting' = Reporting
  <2>1. \A u \in Threads : frame'[u].call = frame[u].call
    BY <1>3, Effects DEF Becomes
  <2> QED
    BY <2>1 DEF Reporting
<1>4. ASSUME ReturnPercentage(t) PROVE Reporting' = Reporting
  <2>1. Becomes(t, "app", "none", {}, {}, {}) /\ frame[t].call = "percentage"
    BY <1>4, Effects DEF ReturnPercentage
  <2> QED
    BY <2>1 DEF Becomes, Reporting
<1>5. ASSUME WriteStats(t), ~stats_written
      PROVE  t \notin Reporting /\ Reporting' = Reporting \cup {t}
  <2>1. Becomes(t, "first", "report", frame[t].registered, frame[t].executed, history.tracked)
    BY <1>5, Effects
  <2>2. frame[t].call = "none"
    BY <1>5 DEF WriteStats, Swap, Go, LockInv, HoldsFirst
  <2> QED
    BY <2>1, <2>2 DEF Becomes, Reporting
<1>6. ASSUME WriteDetailedStats(t) PROVE t \in Reporting /\ Reporting' = Reporting \ {t}
  <2>1. Becomes(t, "app", "none", {}, {}, {})
    BY <1>6, Effects DEF WriteDetailedStats
  <2>2. frame[t].call = "report"
    BY <1>6 DEF WriteDetailedStats, Return, Go, LockInv
  <2> QED
    BY <2>1, <2>2 DEF Becomes, Reporting
<1> QED
  BY <1>1, <1>2, <1>3, <1>4, <1>5, <1>6

\* What every step is for the reports: it leaves them alone, ends one, asks for one,
\* or clears the flag.
Neutral ==
    /\ history'.reports = history.reports /\ history'.clears = history.clears
    /\ history'.prints = history.prints
    /\ Reporting' = Reporting /\ UNCHANGED <<stats_written, exits>>

Ends(t) ==
    /\ t \in Reporting /\ Reporting' = Reporting \ {t}
    /\ history'.reports = history.reports + 1 /\ history'.clears = history.clears
    /\ history'.prints = history.prints /\ UNCHANGED <<stats_written, exits>>

Asks(t) ==
    /\ history'.reports = history.reports /\ history'.clears = history.clears
    /\ stats_written'
    /\ \/ stats_written /\ Reporting' = Reporting
       \/ ~stats_written /\ t \notin Reporting /\ Reporting' = Reporting \cup {t}

Clears ==
    /\ history.resets > 0
    /\ history'.reports = history.reports /\ history'.clears = history.clears + 1
    /\ ~stats_written' /\ Reporting' = Reporting

\* What a step is to the reports: nothing, a clearing of the flag, an end or a
\* beginning, the latter counted as a print or an exit.
LEMMA ReportSteps ==
    ASSUME TypeOK, LockInv, DataInv, [Next]_vars
    PROVE  /\ history'.resets = 0 => history.resets = 0
           /\ \/ Neutral \/ Clears
              \/ \E t \in Threads : Ends(t)
              \/ \E t \in Threads : Asks(t) /\ history'.prints = history.prints + 1
              \/ Asks(Main) /\ history' = history /\ exits' = exits + 1
<1> DEFINE Resets == history'.resets = 0 => history.resets = 0
<1>a. history \in Histories /\ history.resets \in Nat /\ stats_written \in BOOLEAN
  BY HistoryParts DEF TypeOK
<1>b. ASSUME NEW t \in Threads, WriteStats(t),
             history'.reports = history.reports, history'.clears = history.clears
      PROVE  Asks(t)
  <2>1. CASE stats_written
    <3>1. Reporting' = Reporting
      BY <1>b, <2>1, ApartSteps, ReportingSteps
    <3> QED
      BY <1>b, <2>1, <3>1, Zenon DEF Asks, WriteStats
  <2>2. CASE ~stats_written
    <3>1. t \notin Reporting /\ Reporting' = Reporting \cup {t}
      BY <1>b, <2>2, ReportingSteps
    <3> QED
      BY <1>b, <2>2, <3>1, Zenon DEF Asks, WriteStats
  <2> QED
    BY <2>1, <2>2
<1>1. ASSUME NEW t \in Threads, NEW line \in Lines,
             register_unsafe_line(t, line) \/ track_unsafe_line_execution(t, line)
      PROVE  Neutral /\ Resets
  <2>1. Reporting' = Reporting
    BY <1>1, ApartSteps, ReportingSteps
  <2>2. history'.reports = history.reports /\ history'.clears = history.clears
        /\ history'.prints = history.prints /\ history'.resets = history.resets
    <3>1. CASE register_unsafe_line(t, line)
      BY <3>1, <1>a, HistoryParts DEF register_unsafe_line
    <3>2. CASE track_unsafe_line_execution(t, line)
      BY <3>2, <1>a, HistoryParts DEF track_unsafe_line_execution, Runs
    <3> QED
      BY <1>1, <3>1, <3>2
  <2>3. UNCHANGED <<stats_written, exits>>
    BY <1>1 DEF register_unsafe_line, track_unsafe_line_execution, Runs, flags
  <2> QED
    BY <2>1, <2>2, <2>3, Zenon DEF Neutral
<1>2. ASSUME NEW t \in Threads, get_unsafe_coverage_percentage(t) PROVE Neutral /\ Resets
  <2>1. Reporting' = Reporting
    BY <1>2, ReportingSteps
  <2>2. history'.reports = history.reports /\ history'.clears = history.clears
        /\ history'.prints = history.prints /\ history'.resets = history.resets
    BY <1>2, <1>a, HistoryParts DEF get_unsafe_coverage_percentage
  <2>3. UNCHANGED <<stats_written, exits>>
    BY <1>2 DEF get_unsafe_coverage_percentage, flags
  <2> QED
    BY <2>1, <2>2, <2>3, Zenon DEF Neutral
<1>3. ASSUME NEW t \in Threads, print_unsafe_coverage_stats(t)
      PROVE  Asks(t) /\ history'.prints = history.prints + 1 /\ Resets
  <2>1. history'.reports = history.reports /\ history'.clears = history.clears
        /\ history'.prints = history.prints + 1 /\ history'.resets = history.resets
    BY <1>3, <1>a, HistoryParts DEF print_unsafe_coverage_stats
  <2> QED
    BY <1>3, <1>b, <2>1 DEF print_unsafe_coverage_stats
<1>4. ASSUME NEW t \in Threads, LockFirst(t) \/ LockSecond(t) \/ NumberRun(t) \/ ReturnPercentage(t)
      PROVE  Neutral /\ Resets
  <2>1. Reporting' = Reporting
    BY <1>4, ReportingSteps
  <2>2. UNCHANGED <<history, stats_written, exits>>
    BY <1>4
    DEF LockFirst, ReadRegistered, LockSecond, NumberRun, ReturnPercentage, Return, flags
  <2> QED
    BY <2>1, <2>2, Zenon DEF Neutral
<1>5. ASSUME NEW t \in Threads, WriteDetailedStats(t) PROVE Ends(t) /\ Resets
  <2>1. t \in Reporting /\ Reporting' = Reporting \ {t}
    BY <1>5, ReportingSteps
  <2>2. history'.reports = history.reports + 1 /\ history'.clears = history.clears
        /\ history'.prints = history.prints /\ history'.resets = history.resets
    BY <1>5, <1>a, HistoryParts DEF WriteDetailedStats
  <2>3. UNCHANGED <<stats_written, exits>>
    BY <1>5 DEF WriteDetailedStats, Return, flags
  <2> QED
    BY <2>1, <2>2, <2>3, Zenon DEF Ends
<1>6. ASSUME NEW t \in Threads, ResetRegistered(t) PROVE Neutral /\ Resets
  <2>1. Reporting' = Reporting
    BY <1>6, ApartSteps, ReportingSteps
  <2>2. history'.reports = history.reports /\ history'.clears = history.clears
        /\ history'.prints = history.prints /\ history'.resets = history.resets + 1
    <3>1. history' = [history EXCEPT !.calls = @ + 1, !.resets = @ + 1]
      BY <1>6 DEF ResetRegistered
    <3> QED
      BY <3>1, <1>a, HistoryParts
  <2>3. UNCHANGED <<stats_written, exits>>
    BY <1>6 DEF ResetRegistered, flags
  <2>4. Resets
    BY <2>2, <1>a
  <2> QED
    BY <2>1, <2>2, <2>3, <2>4, Zenon DEF Neutral
<1>7. ASSUME NEW t \in Threads, ResetExecuted(t) \/ ResetCounter(t) PROVE Neutral /\ Resets
  <2>1. Reporting' = Reporting
    BY <1>7, ApartSteps, ReportingSteps
  <2>2. UNCHANGED <<history, stats_written, exits>>
    BY <1>7 DEF ResetExecuted, ResetCounter, flags
  <2> QED
    BY <2>1, <2>2, Zenon DEF Neutral
<1>8. ASSUME NEW t \in Threads, ResetFlag(t) PROVE Clears /\ Resets
  <2>1. Reporting' = Reporting
    BY <1>8, ApartSteps, ReportingSteps
  <2>2. history'.reports = history.reports /\ history'.clears = history.clears + 1
        /\ history'.resets = history.resets
    BY <1>8, <1>a, HistoryParts DEF ResetFlag
  <2>3. history.resets > 0 /\ ~stats_written'
    BY <1>8 DEF ResetFlag, Go, DataInv, Resetting
  <2> QED
    BY <2>1, <2>2, <2>3, Zenon DEF Clears
<1>9. CASE dump_coverage_at_exit
  <2>1. WriteStats(Main) /\ history' = history /\ exits' = exits + 1
    BY <1>9 DEF dump_coverage_at_exit
  <2>2. Asks(Main)
    BY <1>b, <2>1, ThreadsAssumption
  <2> QED
    BY <2>1, <2>2, Zenon
<1>10. CASE Stopped \/ UNCHANGED vars
  BY <1>10, Zenon DEF Stopped, vars, flags, Neutral, Reporting
<1>11. Next \/ UNCHANGED vars
  OBVIOUS
<1> QED
  BY <1>1, <1>2, <1>3, <1>4, <1>5, <1>6, <1>7, <1>8, <1>9, <1>10, <1>11, Zenon DEF Next

\* At the start no report has been allowed or begun.
LEMMA CountInit == Init => CountInv
<1> SUFFICES ASSUME Init PROVE CountInv
  OBVIOUS
<1>1. Reporting = {} /\ history.reports = 0 /\ history.clears = 0
  BY DEF Init, Reporting, NoFrame
<1>2. Allowed = 1
  BY DEF Init, Allowed
<1> QED
  BY <1>1, <1>2, FS_EmptySet DEF CountInv

\* Every step keeps the account of reports and clearings.
LEMMA CountStep == TypeOK /\ LockInv /\ DataInv /\ CountInv /\ [Next]_vars => CountInv'
<1> SUFFICES ASSUME TypeOK, LockInv, DataInv, CountInv, [Next]_vars PROVE CountInv'
  OBVIOUS
<1> DEFINE under == Cardinality(Reporting)
<1>a. /\ history.reports \in Nat /\ history.clears \in Nat
      /\ history.reports + under + Allowed <= 1 + history.clears
  BY HistoryParts DEF TypeOK, CountInv
<1>b. IsFiniteSet(Reporting) /\ under \in Nat
  BY ThreadsAssumption, FS_Subset, FS_CardinalityType DEF Reporting
<1>c. (stats_written => Allowed = 0) /\ (~stats_written => Allowed = 1)
  BY Zenon DEF Allowed
<1>d. (stats_written' => Allowed' = 0) /\ (~stats_written' => Allowed' = 1)
  BY Zenon DEF Allowed
<1>1. CASE Neutral
  <2>1. under' = under /\ Allowed' = Allowed
        /\ history'.reports = history.reports /\ history'.clears = history.clears
    BY <1>1, Zenon DEF Neutral, Allowed
  <2> QED
    BY <1>a, <2>1 DEF CountInv
<1>2. CASE Clears
  <2>1. under' = under /\ Allowed' = 1
        /\ history'.reports = history.reports /\ history'.clears = history.clears + 1
    BY <1>2, <1>d, Zenon DEF Clears
  <2>2. Allowed = 0 \/ Allowed = 1
    BY <1>c, Zenon
  <2> HIDE DEF under
  <2> QED
    BY <1>a, <1>b, <2>1, <2>2 DEF CountInv, under
<1>3. ASSUME NEW t \in Threads, Ends(t) PROVE CountInv'
  <2>1. under' = under - 1
    BY <1>3, <1>b, FS_RemoveElement DEF Ends
  <2>2. Allowed' = Allowed
        /\ history'.reports = history.reports + 1 /\ history'.clears = history.clears
    BY <1>3, Zenon DEF Ends, Allowed
  <2>3. Allowed = 0 \/ Allowed = 1
    BY <1>c, Zenon
  <2> QED
    BY <1>a, <1>b, <2>1, <2>2, <2>3 DEF CountInv
<1>4. ASSUME NEW t \in Threads, Asks(t) PROVE CountInv'
  <2>1. Allowed' = 0 /\ history'.reports = history.reports /\ history'.clears = history.clears
    BY <1>4, <1>d, Zenon DEF Asks
  <2>2. under' = under + Allowed
    <3>1. CASE stats_written
      <4>1. under' = under /\ Allowed = 0
        BY <1>4, <1>c, <3>1, Zenon DEF Asks
      <4> QED
        BY <1>b, <4>1
    <3>2. CASE ~stats_written
      <4>1. t \notin Reporting /\ Reporting' = Reporting \cup {t} /\ Allowed = 1
        BY <1>4, <1>c, <3>2, Zenon DEF Asks
      <4>2. under' = under + 1
        BY <1>b, <4>1, FS_AddElement
      <4> QED
        BY <1>b, <4>1, <4>2
    <3> QED
      BY <3>1, <3>2
  <2>3. Allowed = 0 \/ Allowed = 1
    BY <1>c, Zenon
  <2> QED
    BY <1>a, <1>b, <2>1, <2>2, <2>3 DEF CountInv
<1> QED
  BY <1>1, <1>2, <1>3, <1>4, ReportSteps, ThreadsAssumption

\* At the start main is not in its destructors.
LEMMA ExitInit == Init => ExitInv
<1> SUFFICES ASSUME Init PROVE ExitInv
  OBVIOUS
<1>1. Before
  BY DEF Init, Before, Reporting, NoFrame
<1>2. ~stats_written
  BY DEF Init
<1> QED
  BY <1>1, <1>2, Zenon DEF ExitInv

\* Every step keeps what main's destructors know of the flag.
LEMMA ExitStep == TypeOK /\ LockInv /\ DataInv /\ ExitInv /\ [Next]_vars => ExitInv'
<1> SUFFICES ASSUME TypeOK, LockInv, DataInv, ExitInv, [Next]_vars,
                    history'.resets = 0, history'.prints = 0
             PROVE  (~stats_written' => Before') /\ (stats_written' => During' \/ After')
  BY Zenon DEF ExitInv
<1>a. history.resets = 0
  BY ReportSteps
<1>b. history.prints \in Nat /\ history.reports \in Nat /\ exits \in 0 .. 2
  BY HistoryParts DEF TypeOK
<1>c. history.prints = 0 => (~stats_written => Before) /\ (stats_written => During \/ After)
  BY <1>a, Zenon DEF ExitInv
<1>1. CASE Neutral
  <2>1. history.prints = 0 /\ stats_written' = stats_written
    BY <1>1 DEF Neutral
  <2>2. Before' = Before /\ During' = During /\ After' = After
    BY <1>1 DEF Neutral, Before, During, After
  <2> QED
    BY <1>c, <2>1, <2>2, Zenon
<1>2. ~Clears
  BY <1>a DEF Clears
<1>3. ASSUME NEW t \in Threads, Ends(t)
      PROVE  (~stats_written' => Before') /\ (stats_written' => During' \/ After')
  <2>1. history.prints = 0 /\ stats_written' = stats_written /\ t \in Reporting
    BY <1>3 DEF Ends
  <2>2. ~Before /\ ~After
    BY <2>1 DEF Before, After
  <2>3. stats_written /\ During
    BY <1>c, <2>1, <2>2, Zenon
  <2>4. After'
    BY <1>3, <2>3 DEF Ends, During, After
  <2> QED
    BY <2>1, <2>3, <2>4, Zenon
<1>4. ~(\E t \in Threads : Asks(t) /\ history'.prints = history.prints + 1)
  BY <1>b
<1>5. CASE Asks(Main) /\ history' = history /\ exits' = exits + 1
  <2>1. history.prints = 0 /\ stats_written'
    BY <1>5 DEF Asks
  <2>2. CASE stats_written
    <3>1. During \/ After
      BY <1>c, <2>1, <2>2, Zenon
    <3>2. Reporting' = Reporting
      BY <1>5, <2>2, Zenon DEF Asks
    <3>3. During' \/ After'
      BY <1>5, <1>b, <3>1, <3>2 DEF During, After
    <3> QED
      BY <2>1, <3>3, Zenon
  <2>3. CASE ~stats_written
    <3>1. Before
      BY <1>c, <2>1, <2>3, Zenon
    <3>2. Reporting' = Reporting \cup {Main}
      BY <1>5, <2>3, Zenon DEF Asks
    <3>3. During'
      BY <1>5, <3>1, <3>2 DEF Before, During
    <3> QED
      BY <2>1, <3>3, Zenon
  <2> QED
    BY <2>2, <2>3
<1> QED
  BY <1>1, <1>2, <1>3, <1>4, <1>5, ReportSteps

\* The account of reports is what the property says of them.
LEMMA ReportsBounded == TypeOK /\ LockInv /\ CountInv /\ ExitInv => ReportedOnce
<1> SUFFICES ASSUME TypeOK, LockInv, CountInv, ExitInv PROVE ReportedOnce
  OBVIOUS
<1>1. history.reports <= 1 + history.clears
  <2>1. /\ history.reports \in Nat /\ history.clears \in Nat
        /\ history.reports + Cardinality(Reporting) + Allowed <= 1 + history.clears
    BY HistoryParts DEF TypeOK, CountInv
  <2>2. Cardinality(Reporting) \in Nat
    BY ThreadsAssumption, FS_Subset, FS_CardinalityType DEF Reporting
  <2>3. Allowed = 0 \/ Allowed = 1
    BY Zenon DEF Allowed
  <2> QED
    BY <2>1, <2>2, <2>3
<1>2. ASSUME Exited, history.resets = 0, history.prints = 0 PROVE history.reports = 1
  <2>1. Main \notin Reporting /\ exits # 0
    BY <1>2, ThreadsAssumption DEF Exited, Reporting, LockInv, HoldsFirst
  <2>2. ~Before /\ ~During
    BY <2>1 DEF Before, During
  <2>3. After
    BY <1>2, <2>2, Zenon DEF ExitInv
  <2> QED
    BY <2>3 DEF After
<1> QED
  BY <1>1, <1>2, Zenon DEF ReportedOnce

-----------------------------------------------------------------------------
(* Snapshots                                                               *)

\* What has been seen of the sets by a thread at a place with these two in its frame.
View(place, registered, executed) ==
    IF place \in HoldsSecond THEN {[registered |-> registered, executed |-> executed]} ELSE {}

\* What a thread has seen is what its frame holds, once it has read both sets.
LEMMA SeenView ==
    ASSUME NEW t \in Threads
    PROVE  Asked[t] = frame[t].call /\ Seen[t] = View(pc[t], frame[t].registered, frame[t].executed)
BY DEF Asked, Seen, View, HasRead, HoldsSecond

\* How a step of one thread looks from outside.
LEMMA SeenBecomes ==
    ASSUME NEW t \in Threads, NEW to, NEW call, NEW registered, NEW executed, NEW due,
           Becomes(t, to, call, registered, executed, due)
    PROVE  /\ Asked' = [Asked EXCEPT ![t] = call]
           /\ Seen' = [Seen EXCEPT ![t] = View(to, registered, executed)]
<1>1. \A u \in Threads : Asked'[u] = IF u = t THEN call ELSE Asked[u]
  BY DEF Asked, Becomes
<1>2. \A u \in Threads : Seen'[u] = IF u = t THEN View(to, registered, executed) ELSE Seen[u]
  BY DEF Seen, View, HasRead, HoldsSecond, Becomes
<1>3. Asked' \in [Threads -> {Asked'[u] : u \in Threads}]
      /\ Seen' \in [Threads -> {Seen'[u] : u \in Threads}]
      /\ DOMAIN Asked = Threads /\ DOMAIN Seen = Threads
  BY DEF Asked, Seen
<1> QED
  BY <1>1, <1>2, <1>3

\* A step of a thread that holds no mutex is not seen.
LEMMA SeenApart ==
    ASSUME NEW t \in Threads, Apart(t) PROVE Asked' = Asked /\ Seen' = Seen
<1>1. frame' = frame /\ \A u \in Threads : HasRead(u)' <=> HasRead(u)
  BY DEF Apart, HasRead, Outside, Resetting
<1> QED
  BY <1>1 DEF Asked, Seen

\* At the start nothing is registered, asked or seen.
LEMMA SnapshotsInit == Init => Snapshots!Init
<1> SUFFICES ASSUME Init PROVE Snapshots!Init
  OBVIOUS
<1>1. \A t \in Threads : pc[t] = "app" /\ frame[t].call = "none"
  BY DEF Init, NoFrame
<1>2. Asked = [t \in Threads |-> "none"] /\ Seen = [t \in Threads |-> {}]
  BY <1>1 DEF Asked, Seen, HasRead
<1> QED
  BY <1>2 DEF Init, Snapshots!Init

\* LockSecond is where the sets are seen.  Everything else in front of it and after
\* it is asking, answering, or not seen at all.
LEMMA SnapshotsStep ==
    ASSUME TypeOK, LockInv, FrameInv, [Next]_vars
    PROVE  [Snapshots!Next]_(Snapshots!vars)
<1>a. ASSUME UNCHANGED <<sets, stats_written, Asked, Seen>> PROVE UNCHANGED Snapshots!vars
  BY <1>a DEF sets, Snapshots!vars
<1>b. ASSUME NEW t \in Threads, WriteStats(t) PROVE [Snapshots!Next]_(Snapshots!vars)
  <2>1. UNCHANGED sets /\ stats_written'
    BY <1>b DEF WriteStats, Swap
  <2>2. CASE stats_written
    <3>1. Asked' = Asked /\ Seen' = Seen
      BY <1>b, <2>2, ApartSteps, SeenApart
    <3>2. stats_written' = stats_written
      BY <1>b, <2>2, Zenon DEF WriteStats, TypeOK
    <3> QED
      BY <1>a, <2>1, <3>1, <3>2
  <2>3. CASE ~stats_written
    <3>1. Becomes(t, "first", "report", frame[t].registered, frame[t].executed, history.tracked)
      BY <1>b, <2>3, Effects
    <3>2. pc[t] = "app" /\ frame[t].call = "none"
      BY <1>b DEF WriteStats, Swap, Go, LockInv, HoldsFirst
    <3>3. Seen[t] = {} /\ Asked[t] = "none"
      BY <3>2, SeenView DEF View, HoldsSecond
    <3>4. Asked' = [Asked EXCEPT ![t] = "report"] /\ Seen' = [Seen EXCEPT ![t] = {}]
      BY <3>1, SeenBecomes DEF View, HoldsSecond
    <3>5. Seen' = Seen
      BY <3>3, <3>4 DEF Seen
    <3>6. stats_written' = TRUE
      BY <1>b DEF WriteStats
    <3>7. Snapshots!AskReport(t)
      BY <2>1, <2>3, <3>3, <3>4, <3>5, <3>6, Zenon DEF Snapshots!AskReport, sets
    <3> QED
      BY <3>7 DEF Snapshots!Next
  <2> QED
    BY <2>2, <2>3
<1>1. ASSUME NEW t \in Threads, NEW line \in Lines, register_unsafe_line(t, line)
      PROVE  Snapshots!Next
  <2>1. Asked' = Asked /\ Seen' = Seen
    BY <1>1, ApartSteps, SeenApart
  <2>2. Snapshots!Register(line)
    BY <1>1, <2>1 DEF register_unsafe_line, Snapshots!Register, flags
  <2> QED
    BY <2>2 DEF Snapshots!Next
<1>2. ASSUME NEW t \in Threads, NEW line \in Lines, track_unsafe_line_execution(t, line)
      PROVE  Snapshots!Next
  <2>1. Asked' = Asked /\ Seen' = Seen
    BY <1>2, ApartSteps, SeenApart
  <2>2. Snapshots!Execute(line)
    BY <1>2, <2>1 DEF track_unsafe_line_execution, Runs, Snapshots!Execute, flags
  <2> QED
    BY <2>2 DEF Snapshots!Next
<1>3. ASSUME NEW t \in Threads, get_unsafe_coverage_percentage(t) PROVE Snapshots!Next
  <2>1. Becomes(t, "first", "percentage", frame[t].registered, frame[t].executed, frame[t].due)
    BY <1>3, Effects
  <2>2. pc[t] = "app" /\ frame[t].call = "none" /\ UNCHANGED <<sets, stats_written>>
    BY <1>3 DEF get_unsafe_coverage_percentage, Go, LockInv, HoldsFirst, flags
  <2>3. Seen[t] = {} /\ Asked[t] = "none"
    BY <2>2, SeenView DEF View, HoldsSecond
  <2>4. Asked' = [Asked EXCEPT ![t] = "percentage"] /\ Seen' = [Seen EXCEPT ![t] = {}]
    BY <2>1, SeenBecomes DEF View, HoldsSecond
  <2>5. Seen' = Seen
    BY <2>3, <2>4 DEF Seen
  <2>6. Snapshots!AskPercentage(t)
    BY <2>2, <2>3, <2>4, <2>5 DEF Snapshots!AskPercentage, sets
  <2> QED
    BY <2>6 DEF Snapshots!Next
<1>4. ASSUME NEW t \in Threads, print_unsafe_coverage_stats(t)
      PROVE  [Snapshots!Next]_(Snapshots!vars)
  BY <1>4, <1>b DEF print_unsafe_coverage_stats
<1>5. ASSUME NEW t \in Threads, LockFirst(t) PROVE UNCHANGED Snapshots!vars
  <2>1. Becomes(t, "second", frame[t].call, registered_lines, frame[t].executed, frame[t].due)
    BY <1>5, Effects
  <2>2. pc[t] = "first" /\ UNCHANGED <<sets, stats_written>>
    BY <1>5 DEF LockFirst, ReadRegistered, Go, flags
  <2>3. Seen[t] = {} /\ Asked[t] = frame[t].call
    BY <2>2, SeenView DEF View, HoldsSecond
  <2>4. Asked' = [Asked EXCEPT ![t] = frame[t].call] /\ Seen' = [Seen EXCEPT ![t] = {}]
    BY <2>1, SeenBecomes DEF View, HoldsSecond
  <2>5. Asked' = Asked /\ Seen' = Seen
    BY <2>3, <2>4 DEF Asked, Seen
  <2> QED
    BY <1>a, <2>2, <2>5
<1>6. ASSUME NEW t \in Threads, LockSecond(t) PROVE Snapshots!Next
  <2>1. Becomes(t, "both", frame[t].call, frame[t].registered, executed_lines, frame[t].due)
    BY <1>6, Effects
  <2>2. pc[t] = "second" /\ UNCHANGED <<sets, stats_written>>
    BY <1>6 DEF LockSecond, Go, flags
  <2>3. Seen[t] = {} /\ Asked[t] = frame[t].call
    BY <2>2, SeenView DEF View, HoldsSecond
  <2>4. frame[t].call # "none" /\ frame[t].registered = registered_lines
    BY <2>2 DEF LockInv, FrameInv, HoldsFirst
  <2>5. Asked' = [Asked EXCEPT ![t] = frame[t].call]
        /\ Seen' = [Seen EXCEPT ![t] = View("both", frame[t].registered, executed_lines)]
    BY <2>1, SeenBecomes
  <2>6. View("both", frame[t].registered, executed_lines) = {Snapshots!Now}
    BY <2>4 DEF View, HoldsSecond, Snapshots!Now
  <2>7. Asked' = Asked
    BY <2>3, <2>5 DEF Asked
  <2>8. Snapshots!Look(t)
    BY <2>2, <2>3, <2>4, <2>5, <2>6, <2>7 DEF Snapshots!Look, sets
  <2> QED
    BY <2>8 DEF Snapshots!Next
<1>7. ASSUME NEW t \in Threads, ReturnPercentage(t) \/ WriteDetailedStats(t) PROVE Snapshots!Next
  <2>1. Becomes(t, "app", "none", {}, {}, {})
    BY <1>7, Effects DEF ReturnPercentage, WriteDetailedStats
  <2>2. pc[t] \in HoldsSecond /\ UNCHANGED <<sets, stats_written>>
    BY <1>7 DEF ReturnPercentage, WriteDetailedStats, Return, Go, HoldsSecond, flags
  <2>3. frame[t].registered = registered_lines /\ frame[t].executed = executed_lines
    BY <2>2 DEF FrameInv, HoldsFirst, HoldsSecond
  <2>4. Seen[t] = {Snapshots!Now}
    BY <2>2, <2>3, SeenView DEF View, Snapshots!Now
  <2>5. Asked' = [Asked EXCEPT ![t] = "none"] /\ Seen' = [Seen EXCEPT ![t] = {}]
    BY <2>1, SeenBecomes DEF View, HoldsSecond
  <2>6. Snapshots!Answer(t)
    BY <2>2, <2>4, <2>5 DEF Snapshots!Answer, sets
  <2> QED
    BY <2>6 DEF Snapshots!Next
<1>8. ASSUME NEW t \in Threads, NumberRun(t) PROVE UNCHANGED Snapshots!vars
  <2>1. Becomes(t, "append", frame[t].call, frame[t].registered, frame[t].executed, frame[t].due)
    BY <1>8, Effects
  <2>2. pc[t] = "both" /\ UNCHANGED <<sets, stats_written>>
    BY <1>8 DEF NumberRun, Go
  <2>3. Asked[t] = frame[t].call
        /\ Seen[t] = View("append", frame[t].registered, frame[t].executed)
    BY <2>2, SeenView DEF View, HoldsSecond
  <2>4. Asked' = [Asked EXCEPT ![t] = frame[t].call]
        /\ Seen' = [Seen EXCEPT ![t] = View("append", frame[t].registered, frame[t].executed)]
    BY <2>1, SeenBecomes
  <2>5. Asked' = Asked /\ Seen' = Seen
    BY <2>3, <2>4 DEF Asked, Seen
  <2> QED
    BY <1>a, <2>2, <2>5
<1>9. ASSUME NEW t \in Threads,
             ResetRegistered(t) \/ ResetExecuted(t) \/ ResetFlag(t) \/ ResetCounter(t)
      PROVE  [Snapshots!Next]_(Snapshots!vars)
  <2>1. Asked' = Asked /\ Seen' = Seen
    BY <1>9, ApartSteps, SeenApart
  <2>2. ResetRegistered(t) => Snapshots!ForgetRegistered
    BY <2>1 DEF ResetRegistered, Snapshots!ForgetRegistered, flags
  <2>3. ResetExecuted(t) => Snapshots!ForgetExecuted
    BY <2>1 DEF ResetExecuted, Snapshots!ForgetExecuted, flags
  <2>4. ResetFlag(t) => Snapshots!ForgetWritten
    BY <2>1 DEF ResetFlag, Snapshots!ForgetWritten, sets
  <2>5. ResetCounter(t) => UNCHANGED Snapshots!vars
    BY <1>a, <2>1 DEF ResetCounter
  <2> QED
    BY <1>9, <2>2, <2>3, <2>4, <2>5 DEF Snapshots!Next
<1>10. CASE dump_coverage_at_exit
  BY <1>10, <1>b, ThreadsAssumption DEF dump_coverage_at_exit
<1>11. CASE Stopped \/ UNCHANGED vars
  <2>1. UNCHANGED <<sets, stats_written, pc, frame>>
    BY <1>11 DEF Stopped, vars, flags
  <2>2. Asked' = Asked /\ Seen' = Seen
    BY <2>1 DEF Asked, Seen, HasRead
  <2> QED
    BY <1>a, <2>1, <2>2
<1> QED
  BY <1>1, <1>2, <1>3, <1>4, <1>5, <1>6, <1>7, <1>8, <1>9, <1>10, <1>11 DEF Next

-----------------------------------------------------------------------------
(* The theorems                                                            *)

IInv == TypeOK /\ LockInv /\ FrameInv /\ DataInv /\ CountInv /\ ExitInv

\* All parts of the invariant hold in every reachable state.
LEMMA Inductive == Spec => []IInv
<1>1. Init => IInv
  BY TypeInit, LockInit, FrameInit, DataInit, CountInit, ExitInit DEF IInv
<1>2. IInv /\ [Next]_vars => IInv'
  BY TypeStep, LockStep, FrameStep, DataStep, CountStep, ExitStep DEF IInv
<1> QED
  BY <1>1, <1>2, PTL DEF Spec

\* The sets, mutexes, counters and frames of the coverage tracker keep their types.
THEOREM TypeCorrect == Spec => []TypeOK
BY Inductive, PTL DEF IInv

\* write_stats, the percentage and reset never wait for one another's mutex, since
\* the two functions that take both take them in the same order.
THEOREM NoDeadlock == Spec => []NoCircularWait
<1>1. IInv => NoCircularWait
  BY LockOrder DEF IInv
<1> QED
  BY <1>1, Inductive, PTL

\* The coverage that write_stats and the percentage compute is at most 100 percent
\* until somebody calls reset.
THEOREM CoverageBounded == Spec => []CoverageWithin100
<1>1. IInv => CoverageWithin100
  BY DataBounds DEF IInv
<1> QED
  BY <1>1, Inductive, PTL

\* What write_stats reads has every line that was tracked before it was called, and
\* only tracked ones.
THEOREM ReportsComplete == Spec => []ReportComplete
<1>1. IInv => ReportComplete
  BY DataComplete DEF IInv
<1> QED
  BY <1>1, Inductive, PTL

\* stats_written admits one report for each time it has been cleared, and the
\* destructors see to it that there is one.
THEOREM ReportsOnce == Spec => []ReportedOnce
<1>1. IInv => ReportedOnce
  BY ReportsBounded DEF IInv
<1> QED
  BY <1>1, Inductive, PTL

\* The percentage and write_stats give back a snapshot of the two sets, taken at one
\* moment between their call and their return and true until then, although reset and
\* the hooks run meanwhile.
THEOREM SnapshotsTaken == Spec => ImplementsSnapshots
<1>1. IInv /\ [Next]_vars => [Snapshots!Next]_(Snapshots!vars)
  BY SnapshotsStep DEF IInv
<1> QED
  BY SnapshotsInit, <1>1, Inductive, PTL DEF Spec, ImplementsSnapshots, Snapshots!Spec
=============================================================================
