---------------------------- MODULE UnsafeCounter ----------------------------
(***************************************************************************)
(* The counter of unsafe instructions and functions                        *)
(* (unsafe_perf_source/src/unsafe_counter.rs).  The constructors of the    *)
(* instrumented modules register the table of their functions; hooks at    *)
(* function entries and in basic blocks add to atomic counters; the        *)
(* destructors at exit write one report, while other threads may still     *)
(* run.                                                                    *)
(*                                                                         *)
(* One action is one access to an atomic; the accesses are sequentially    *)
(* consistent, which the read-modify-write instructions of x86-64 are.  A  *)
(* basic block has one instruction, safe or unsafe, and the six counters   *)
(* of the kinds of unsafe instructions are one.  The report keeps the terms*)
(* of the sums that it prints.                                             *)
(***************************************************************************)
EXTENDS Integers, Sequences, FiniteSets

CONSTANTS
    Threads,
    Main,           \* runs the constructors and destructors
    MaxFunctions,   \* MAX_FUNCTIONS
    WordBits,       \* bits of a word of AtomicBitset (64)
    Tables,         \* tables a module may register: for each function, is it unsafe
    MaxModules,     \* bound: modules with a constructor
    MaxEvents       \* bound: calls and blocks executed

ASSUME ThreadsAssumption == IsFiniteSet(Threads) /\ Main \in Threads
ASSUME SizesAssumption == {MaxFunctions, WordBits} \subseteq Nat \ {0}
ASSUME BoundsAssumption == {MaxModules, MaxEvents} \subseteq Nat
ASSUME TablesAssumption == Tables \subseteq Seq(BOOLEAN)

VARIABLES
    metadata, metadata_count, metadata_initialized,
    function_calls, functions_seen,
    total_instructions, total_unsafe_instructions,
    unsafe_kinds,   \* unsafe_loads, ..., unsafe_others
    stats_written,
    pc,
    event,          \* the call or block the thread records
    modules,        \* constructors that have run
    dumps,          \* calls of dump_stats
    index,          \* the loop variable of dump_stats
    report, written,
    events,         \* history: how many calls and blocks have begun
    started,        \* history: which ones
    before          \* history: those that had ended when dump_stats began

table == <<metadata, metadata_count, metadata_initialized>>
instructions == <<total_instructions, total_unsafe_instructions, unsafe_kinds>>
functions == <<function_calls, functions_seen>>
exit == <<stats_written, dumps, index, report, written, before>>
history == <<events, started>>
vars == <<table, functions, instructions, exit, pc, event, modules, history>>

Ids == 0 .. MaxFunctions - 1
Words == 0 .. (MaxFunctions + WordBits - 1) \div WordBits - 1

NoWork == [calls |-> [f \in Ids |-> 0], total |-> 0, unsafe |-> 0]
NoReport == [calls |-> [f \in Ids |-> 0], total |-> 0, unsafe |-> 0, kinds |-> 0,
             seen |-> {}, unsafe_seen |-> {}]
NoEvent == [id |-> 0, unsafe |-> FALSE]

Init ==
    /\ metadata = << >> /\ metadata_count = 0 /\ metadata_initialized = FALSE
    /\ function_calls = [f \in Ids |-> 0] /\ functions_seen = [w \in Words |-> {}]
    /\ total_instructions = 0 /\ total_unsafe_instructions = 0 /\ unsafe_kinds = 0
    /\ stats_written = FALSE
    /\ pc = [t \in Threads |-> IF t = Main THEN "constructors" ELSE "app"]
    /\ event = [t \in Threads |-> NoEvent]
    /\ modules = 0 /\ dumps = 0 /\ index = 0
    /\ report = NoReport /\ written = 0
    /\ events = 0 /\ started = NoWork /\ before = NoWork

Go(t, from, to) ==
    /\ pc[t] = from
    /\ pc[Main] # "exited"
    /\ pc' = [pc EXCEPT ![t] = to]
-----------------------------------------------------------------------------
(* Constructors                                                            *)

\* A table that is too long still counts as the one initialization.
InitMetadata ==
    /\ Go(Main, "constructors", "constructors")
    /\ modules < MaxModules
    /\ modules' = modules + 1
    /\ metadata_initialized' = TRUE
    /\ \E functions_of_module \in Tables :
         IF metadata_initialized \/ Len(functions_of_module) > MaxFunctions
         THEN UNCHANGED <<metadata, metadata_count>>
         ELSE /\ metadata' = functions_of_module
              /\ metadata_count' = Len(functions_of_module)
    /\ UNCHANGED <<functions, instructions, exit, event, history>>

StartMain ==
    /\ Go(Main, "constructors", "app")
    /\ UNCHANGED <<table, functions, instructions, exit, event, modules, history>>
-----------------------------------------------------------------------------
(* The hooks                                                               *)

Begin(t, to) ==
    /\ Go(t, "app", to)
    /\ events < MaxEvents
    /\ events' = events + 1

\* A call whose id does not fit in the arrays returns at once.
EnterFunction(t) ==
    /\ Begin(t, "call 1")
    /\ \E f \in Ids :
         /\ event' = [event EXCEPT ![t].id = f]
         /\ started' = [started EXCEPT !.calls[f] = @ + 1]
    /\ UNCHANGED <<table, functions, instructions, exit, modules>>

CountCall(t, from, to) ==
    /\ Go(t, from, to)
    /\ function_calls' = [function_calls EXCEPT ![event[t].id] = @ + 1]
    /\ UNCHANGED <<table, functions_seen, instructions, exit, event, modules, history>>

SetWord(f, bits) == functions_seen' = [functions_seen EXCEPT ![f \div WordBits] = bits]
Word(f) == functions_seen[f \div WordBits]

\* Mutants: the word is stored, its other bits are lost; bits are numbered from 1.
StoreBit(f) == SetWord(f, {f % WordBits})
SetBitFrom1(f) == SetWord(f, Word(f) \cup {(f % WordBits) + 1})
SetBit(f) == SetWord(f, Word(f) \cup {f % WordBits})

IsSet(f) == f % WordBits \in Word(f)

MarkSeen(t, from, to) ==
    /\ Go(t, from, to)
    /\ SetBit(event[t].id)
    /\ UNCHANGED <<table, function_calls, instructions, exit, event, modules, history>>

\* Mutant: the bit is set before the call is counted.
RecordSwapped(t) == MarkSeen(t, "call 1", "call 2") \/ CountCall(t, "call 2", "app")

RecordFunction(t) == CountCall(t, "call 1", "call 2") \/ MarkSeen(t, "call 2", "app")

EnterBlock(t) ==
    /\ Begin(t, "block 1")
    /\ \E unsafe \in BOOLEAN :
         /\ event' = [event EXCEPT ![t].unsafe = unsafe]
         /\ started' = [started EXCEPT !.total = @ + 1, !.unsafe = @ + (IF unsafe THEN 1 ELSE 0)]
    /\ UNCHANGED <<table, functions, instructions, exit, modules>>

CountInstruction(t) ==
    /\ Go(t, "block 1", IF event[t].unsafe THEN "block 2" ELSE "app")
    /\ total_instructions' = total_instructions + 1
    /\ UNCHANGED <<table, functions, total_unsafe_instructions, unsafe_kinds, exit, event,
                   modules, history>>

CountUnsafe(t) ==
    /\ Go(t, "block 2", "block 3")
    /\ total_unsafe_instructions' = total_unsafe_instructions + 1
    /\ UNCHANGED <<table, functions, total_instructions, unsafe_kinds, exit, event,
                   modules, history>>

CountKind(t) ==
    /\ Go(t, "block 3", "app")
    /\ unsafe_kinds' = unsafe_kinds + 1
    /\ UNCHANGED <<table, functions, total_instructions, total_unsafe_instructions, exit,
                   event, modules, history>>
-----------------------------------------------------------------------------
(* The report: a module destructor and a destructor of the library both ask *)
(* for it.                                                                  *)

\* What had been recorded completely when the report began.
Ended ==
    LET Pending(S) == Cardinality({t \in Threads : S[t]})
        InCall(f) == [t \in Threads |-> pc[t] \in {"call 1", "call 2"} /\ event[t].id = f]
        InBlock == [t \in Threads |-> pc[t] \in {"block 1", "block 2", "block 3"}]
        InUnsafe == [t \in Threads |-> InBlock[t] /\ event[t].unsafe]
    IN  [calls |-> [f \in Ids |-> started.calls[f] - Pending(InCall(f))],
         total |-> started.total - Pending(InBlock),
         unsafe |-> started.unsafe - Pending(InUnsafe)]

Dump ==
    /\ dumps < 2
    /\ dumps' = dumps + 1
    /\ IF stats_written \/ ~metadata_initialized \/ metadata_count = 0
       THEN Go(Main, "app", "app") /\ UNCHANGED <<index, report, before>>
       ELSE /\ Go(Main, "app", "total")
            /\ index' = 0
            /\ report' = NoReport
            /\ before' = Ended
    /\ UNCHANGED <<table, functions, instructions, written, event, modules, history>>

\* Mutant: the flag is looked at and not set.
DumpUnflagged == Dump /\ UNCHANGED stats_written
DumpStats == Dump /\ stats_written' = TRUE

Read(from, to, new_report) ==
    /\ Go(Main, from, to)
    /\ report' = new_report
    /\ UNCHANGED <<table, functions, instructions, stats_written, dumps, index, written,
                   before, event, modules, history>>

ReadTotal == Read("total", "unsafe", [report EXCEPT !.total = total_instructions])
ReadUnsafe == Read("unsafe", "kinds", [report EXCEPT !.unsafe = total_unsafe_instructions])
ReadKinds == Read("kinds", "function", [report EXCEPT !.kinds = unsafe_kinds])

PassFunction ==
    /\ Go(Main, "function", "function")
    /\ index < metadata_count
    /\ ~IsSet(index)
    /\ index' = index + 1
    /\ UNCHANGED <<table, functions, instructions, stats_written, dumps, report, written,
                   before, event, modules, history>>

SeeFunction ==
    /\ index < metadata_count
    /\ IsSet(index)
    /\ Read("function", "calls",
            [report EXCEPT !.seen = @ \cup {index},
                           !.unsafe_seen = @ \cup (IF metadata[index + 1] THEN {index} ELSE {})])

ReadCalls ==
    /\ Go(Main, "calls", "function")
    /\ report' = [report EXCEPT !.calls[index] = function_calls[index]]
    /\ index' = index + 1
    /\ UNCHANGED <<table, functions, instructions, stats_written, dumps, written, before,
                   event, modules, history>>

WriteAfter(length) ==
    /\ Go(Main, "function", "app")
    /\ index >= length
    /\ written' = written + 1
    /\ UNCHANGED <<table, functions, instructions, stats_written, dumps, index, report,
                   before, event, modules, history>>

\* Mutant: the last function of the table is left out.
WriteEarly == WriteAfter(metadata_count - 1)
WriteReport == WriteAfter(metadata_count)

Exit ==
    /\ Go(Main, "app", "exited")
    /\ dumps = 2
    /\ UNCHANGED <<table, functions, instructions, exit, event, modules, history>>

Stopped == pc[Main] = "exited" /\ UNCHANGED vars

Next ==
    \/ \E t \in Threads :
         \/ EnterFunction(t) \/ RecordFunction(t)
         \/ EnterBlock(t) \/ CountInstruction(t) \/ CountUnsafe(t) \/ CountKind(t)
    \/ InitMetadata \/ StartMain
    \/ DumpStats \/ ReadTotal \/ ReadUnsafe \/ ReadKinds
    \/ PassFunction \/ SeeFunction \/ ReadCalls \/ WriteReport \/ Exit \/ Stopped

Spec == Init /\ [][Next]_vars
-----------------------------------------------------------------------------
(* Properties                                                              *)

Work == [calls : [Ids -> Nat], total : Nat, unsafe : Nat]

\* The table, the counters, the bitset and the report keep their types.
TypeOK ==
    /\ metadata \in Seq(BOOLEAN) /\ Len(metadata) = metadata_count
    /\ metadata_count \in 0 .. MaxFunctions
    /\ function_calls \in [Ids -> Nat]
    /\ functions_seen \in [Words -> SUBSET (0 .. WordBits - 1)]
    /\ {total_instructions, total_unsafe_instructions, unsafe_kinds} \subseteq Nat
    /\ {metadata_initialized, stats_written} \subseteq BOOLEAN
    /\ event \in [Threads -> [id : Ids, unsafe : BOOLEAN]]
    /\ index \in 0 .. metadata_count
    /\ report \in [calls : [Ids -> Nat], total : Nat, unsafe : Nat, kinds : Nat,
                   seen : SUBSET Ids, unsafe_seen : SUBSET Ids]
    /\ started \in Work /\ before \in Work

\* A function's bit is set exactly when a call of it has been recorded: no call
\* of another function whose bit is in the same word clears it or sets it.
SeenExact ==
    \A f \in Ids :
      /\ IsSet(f) => function_calls[f] > 0
      /\ function_calls[f] > 0 =>
           IsSet(f) \/ \E t \in Threads : pc[t] = "call 2" /\ event[t].id = f

Reported == written > 0
Listed == 0 .. metadata_count - 1

\* The report counts all that was recorded before dump_stats began and nothing
\* that had not begun when it ended, however the calls of the other threads
\* interleave with the loop over the functions.
ReportBounds ==
    Reported =>
      /\ \A f \in Listed : before.calls[f] <= report.calls[f] /\ report.calls[f] <= started.calls[f]
      /\ \A f \in Listed : before.calls[f] > 0 => f \in report.seen
      /\ before.total <= report.total /\ report.total <= started.total
      /\ before.unsafe <= report.unsafe /\ report.unsafe <= started.unsafe
      /\ before.unsafe <= report.kinds /\ report.kinds <= started.unsafe

\* "Two atomic operations: increment counter and set bit": a function that the
\* report lists as executed has a call in the report.
SeenIsCalled == pc[Main] # "calls" => \A f \in report.seen : report.calls[f] > 0

\* "Ensure stats are written only once", and they are written if there is a table.
ReportedOnce ==
    /\ written <= 1
    /\ pc[Main] = "exited" /\ metadata_count > 0 => written = 1
=============================================================================
