------------------------- MODULE UnsafeCounterProofs -------------------------
(***************************************************************************)
(* Proofs, for any number of threads and functions, any word size and any  *)
(* tables, that the bitset and the counters agree and that the one report  *)
(* lies between what had been recorded when it began and what has begun.   *)
(*                                                                         *)
(* What a thread has begun is in the counters or about to be: CallInv and  *)
(* BlockInv add to each counter the threads that are still on their way to *)
(* it.  What had been recorded completely when the report began is compared*)
(* with the counters as they are, which only grow (BeforeInv), and the     *)
(* counters with what has been read of them (ReportInv, LoopInv).          *)
(***************************************************************************)
EXTENDS UnsafeCounter, FiniteSetTheorems, TLAPS

-----------------------------------------------------------------------------
(* The inductive invariant                                                 *)

CallPlaces == {"call 1", "call 2"}
BlockPlaces == {"block 1", "block 2", "block 3"}
Reporting == {"total", "unsafe", "kinds", "function", "calls"}
Places == {"constructors", "app", "exited"} \cup CallPlaces \cup BlockPlaces \cup Reporting

Reports == [calls : [Ids -> Nat], total : Nat, unsafe : Nat, kinds : Nat,
            seen : SUBSET Ids, unsafe_seen : SUBSET Ids]

Events == [id : Ids, unsafe : BOOLEAN]

\* The types of TypeOK, one by one and with the places of the threads; what had ended
\* when the report began is BeforeInv's.
TypeInv ==
    /\ metadata \in Seq(BOOLEAN) /\ Len(metadata) = metadata_count
    /\ metadata_count \in 0 .. MaxFunctions
    /\ function_calls \in [Ids -> Nat]
    /\ functions_seen \in [Words -> SUBSET (0 .. WordBits - 1)]
    /\ total_instructions \in Nat /\ total_unsafe_instructions \in Nat /\ unsafe_kinds \in Nat
    /\ metadata_initialized \in BOOLEAN /\ stats_written \in BOOLEAN
    /\ pc \in [Threads -> Places]
    /\ event \in [Threads -> Events]
    /\ index \in 0 .. metadata_count
    /\ report \in Reports
    /\ started \in Work

\* Threads on their way through a call of f, through a block, and through an unsafe
\* block.
Calling(f, places) == {t \in Threads : pc[t] \in places /\ event[t].id = f}
Executing(places) == {t \in Threads : pc[t] \in places}
Unsafe(places) == {t \in Threads : pc[t] \in places /\ event[t].unsafe}

\* The functions whose bit is set.
Marked == {f \in Ids : IsSet(f)}

\* A call that has begun is counted or about to be, and one that is counted has set
\* the bit or is about to.
CallInv ==
    \A f \in Ids :
      /\ function_calls[f] + Cardinality(Calling(f, {"call 1"})) = started.calls[f]
      /\ Cardinality(Calling(f, {"call 2"})) <= function_calls[f]
      /\ Cardinality(Calling(f, {"call 2"})) < function_calls[f] => f \in Marked
      /\ f \in Marked => function_calls[f] > 0

\* The same for the blocks.
BlockInv ==
    /\ total_instructions + Cardinality(Executing({"block 1"})) = started.total
    /\ Cardinality(Executing({"block 2", "block 3"})) <= total_instructions
    /\ total_unsafe_instructions + Cardinality(Unsafe({"block 1", "block 2"})) = started.unsafe
    /\ unsafe_kinds + Cardinality(Unsafe(BlockPlaces)) = started.unsafe
    /\ \A t \in Threads : pc[t] \in {"block 2", "block 3"} => event[t].unsafe

\* What had ended when the report began has been counted.
BeforeInv ==
    /\ before \in Work
    /\ \A f \in Ids :
         before.calls[f] <= function_calls[f] /\ (before.calls[f] > 0 => f \in Marked)
    /\ before.total <= total_instructions
    /\ before.unsafe <= total_unsafe_instructions /\ before.unsafe <= unsafe_kinds

\* The part of the report that has been read when main is at one of the places.
HasRead(places) == pc[Main] \in places \/ Reported

\* What has been read of the counters lies between what had ended before and what
\* they have become.
ReportInv ==
    /\ \A f \in Ids : report.calls[f] <= function_calls[f]
    /\ report.total <= total_instructions
    /\ report.unsafe <= total_unsafe_instructions /\ report.kinds <= unsafe_kinds
    /\ HasRead({"unsafe", "kinds", "function", "calls"}) => before.total <= report.total
    /\ HasRead({"kinds", "function", "calls"}) => before.unsafe <= report.unsafe
    /\ HasRead({"function", "calls"}) => before.unsafe <= report.kinds

\* The same for the functions that the loop has passed.
LoopInv ==
    /\ pc[Main] \in {"total", "unsafe", "kinds"} => index = 0
    /\ HasRead({"function", "calls"}) =>
         \A f \in 0 .. index - 1 :
           /\ before.calls[f] <= report.calls[f]
           /\ before.calls[f] > 0 => f \in report.seen
    /\ \A f \in report.seen :
         report.calls[f] > 0 \/ (pc[Main] = "calls" /\ f = index)
    /\ pc[Main] = "calls" => index < metadata_count /\ index \in report.seen /\ index \in Marked

\* The first dump_stats sets the flag, and only an initialization fills the table.
FlagInv ==
    /\ stats_written <=> dumps > 0
    /\ metadata_count > 0 => metadata_initialized

\* That makes the report one: it is under way or written once the first dump_stats has
\* begun, if there is a table.
OnceInv ==
    /\ written \in 0 .. 1 /\ dumps \in 0 .. 2
    /\ pc[Main] = "constructors" => dumps = 0
    /\ pc[Main] = "exited" => dumps = 2
    /\ pc[Main] \in Reporting => written = 0
    /\ written = 1 => index = metadata_count
    /\ dumps = 0 => written = 0 /\ pc[Main] \notin Reporting
    /\ dumps > 0 /\ metadata_count > 0 /\ pc[Main] \notin Reporting => written = 1

IInv ==
    TypeInv /\ CallInv /\ BlockInv /\ BeforeInv /\ ReportInv /\ LoopInv /\ FlagInv /\ OnceInv
-----------------------------------------------------------------------------
(* Bits and words                                                          *)

\* A function has a bit of a word of the bitset, and no other function has it.
LEMMA BitOfFunction ==
    /\ \A f \in Ids : f \div WordBits \in Words /\ f % WordBits \in 0 .. WordBits - 1
    /\ \A f, g \in Ids :
         f \div WordBits = g \div WordBits /\ f % WordBits = g % WordBits => f = g
<1>1. MaxFunctions \in Nat \ {0} /\ WordBits \in Nat \ {0}
  BY SizesAssumption
<1>2. \A f \in Ids : f \div WordBits \in Words /\ f % WordBits \in 0 .. WordBits - 1
  BY <1>1 DEF Ids, Words
<1>3. \A f, g \in Ids :
        f \div WordBits = g \div WordBits /\ f % WordBits = g % WordBits => f = g
  BY <1>1 DEF Ids
<1> QED
  BY <1>2, <1>3

\* Setting the bit of a function sets no other one and clears none.
LEMMA BitSet ==
    ASSUME TypeInv, NEW f \in Ids, SetBit(f)
    PROVE  /\ functions_seen' \in [Words -> SUBSET (0 .. WordBits - 1)]
           /\ Marked' = Marked \cup {f}
<1>1. functions_seen \in [Words -> SUBSET (0 .. WordBits - 1)]
  BY DEF TypeInv
<1>2. functions_seen' = [functions_seen EXCEPT ![f \div WordBits] = @ \cup {f % WordBits}]
  BY <1>1 DEF SetBit, SetWord, Word
<1>3. f \div WordBits \in Words /\ f % WordBits \in 0 .. WordBits - 1
  BY BitOfFunction
<1>4. functions_seen' \in [Words -> SUBSET (0 .. WordBits - 1)]
  BY <1>1, <1>2, <1>3, Zenon
<1>5. ASSUME NEW g \in Ids
      PROVE  IsSet(g)' <=> IsSet(g) \/ g = f
  <2>1. g \div WordBits \in Words /\ g % WordBits \in 0 .. WordBits - 1
    BY BitOfFunction
  <2>2. g \div WordBits = f \div WordBits /\ g % WordBits = f % WordBits => g = f
    BY BitOfFunction
  <2> QED
    BY <1>1, <1>2, <1>3, <2>1, <2>2, Zenon DEF IsSet, Word
<1> QED
  BY <1>4, <1>5, Zenon DEF Marked

-----------------------------------------------------------------------------
(* Types                                                                   *)

\* What a call does to the event of a thread.
LEMMA EventUpdates ==
    ASSUME NEW e \in [Threads -> Events], NEW t \in Threads, NEW f \in Ids
    PROVE  LET d == [e EXCEPT ![t].id = f]
           IN  d \in [Threads -> Events] /\ d[t].id = f
BY Zenon DEF Events

\* What a call and a block add to the history.
LEMMA WorkUpdates ==
    ASSUME NEW h \in Work
    PROVE  /\ \A f \in Ids :
                LET s == [h EXCEPT !.calls[f] = @ + 1]
                IN  /\ s \in Work /\ s.total = h.total /\ s.unsafe = h.unsafe
                    /\ s.calls = [h.calls EXCEPT ![f] = @ + 1]
           /\ \A n \in {0, 1} :
                LET s == [h EXCEPT !.total = @ + 1, !.unsafe = @ + n]
                IN  /\ s \in Work /\ s.calls = h.calls
                    /\ s.total = h.total + 1 /\ s.unsafe = h.unsafe + n
<1>1. h.calls \in [Ids -> Nat] /\ h.total \in Nat /\ h.unsafe \in Nat
  BY DEF Work
<1>2. ASSUME NEW f \in Ids, NEW s, s = [h EXCEPT !.calls[f] = @ + 1]
      PROVE  /\ s \in Work /\ s.total = h.total /\ s.unsafe = h.unsafe
             /\ s.calls = [h.calls EXCEPT ![f] = @ + 1]
  <2>1. \A n \in Nat : n + 1 \in Nat
    OBVIOUS
  <2>2. h.calls[f] + 1 \in Nat
    BY <1>1, <2>1
  <2>3. [h.calls EXCEPT ![f] = @ + 1] \in [Ids -> Nat]
    BY <1>1, <2>2
  <2> QED
    BY <1>1, <1>2, <2>3, Zenon DEF Work
<1>3. ASSUME NEW n \in {0, 1}, NEW s, s = [h EXCEPT !.total = @ + 1, !.unsafe = @ + n]
      PROVE  /\ s \in Work /\ s.calls = h.calls
             /\ s.total = h.total + 1 /\ s.unsafe = h.unsafe + n
  <2>1. h.total + 1 \in Nat /\ h.unsafe + n \in Nat
    BY <1>1
  <2> QED
    BY <1>1, <1>3, <2>1, Zenon DEF Work
<1> QED
  BY <1>2, <1>3

\* What reading a counter does to the report.
LEMMA ReportUpdates ==
    /\ NoReport \in Reports
    /\ \A r \in Reports :
         /\ \A n \in Nat :
              /\ [r EXCEPT !.total = n] \in Reports
              /\ [r EXCEPT !.unsafe = n] \in Reports
              /\ [r EXCEPT !.kinds = n] \in Reports
              /\ \A f \in Ids : [r EXCEPT !.calls[f] = n] \in Reports
         /\ \A S \in SUBSET Ids, U \in SUBSET Ids :
              [r EXCEPT !.seen = S, !.unsafe_seen = U] \in Reports
<1>1. NoReport \in Reports
  BY DEF NoReport, Reports
<1>2. ASSUME NEW r \in Reports
      PROVE  /\ \A n \in Nat :
                  /\ [r EXCEPT !.total = n] \in Reports
                  /\ [r EXCEPT !.unsafe = n] \in Reports
                  /\ [r EXCEPT !.kinds = n] \in Reports
                  /\ \A f \in Ids : [r EXCEPT !.calls[f] = n] \in Reports
             /\ \A S \in SUBSET Ids, U \in SUBSET Ids :
                  [r EXCEPT !.seen = S, !.unsafe_seen = U] \in Reports
  BY Zenon DEF Reports
<1> QED
  BY <1>1, <1>2

LEMMA TypeInit == Init => TypeInv
<1> SUFFICES ASSUME Init PROVE TypeInv
  OBVIOUS
<1>1. MaxFunctions \in Nat \ {0} /\ Main \in Threads
  BY SizesAssumption, ThreadsAssumption
<1>2. 0 \in Ids
  BY <1>1 DEF Ids
<1>3. event \in [Threads -> Events]
  BY <1>2 DEF Init, NoEvent, Events
<1>4. report \in Reports /\ started \in Work
  BY ReportUpdates DEF Init, NoWork, Work
<1>5. pc \in [Threads -> Places]
  BY DEF Init, Places
<1>6. metadata \in Seq(BOOLEAN) /\ Len(metadata) = metadata_count
  BY DEF Init
<1>7. functions_seen \in [Words -> SUBSET (0 .. WordBits - 1)]
  BY DEF Init
<1>8. /\ metadata_count \in 0 .. MaxFunctions /\ index \in 0 .. metadata_count
      /\ function_calls \in [Ids -> Nat]
      /\ total_instructions \in Nat /\ total_unsafe_instructions \in Nat /\ unsafe_kinds \in Nat
  BY <1>1 DEF Init
<1>9. metadata_initialized \in BOOLEAN /\ stats_written \in BOOLEAN
  BY DEF Init
<1> QED
  BY <1>3, <1>4, <1>5, <1>6, <1>7, <1>8, <1>9, Zenon DEF TypeInv

\* The steps of the hooks, and the others.
Hook(t) ==
    \/ EnterFunction(t) \/ RecordFunction(t)
    \/ EnterBlock(t) \/ CountInstruction(t) \/ CountUnsafe(t) \/ CountKind(t)

Aside ==
    \/ InitMetadata \/ StartMain
    \/ DumpStats \/ ReadTotal \/ ReadUnsafe \/ ReadKinds
    \/ PassFunction \/ SeeFunction \/ ReadCalls \/ WriteReport \/ Exit
    \/ UNCHANGED vars

LEMMA NextIs == [Next]_vars => Aside \/ \E t \in Threads : Hook(t)
BY Zenon DEF Next, Hook, Aside, Stopped

\* A thread goes alone.
LEMMA Going ==
    ASSUME NEW t \in Threads, NEW from, NEW to \in Places, TypeInv, Go(t, from, to)
    PROVE  /\ pc' \in [Threads -> Places] /\ pc[t] = from /\ pc'[t] = to
           /\ \A u \in Threads \ {t} : pc'[u] = pc[u]
BY Zenon DEF Go, TypeInv

HookPlaces == {"app"} \cup CallPlaces \cup BlockPlaces

\* What a hook leaves alone, and where it takes its thread.
LEMMA HookSteps ==
    ASSUME TypeInv, NEW t \in Threads, Hook(t)
    PROVE  /\ UNCHANGED <<table, exit, modules>>
           /\ pc' \in [Threads -> Places] /\ pc[t] \in HookPlaces /\ pc'[t] \in HookPlaces
           /\ \A u \in Threads \ {t} : pc'[u] = pc[u] /\ event'[u] = event[u]
<1>a. event \in [Threads -> Events]
  BY DEF TypeInv
<1>1. CASE EnterFunction(t)
  BY <1>1, <1>a, Going, Zenon DEF EnterFunction, Begin, Places, HookPlaces, CallPlaces, BlockPlaces
<1>2. CASE RecordFunction(t)
  <2>1. CASE CountCall(t, "call 1", "call 2")
    BY <2>1, Going, Zenon DEF CountCall, table, Places, HookPlaces, CallPlaces, BlockPlaces
  <2>2. CASE MarkSeen(t, "call 2", "app")
    BY <2>2, Going, Zenon DEF MarkSeen, Places, HookPlaces, CallPlaces, BlockPlaces
  <2> QED
    BY <1>2, <2>1, <2>2 DEF RecordFunction
<1>3. CASE EnterBlock(t)
  BY <1>3, <1>a, Going, Zenon DEF EnterBlock, Begin, Places, HookPlaces, CallPlaces, BlockPlaces
<1>4. CASE CountInstruction(t)
  <2>1. (IF event[t].unsafe THEN "block 2" ELSE "app") \in Places \cap HookPlaces
    BY Zenon DEF Places, HookPlaces, BlockPlaces
  <2>2. /\ pc' \in [Threads -> Places] /\ pc[t] = "block 1" /\ pc'[t] \in HookPlaces
        /\ \A u \in Threads \ {t} : pc'[u] = pc[u]
    BY <1>4, <2>1, Going, Zenon DEF CountInstruction
  <2> QED
    BY <1>4, <2>2, Zenon DEF CountInstruction, HookPlaces, BlockPlaces
<1>5. CASE CountUnsafe(t)
  BY <1>5, Going, Zenon DEF CountUnsafe, Places, HookPlaces, CallPlaces, BlockPlaces
<1>6. CASE CountKind(t)
  BY <1>6, Going, Zenon DEF CountKind, Places, HookPlaces, CallPlaces, BlockPlaces
<1> QED
  BY <1>1, <1>2, <1>3, <1>4, <1>5, <1>6 DEF Hook

AsidePlaces == {"constructors", "app", "exited"} \cup Reporting

\* What the constructors and the destructors leave alone, and where they take main.
LEMMA AsideSteps ==
    ASSUME TypeInv, Aside
    PROVE  /\ UNCHANGED <<functions, instructions, event, started>>
           /\ pc' \in [Threads -> Places]
           /\ pc' # pc => pc[Main] \in AsidePlaces /\ pc'[Main] \in AsidePlaces
           /\ \A u \in Threads \ {Main} : pc'[u] = pc[u]
<1> DEFINE Moves(from, to) ==
             /\ pc' \in [Threads -> Places] /\ pc[Main] = from /\ pc'[Main] = to
             /\ \A u \in Threads \ {Main} : pc'[u] = pc[u]
<1>a. Main \in Threads
  BY ThreadsAssumption
<1>b. \A from, to \in AsidePlaces : Go(Main, from, to) => Moves(from, to)
  BY <1>a, Going, Zenon DEF AsidePlaces, Places
<1>c. /\ "constructors" \in AsidePlaces /\ "app" \in AsidePlaces /\ "exited" \in AsidePlaces
      /\ "total" \in AsidePlaces /\ "unsafe" \in AsidePlaces /\ "kinds" \in AsidePlaces
      /\ "function" \in AsidePlaces /\ "calls" \in AsidePlaces
  BY DEF AsidePlaces, Reporting
<1>d. ASSUME UNCHANGED <<functions, instructions, event, history>>,
             NEW from \in AsidePlaces, NEW to \in AsidePlaces, Go(Main, from, to)
      PROVE  /\ UNCHANGED <<functions, instructions, event, started>>
             /\ pc' \in [Threads -> Places]
             /\ pc' # pc => pc[Main] \in AsidePlaces /\ pc'[Main] \in AsidePlaces
             /\ \A u \in Threads \ {Main} : pc'[u] = pc[u]
  BY <1>b, <1>d, Zenon DEF history
<1> HIDE DEF Moves
<1>1. CASE InitMetadata
  BY <1>1, <1>c, <1>d, Zenon DEF InitMetadata
<1>2. CASE StartMain
  BY <1>2, <1>c, <1>d, Zenon DEF StartMain
<1>3. CASE DumpStats
  BY <1>3, <1>c, <1>d, Zenon DEF DumpStats, Dump
<1>4. CASE ReadTotal
  BY <1>4, <1>c, <1>d, Zenon DEF ReadTotal, Read
<1>5. CASE ReadUnsafe
  BY <1>5, <1>c, <1>d, Zenon DEF ReadUnsafe, Read
<1>6. CASE ReadKinds
  BY <1>6, <1>c, <1>d, Zenon DEF ReadKinds, Read
<1>7. CASE PassFunction
  BY <1>7, <1>c, <1>d, Zenon DEF PassFunction
<1>8. CASE SeeFunction
  BY <1>8, <1>c, <1>d, Zenon DEF SeeFunction, Read
<1>9. CASE ReadCalls
  BY <1>9, <1>c, <1>d, Zenon DEF ReadCalls
<1>10. CASE WriteReport
  BY <1>10, <1>c, <1>d, Zenon DEF WriteReport, WriteAfter
<1>11. CASE Exit
  BY <1>11, <1>c, <1>d, Zenon DEF Exit
<1>12. CASE UNCHANGED vars
  BY <1>12, Zenon DEF vars, history, TypeInv
<1> QED
  BY <1>1, <1>2, <1>3, <1>4, <1>5, <1>6, <1>7, <1>8, <1>9, <1>10, <1>11, <1>12 DEF Aside

LEMMA HookContext ==
    /\ {"app", "call 1", "call 2", "block 1", "block 2", "block 3"} \subseteq Places
    /\ TypeInv =>
         /\ pc \in [Threads -> Places] /\ event \in [Threads -> Events]
         /\ started \in Work
BY DEF Places, CallPlaces, BlockPlaces, TypeInv

\* What each hook does to the counters, the bits and the history.
LEMMA EnterFunctionEffect ==
    ASSUME TypeInv, NEW t \in Threads, EnterFunction(t)
    PROVE  /\ UNCHANGED <<functions, instructions>>
           /\ pc[t] = "app" /\ pc'[t] = "call 1"
           /\ event' \in [Threads -> Events] /\ started' \in Work
           /\ started'.total = started.total /\ started'.unsafe = started.unsafe
           /\ started'.calls = [started.calls EXCEPT ![event'[t].id] = @ + 1]
<1>1. PICK f \in Ids : /\ event' = [event EXCEPT ![t].id = f]
                       /\ started' = [started EXCEPT !.calls[f] = @ + 1]
  BY DEF EnterFunction
<1>2. event \in [Threads -> Events] /\ started \in Work
  BY HookContext
<1>3. event' \in [Threads -> Events] /\ event'[t].id = f
  BY <1>1, <1>2, EventUpdates
<1>4. /\ started' \in Work /\ started'.total = started.total /\ started'.unsafe = started.unsafe
      /\ started'.calls = [started.calls EXCEPT ![f] = @ + 1]
  BY <1>1, <1>2, WorkUpdates
<1>5. pc[t] = "app" /\ pc'[t] = "call 1"
  BY HookContext DEF EnterFunction, Begin, Go
<1> QED
  BY <1>3, <1>4, <1>5 DEF EnterFunction

LEMMA CountCallEffect ==
    ASSUME TypeInv, NEW t \in Threads, CountCall(t, "call 1", "call 2")
    PROVE  /\ UNCHANGED <<functions_seen, instructions, event, started>>
           /\ pc[t] = "call 1" /\ pc'[t] = "call 2"
           /\ function_calls' = [function_calls EXCEPT ![event[t].id] = @ + 1]
BY HookContext DEF CountCall, Go, history

LEMMA MarkSeenEffect ==
    ASSUME TypeInv, NEW t \in Threads, MarkSeen(t, "call 2", "app")
    PROVE  /\ UNCHANGED <<function_calls, instructions, event, started>>
           /\ pc[t] = "call 2" /\ pc'[t] = "app"
           /\ functions_seen' \in [Words -> SUBSET (0 .. WordBits - 1)]
           /\ Marked' = Marked \cup {event[t].id}
<1>1. event[t].id \in Ids
  BY HookContext DEF Events
<1>2. SetBit(event[t].id)
  BY DEF MarkSeen
<1>3. /\ functions_seen' \in [Words -> SUBSET (0 .. WordBits - 1)]
      /\ Marked' = Marked \cup {event[t].id}
  BY <1>1, <1>2, BitSet
<1>4. /\ UNCHANGED <<function_calls, instructions, event, started>>
      /\ pc[t] = "call 2" /\ pc'[t] = "app"
  BY HookContext DEF MarkSeen, Go, history
<1> QED
  BY <1>3, <1>4

LEMMA EnterBlockEffect ==
    ASSUME TypeInv, NEW t \in Threads, EnterBlock(t)
    PROVE  /\ UNCHANGED <<functions, instructions>>
           /\ pc[t] = "app" /\ pc'[t] = "block 1"
           /\ event' \in [Threads -> Events] /\ started' \in Work
           /\ started'.calls = started.calls /\ started'.total = started.total + 1
           /\ event'[t].unsafe => started'.unsafe = started.unsafe + 1
           /\ ~event'[t].unsafe => started'.unsafe = started.unsafe
<1>1. PICK b \in BOOLEAN :
        /\ event' = [event EXCEPT ![t].unsafe = b]
        /\ started' = [started EXCEPT !.total = @ + 1, !.unsafe = @ + (IF b THEN 1 ELSE 0)]
  BY Zenon DEF EnterBlock
<1>2. event \in [Threads -> Events] /\ started \in Work /\ started.unsafe \in Nat
  BY HookContext DEF Work
<1>3. event' \in [Threads -> Events] /\ event'[t].unsafe = b
  BY <1>1, <1>2, Zenon DEF Events
<1>4. (IF b THEN 1 ELSE 0) \in {0, 1}
  OBVIOUS
<1>5. /\ started' \in Work /\ started'.calls = started.calls
      /\ started'.total = started.total + 1
      /\ started'.unsafe = started.unsafe + (IF b THEN 1 ELSE 0)
  BY <1>1, <1>2, <1>4, WorkUpdates, Zenon
<1>6. started.unsafe + 0 = started.unsafe
  BY <1>2
<1>7. /\ event'[t].unsafe => started'.unsafe = started.unsafe + 1
      /\ ~event'[t].unsafe => started'.unsafe = started.unsafe
  BY <1>3, <1>5, <1>6, Zenon
<1>8. pc[t] = "app" /\ pc'[t] = "block 1"
  BY HookContext DEF EnterBlock, Begin, Go
<1> QED
  BY <1>3, <1>5, <1>7, <1>8, Zenon DEF EnterBlock

LEMMA CountInstructionEffect ==
    ASSUME TypeInv, NEW t \in Threads, CountInstruction(t)
    PROVE  /\ UNCHANGED <<functions, total_unsafe_instructions, unsafe_kinds, event, started>>
           /\ pc[t] = "block 1"
           /\ pc'[t] = IF event[t].unsafe THEN "block 2" ELSE "app"
           /\ total_instructions' = total_instructions + 1
BY HookContext, Zenon DEF CountInstruction, Go, history

LEMMA CountUnsafeEffect ==
    ASSUME TypeInv, NEW t \in Threads, CountUnsafe(t)
    PROVE  /\ UNCHANGED <<functions, total_instructions, unsafe_kinds, event, started>>
           /\ pc[t] = "block 2" /\ pc'[t] = "block 3"
           /\ total_unsafe_instructions' = total_unsafe_instructions + 1
BY HookContext, Zenon DEF CountUnsafe, Go, history

LEMMA CountKindEffect ==
    ASSUME TypeInv, NEW t \in Threads, CountKind(t)
    PROVE  /\ UNCHANGED <<functions, total_instructions, total_unsafe_instructions, event,
                          started>>
           /\ pc[t] = "block 3" /\ pc'[t] = "app"
           /\ unsafe_kinds' = unsafe_kinds + 1
BY HookContext, Zenon DEF CountKind, Go, history

\* The counters and the bitset never go back.
BitsStay == Marked \subseteq Marked'

CountersGrow ==
    /\ \A f \in Ids : function_calls[f] <= function_calls'[f]
    /\ total_instructions <= total_instructions'
    /\ total_unsafe_instructions <= total_unsafe_instructions'
    /\ unsafe_kinds <= unsafe_kinds'

LEMMA HookTypes ==
    ASSUME TypeInv, NEW t \in Threads, Hook(t)
    PROVE  TypeInv' /\ BitsStay /\ CountersGrow
<1> DEFINE Counted ==
             /\ function_calls' \in [Ids -> Nat]
             /\ total_instructions' \in Nat /\ total_unsafe_instructions' \in Nat
             /\ unsafe_kinds' \in Nat
           Stored ==
             /\ functions_seen' \in [Words -> SUBSET (0 .. WordBits - 1)]
             /\ event' \in [Threads -> Events] /\ started' \in Work
<1>a. /\ function_calls \in [Ids -> Nat]
      /\ total_instructions \in Nat /\ total_unsafe_instructions \in Nat /\ unsafe_kinds \in Nat
  BY DEF TypeInv
<1>b. /\ functions_seen \in [Words -> SUBSET (0 .. WordBits - 1)]
      /\ event \in [Threads -> Events] /\ started \in Work
  BY DEF TypeInv
<1>c. event[t].id \in Ids
  BY <1>b DEF Events
<1>d. UNCHANGED functions_seen => BitsStay
  BY Zenon DEF Marked, IsSet, Word, BitsStay
<1>e. UNCHANGED function_calls /\ UNCHANGED instructions => Counted /\ CountersGrow
  BY <1>a DEF instructions, CountersGrow
<1>1. CASE EnterFunction(t)
  <2>1. Counted /\ CountersGrow
    BY <1>1, <1>e, EnterFunctionEffect, Zenon DEF functions
  <2>2. Stored /\ BitsStay
    BY <1>1, <1>b, <1>d, EnterFunctionEffect, Zenon DEF functions
  <2> QED
    BY <2>1, <2>2, HookSteps, Zenon DEF TypeInv, table, exit
<1>2. CASE CountCall(t, "call 1", "call 2")
  <2>1. /\ function_calls' = [function_calls EXCEPT ![event[t].id] = @ + 1]
        /\ UNCHANGED <<functions_seen, instructions, event, started>>
    BY <1>2, CountCallEffect, Zenon
  <2>2. Counted /\ CountersGrow
    BY <2>1, <1>a, <1>c DEF instructions, CountersGrow
  <2>3. Stored /\ BitsStay
    BY <2>1, <1>b, <1>d, Zenon
  <2> QED
    BY <1>2, <2>2, <2>3, HookSteps, Zenon DEF Hook, RecordFunction, TypeInv, table, exit
<1>3. CASE MarkSeen(t, "call 2", "app")
  <2>1. Counted /\ CountersGrow
    BY <1>3, <1>e, MarkSeenEffect, Zenon
  <2>2. Stored /\ BitsStay
    BY <1>3, <1>b, MarkSeenEffect, Zenon DEF BitsStay
  <2> QED
    BY <1>3, <2>1, <2>2, HookSteps, Zenon DEF Hook, RecordFunction, TypeInv, table, exit
<1>4. CASE EnterBlock(t)
  <2>1. Counted /\ CountersGrow
    BY <1>4, <1>e, EnterBlockEffect, Zenon DEF functions
  <2>2. Stored /\ BitsStay
    BY <1>4, <1>b, <1>d, EnterBlockEffect, Zenon DEF functions
  <2> QED
    BY <2>1, <2>2, HookSteps, Zenon DEF TypeInv, table, exit
<1>5. CASE CountInstruction(t)
  <2>1. /\ total_instructions' = total_instructions + 1
        /\ UNCHANGED <<functions, total_unsafe_instructions, unsafe_kinds, event, started>>
    BY <1>5, CountInstructionEffect, Zenon
  <2>2. Counted /\ CountersGrow
    BY <2>1, <1>a DEF functions, CountersGrow
  <2>3. Stored /\ BitsStay
    BY <2>1, <1>b, <1>d, Zenon DEF functions
  <2> QED
    BY <2>2, <2>3, HookSteps, Zenon DEF TypeInv, table, exit
<1>6. CASE CountUnsafe(t)
  <2>1. /\ total_unsafe_instructions' = total_unsafe_instructions + 1
        /\ UNCHANGED <<functions, total_instructions, unsafe_kinds, event, started>>
    BY <1>6, CountUnsafeEffect, Zenon
  <2>2. Counted /\ CountersGrow
    BY <2>1, <1>a DEF functions, CountersGrow
  <2>3. Stored /\ BitsStay
    BY <2>1, <1>b, <1>d, Zenon DEF functions
  <2> QED
    BY <2>2, <2>3, HookSteps, Zenon DEF TypeInv, table, exit
<1>7. CASE CountKind(t)
  <2>1. /\ unsafe_kinds' = unsafe_kinds + 1
        /\ UNCHANGED <<functions, total_instructions, total_unsafe_instructions, event, started>>
    BY <1>7, CountKindEffect, Zenon
  <2>2. Counted /\ CountersGrow
    BY <2>1, <1>a DEF functions, CountersGrow
  <2>3. Stored /\ BitsStay
    BY <2>1, <1>b, <1>d, Zenon DEF functions
  <2> QED
    BY <2>2, <2>3, HookSteps, Zenon DEF TypeInv, table, exit
<1> QED
  BY <1>1, <1>2, <1>3, <1>4, <1>5, <1>6, <1>7, Zenon DEF Hook, RecordFunction

\* The constructors and the destructors change the table and the report.
LEMMA AsideTypes ==
    ASSUME TypeInv, FlagInv, LoopInv, Aside
    PROVE  TypeInv' /\ BitsStay /\ CountersGrow
<1> DEFINE TableOK ==
             /\ metadata' \in Seq(BOOLEAN) /\ Len(metadata') = metadata_count'
             /\ metadata_count' \in 0 .. MaxFunctions
           IndexOK == index' \in 0 .. metadata_count'
           ReportOK == report' \in Reports
           InitializedOK == metadata_initialized' \in BOOLEAN
           WrittenOK == stats_written' \in BOOLEAN
           Typed == TableOK /\ IndexOK /\ ReportOK /\ InitializedOK /\ WrittenOK
<1>a. /\ metadata \in Seq(BOOLEAN) /\ Len(metadata) = metadata_count
      /\ metadata_count \in 0 .. MaxFunctions /\ MaxFunctions \in Nat
      /\ index \in 0 .. metadata_count /\ report \in Reports
  BY SizesAssumption DEF TypeInv
<1>b. metadata_initialized \in BOOLEAN /\ stats_written \in BOOLEAN
  BY DEF TypeInv
<1>c. UNCHANGED table => TableOK
  BY <1>a, Zenon DEF table
<1>d. UNCHANGED table /\ index' = index => IndexOK
  BY <1>a, Zenon DEF table
<1>e. index < metadata_count => index \in Ids /\ index + 1 \in 0 .. metadata_count
  BY <1>a DEF Ids
<1>f. report.seen \subseteq Ids /\ report.unsafe_seen \subseteq Ids
  BY <1>a DEF Reports
<1>g. report' = report => ReportOK
  BY <1>a, Zenon
<1>h. /\ UNCHANGED table \/ metadata_initialized' = TRUE => InitializedOK
      /\ UNCHANGED stats_written \/ stats_written' = TRUE => WrittenOK
  BY <1>b DEF table
<1>i. /\ UNCHANGED <<functions, instructions, event, started>>
      /\ pc' \in [Threads -> Places]
  BY AsideSteps
<1>j. /\ functions_seen' \in [Words -> SUBSET (0 .. WordBits - 1)]
      /\ event' \in [Threads -> Events] /\ started' \in Work /\ BitsStay
  BY <1>i, Zenon DEF TypeInv, functions, BitsStay, Marked, IsSet, Word
<1>k. /\ function_calls' \in [Ids -> Nat]
      /\ total_instructions' \in Nat /\ total_unsafe_instructions' \in Nat /\ unsafe_kinds' \in Nat
      /\ CountersGrow
  BY <1>i DEF TypeInv, functions, instructions, CountersGrow
<1>l. Typed => TypeInv'
  BY <1>i, <1>j, <1>k, Zenon DEF TypeInv
<1> HIDE DEF TableOK, IndexOK, ReportOK, InitializedOK, WrittenOK
<1>1. Typed
  <2>1. CASE InitMetadata
    <3>1. index' = index /\ report' = report /\ stats_written' = stats_written
      BY <2>1 DEF InitMetadata, exit
    <3>2. metadata_initialized' = TRUE
      BY <2>1 DEF InitMetadata
    <3>3. PICK functions_of_module \in Tables :
            IF metadata_initialized \/ Len(functions_of_module) > MaxFunctions
            THEN UNCHANGED <<metadata, metadata_count>>
            ELSE /\ metadata' = functions_of_module
                 /\ metadata_count' = Len(functions_of_module)
      BY <2>1, Zenon DEF InitMetadata
    <3>4. ReportOK /\ InitializedOK /\ WrittenOK
      BY <1>g, <1>h, <3>1, <3>2, Zenon
    <3>5. CASE metadata_initialized \/ Len(functions_of_module) > MaxFunctions
      <4>1. metadata' = metadata /\ metadata_count' = metadata_count
        BY <3>3, <3>5, Zenon
      <4>2. TableOK /\ IndexOK
        BY <1>a, <3>1, <4>1, Zenon DEF TableOK, IndexOK
      <4> QED
        BY <3>4, <4>2
    <3>6. CASE ~(metadata_initialized \/ Len(functions_of_module) > MaxFunctions)
      <4>1. metadata' = functions_of_module /\ metadata_count' = Len(functions_of_module)
        BY <3>3, <3>6, Zenon
      <4>2. functions_of_module \in Seq(BOOLEAN)
        BY TablesAssumption
      <4>3. Len(functions_of_module) \in Nat /\ ~(Len(functions_of_module) > MaxFunctions)
        BY <3>6, <4>2
      <4>4. ~(metadata_count > 0)
        BY <3>6, Zenon DEF FlagInv
      <4>5. TableOK
        BY <1>a, <4>1, <4>2, <4>3 DEF TableOK
      <4>6. IndexOK
        BY <1>a, <3>1, <4>1, <4>3, <4>4 DEF IndexOK
      <4> QED
        BY <3>4, <4>5, <4>6
    <3> QED
      BY <3>5, <3>6, Zenon
  <2>2. CASE StartMain \/ WriteReport \/ Exit \/ UNCHANGED vars
    <3>1. UNCHANGED table /\ UNCHANGED <<index, report, stats_written>>
      BY <2>2, Zenon DEF StartMain, WriteReport, WriteAfter, Exit, vars, exit
    <3> QED
      BY <1>c, <1>d, <1>g, <1>h, <3>1, Zenon
  <2>3. CASE DumpStats
    <3>1. UNCHANGED table /\ stats_written' = TRUE
      BY <2>3, Zenon DEF DumpStats, Dump
    <3>2. UNCHANGED <<index, report>> \/ (index' = 0 /\ report' = NoReport)
      BY <2>3, Zenon DEF DumpStats, Dump
    <3>3. metadata_count' = metadata_count
      BY <3>1 DEF table
    <3>4. IndexOK
      BY <1>a, <3>2, <3>3 DEF IndexOK
    <3>5. ReportOK
      BY <1>g, <3>2, ReportUpdates, Zenon DEF ReportOK
    <3> QED
      BY <1>c, <1>h, <3>1, <3>4, <3>5, Zenon
  <2>4. CASE ReadTotal \/ ReadUnsafe \/ ReadKinds \/ SeeFunction
    <3>1. /\ total_instructions \in Nat /\ total_unsafe_instructions \in Nat /\ unsafe_kinds \in Nat
          /\ index < metadata_count =>
               /\ report.seen \cup {index} \in SUBSET Ids
               /\ report.unsafe_seen \cup (IF metadata[index + 1] THEN {index} ELSE {}) \in SUBSET Ids
      BY <1>e, <1>f DEF TypeInv
    <3>2. UNCHANGED table /\ UNCHANGED <<index, stats_written>>
      BY <2>4, Zenon DEF ReadTotal, ReadUnsafe, ReadKinds, SeeFunction, Read
    <3>3. ReportOK
      <4>1. CASE ReadTotal
        BY <4>1, <1>a, <3>1, ReportUpdates, Zenon DEF ReadTotal, Read, ReportOK
      <4>2. CASE ReadUnsafe
        BY <4>2, <1>a, <3>1, ReportUpdates, Zenon DEF ReadUnsafe, Read, ReportOK
      <4>3. CASE ReadKinds
        BY <4>3, <1>a, <3>1, ReportUpdates, Zenon DEF ReadKinds, Read, ReportOK
      <4>4. CASE SeeFunction
        BY <4>4, <1>a, <3>1, ReportUpdates, Zenon DEF SeeFunction, Read, ReportOK
      <4> QED
        BY <2>4, <4>1, <4>2, <4>3, <4>4
    <3> QED
      BY <1>c, <1>d, <1>h, <3>2, <3>3, Zenon
  <2>5. CASE PassFunction
    <3>1. UNCHANGED table /\ UNCHANGED <<report, stats_written>>
      BY <2>5, Zenon DEF PassFunction
    <3>2. index < metadata_count /\ index' = index + 1
      BY <2>5, Zenon DEF PassFunction
    <3>3. IndexOK
      BY <1>e, <3>1, <3>2, Zenon DEF table, IndexOK
    <3> QED
      BY <1>c, <1>g, <1>h, <3>1, <3>3, Zenon
  <2>6. CASE ReadCalls
    <3>1. UNCHANGED table /\ UNCHANGED stats_written
      BY <2>6, Zenon DEF ReadCalls
    <3>2. /\ index' = index + 1
          /\ report' = [report EXCEPT !.calls[index] = function_calls[index]]
      BY <2>6, Zenon DEF ReadCalls
    <3>3. index \in Ids /\ index + 1 \in 0 .. metadata_count
      BY <2>6, <1>e, Zenon DEF ReadCalls, Go, LoopInv
    <3>4. function_calls[index] \in Nat
      BY <3>3 DEF TypeInv
    <3>5. ReportOK
      BY <1>a, <3>2, <3>3, <3>4, ReportUpdates, Zenon DEF ReportOK
    <3>6. IndexOK
      BY <3>1, <3>2, <3>3, Zenon DEF table, IndexOK
    <3> QED
      BY <1>c, <1>h, <3>1, <3>5, <3>6, Zenon
  <2> QED
    BY <2>1, <2>2, <2>3, <2>4, <2>5, <2>6, Zenon DEF Aside
<1> QED
  BY <1>j, <1>k, <1>l, <1>1

-----------------------------------------------------------------------------
(* Calls and blocks under way                                              *)

\* One thread joins or leaves a set of threads.
LEMMA Moved ==
    ASSUME NEW A \in SUBSET Threads, NEW B \in SUBSET Threads, NEW t \in Threads,
           A \ {t} = B \ {t}
    PROVE  /\ Cardinality(A) \in Nat /\ Cardinality(B) \in Nat
           /\ (t \in A <=> t \in B) => Cardinality(B) = Cardinality(A)
           /\ t \notin A /\ t \in B => Cardinality(B) = Cardinality(A) + 1
           /\ t \in A /\ t \notin B => Cardinality(A) = Cardinality(B) + 1
<1>1. IsFiniteSet(A) /\ IsFiniteSet(B)
  BY ThreadsAssumption, FS_Subset
<1>2. (t \in A <=> t \in B) => A = B
  OBVIOUS
<1>3. t \notin A /\ t \in B => B = A \cup {t}
  OBVIOUS
<1>4. t \in A /\ t \notin B => A = B \cup {t}
  OBVIOUS
<1> QED
  BY <1>1, <1>2, <1>3, <1>4, FS_AddElement, FS_CardinalityType

\* The threads at one of several places are those at the first and those at the others.
LEMMA Parted ==
    ASSUME NEW A \in SUBSET Threads, NEW B \in SUBSET Threads, A \cap B = {}
    PROVE  /\ Cardinality(A) \in Nat /\ Cardinality(B) \in Nat
           /\ Cardinality(A \cup B) = Cardinality(A) + Cardinality(B)
<1>1. IsFiniteSet(A) /\ IsFiniteSet(B)
  BY ThreadsAssumption, FS_Subset
<1>2. Cardinality(A \cap B) = 0
  BY FS_EmptySet
<1>3. Cardinality(A) \in Nat /\ Cardinality(B) \in Nat
  BY <1>1, FS_CardinalityType
<1>4. Cardinality(A \cup B) = Cardinality(A) + Cardinality(B) - Cardinality(A \cap B)
  BY <1>1, FS_Union
<1> QED
  BY <1>2, <1>3, <1>4

\* A hook moves its own thread.
LEMMA CallSets ==
    ASSUME TypeInv, NEW t \in Threads, Hook(t), NEW f \in Ids, NEW place
    PROVE  /\ Calling(f, {place}) \in SUBSET Threads /\ Calling(f, {place})' \in SUBSET Threads
           /\ Calling(f, {place}) \ {t} = Calling(f, {place})' \ {t}
           /\ t \in Calling(f, {place}) <=> pc[t] = place /\ event[t].id = f
           /\ t \in Calling(f, {place})' <=> pc'[t] = place /\ event'[t].id = f
<1>1. \A u \in Threads \ {t} : pc'[u] = pc[u] /\ event'[u] = event[u]
  BY HookSteps
<1> QED
  BY <1>1, Zenon DEF Calling

LEMMA BlockSets ==
    ASSUME TypeInv, NEW t \in Threads, Hook(t), NEW P \in SUBSET Places
    PROVE  /\ Executing(P) \in SUBSET Threads /\ Executing(P)' \in SUBSET Threads
           /\ Executing(P) \ {t} = Executing(P)' \ {t}
           /\ t \in Executing(P) <=> pc[t] \in P
           /\ t \in Executing(P)' <=> pc'[t] \in P
           /\ Unsafe(P) \in SUBSET Threads /\ Unsafe(P)' \in SUBSET Threads
           /\ Unsafe(P) \ {t} = Unsafe(P)' \ {t}
           /\ t \in Unsafe(P) <=> pc[t] \in P /\ event[t].unsafe
           /\ t \in Unsafe(P)' <=> pc'[t] \in P /\ event'[t].unsafe
<1>1. \A u \in Threads \ {t} : pc'[u] = pc[u] /\ event'[u] = event[u]
  BY HookSteps
<1>2. /\ Executing(P) \in SUBSET Threads /\ Executing(P)' \in SUBSET Threads
      /\ Executing(P) \ {t} = Executing(P)' \ {t}
      /\ t \in Executing(P) <=> pc[t] \in P
      /\ t \in Executing(P)' <=> pc'[t] \in P
  BY <1>1, Zenon DEF Executing
<1>3. /\ Unsafe(P) \in SUBSET Threads /\ Unsafe(P)' \in SUBSET Threads
      /\ Unsafe(P) \ {t} = Unsafe(P)' \ {t}
      /\ t \in Unsafe(P) <=> pc[t] \in P /\ event[t].unsafe
      /\ t \in Unsafe(P)' <=> pc'[t] \in P /\ event'[t].unsafe
  BY <1>1, Zenon DEF Unsafe
<1> QED
  BY <1>2, <1>3

\* What is not a hook moves nobody who is in a call or in a block.
LEMMA AsideSets ==
    ASSUME TypeInv, Aside
    PROVE  /\ \A f \in Ids, P \in SUBSET CallPlaces : Calling(f, P)' = Calling(f, P)
           /\ \A P \in SUBSET BlockPlaces : Executing(P)' = Executing(P) /\ Unsafe(P)' = Unsafe(P)
<1>1. /\ UNCHANGED event
      /\ pc' # pc => pc[Main] \in AsidePlaces /\ pc'[Main] \in AsidePlaces
      /\ \A u \in Threads \ {Main} : pc'[u] = pc[u]
  BY AsideSteps
<1>2. AsidePlaces \cap (CallPlaces \cup BlockPlaces) = {}
  BY DEF AsidePlaces, Reporting, CallPlaces, BlockPlaces
<1>3. \A t \in Threads, P \in SUBSET (CallPlaces \cup BlockPlaces) : pc'[t] \in P <=> pc[t] \in P
  BY <1>1, <1>2, Zenon
<1> QED
  BY <1>1, <1>3, Zenon DEF Calling, Executing, Unsafe

\* Nobody is under way at first.
LEMMA CountInit == Init => CallInv /\ BlockInv
<1> SUFFICES ASSUME Init PROVE CallInv /\ BlockInv
  OBVIOUS
<1>1. \A t \in Threads : pc[t] \notin CallPlaces \cup BlockPlaces
  BY DEF Init, CallPlaces, BlockPlaces
<1>2. /\ \A f \in Ids : Calling(f, {"call 1"}) = {} /\ Calling(f, {"call 2"}) = {}
      /\ Executing({"block 1"}) = {} /\ Executing({"block 2", "block 3"}) = {}
      /\ Unsafe({"block 1", "block 2"}) = {} /\ Unsafe(BlockPlaces) = {}
  BY <1>1 DEF Calling, Executing, Unsafe, CallPlaces, BlockPlaces
<1>3. Cardinality({}) = 0
  BY FS_EmptySet
<1>4. Marked = {}
  BY BitOfFunction DEF Init, Marked, IsSet, Word
<1>5. ASSUME NEW f \in Ids
      PROVE  /\ function_calls[f] + Cardinality(Calling(f, {"call 1"})) = started.calls[f]
             /\ Cardinality(Calling(f, {"call 2"})) <= function_calls[f]
             /\ Cardinality(Calling(f, {"call 2"})) < function_calls[f] => f \in Marked
             /\ f \in Marked => function_calls[f] > 0
  <2> DEFINE C1 == Cardinality(Calling(f, {"call 1"}))
             C2 == Cardinality(Calling(f, {"call 2"}))
  <2>1. function_calls[f] = 0 /\ started.calls[f] = 0
    BY DEF Init, NoWork
  <2>2. C1 = 0 /\ C2 = 0
    BY <1>2, <1>3, Zenon
  <2> HIDE DEF C1, C2
  <2>3. /\ function_calls[f] + C1 = started.calls[f]
        /\ C2 <= function_calls[f] /\ ~(C2 < function_calls[f])
    BY <2>1, <2>2
  <2> QED
    BY <1>4, <2>3, Zenon DEF C1, C2
<1>6. \A t \in Threads : pc[t] \in {"block 2", "block 3"} => event[t].unsafe
  BY <1>1, Zenon DEF BlockPlaces
<1>7. /\ total_instructions = 0 /\ total_unsafe_instructions = 0 /\ unsafe_kinds = 0
      /\ started.total = 0 /\ started.unsafe = 0
  BY DEF Init, NoWork
<1>8. /\ total_instructions + Cardinality(Executing({"block 1"})) = started.total
      /\ Cardinality(Executing({"block 2", "block 3"})) <= total_instructions
      /\ total_unsafe_instructions + Cardinality(Unsafe({"block 1", "block 2"})) = started.unsafe
      /\ unsafe_kinds + Cardinality(Unsafe(BlockPlaces)) = started.unsafe
  <2> DEFINE E1 == Cardinality(Executing({"block 1"}))
             E2 == Cardinality(Executing({"block 2", "block 3"}))
             U1 == Cardinality(Unsafe({"block 1", "block 2"}))
             U2 == Cardinality(Unsafe(BlockPlaces))
  <2>1. E1 = 0 /\ E2 = 0 /\ U1 = 0 /\ U2 = 0
    BY <1>2, <1>3, Zenon
  <2> HIDE DEF E1, E2, U1, U2
  <2>2. /\ total_instructions + E1 = started.total /\ E2 <= total_instructions
        /\ total_unsafe_instructions + U1 = started.unsafe /\ unsafe_kinds + U2 = started.unsafe
    BY <1>7, <2>1
  <2> QED
    BY <2>2 DEF E1, E2, U1, U2
<1> QED
  BY <1>5, <1>6, <1>8, Zenon DEF CallInv, BlockInv

\* A step of a call moves its thread from one of the sets to the next.
LEMMA CallStep == TypeInv /\ CallInv /\ (Aside \/ \E t \in Threads : Hook(t)) => CallInv'
<1> SUFFICES ASSUME TypeInv, CallInv, Aside \/ \E t \in Threads : Hook(t), NEW f \in Ids
             PROVE  /\ function_calls'[f] + Cardinality(Calling(f, {"call 1"})') = started'.calls[f]
                    /\ Cardinality(Calling(f, {"call 2"})') <= function_calls'[f]
                    /\ Cardinality(Calling(f, {"call 2"})') < function_calls'[f] => f \in Marked'
                    /\ f \in Marked' => function_calls'[f] > 0
  BY Zenon DEF CallInv
<1> DEFINE C1 == Calling(f, {"call 1"})
           C2 == Calling(f, {"call 2"})
<1>a. /\ function_calls[f] + Cardinality(C1) = started.calls[f]
      /\ Cardinality(C2) <= function_calls[f]
      /\ Cardinality(C2) < function_calls[f] => f \in Marked
      /\ f \in Marked => function_calls[f] > 0
  BY DEF CallInv
<1>b. /\ function_calls \in [Ids -> Nat] /\ function_calls[f] \in Nat
      /\ started.calls \in [Ids -> Nat] /\ started.calls[f] \in Nat
  BY DEF TypeInv, Work
<1>c. functions_seen' = functions_seen => Marked' = Marked
  BY Zenon DEF Marked, IsSet, Word
<1>1. CASE Aside
  <2>1. C1' = C1 /\ C2' = C2
    BY <1>1, AsideSets DEF CallPlaces
  <2>2. UNCHANGED <<functions, started>>
    BY <1>1, AsideSteps
  <2> QED
    BY <1>a, <1>c, <2>1, <2>2, Zenon DEF functions
<1>2. ASSUME NEW t \in Threads, Hook(t)
      PROVE  /\ function_calls'[f] + Cardinality(C1') = started'.calls[f]
             /\ Cardinality(C2') <= function_calls'[f]
             /\ Cardinality(C2') < function_calls'[f] => f \in Marked'
             /\ f \in Marked' => function_calls'[f] > 0
  <2>b. /\ C1 \in SUBSET Threads /\ C1' \in SUBSET Threads /\ C1 \ {t} = C1' \ {t}
        /\ t \in C1 <=> pc[t] = "call 1" /\ event[t].id = f
        /\ t \in C1' <=> pc'[t] = "call 1" /\ event'[t].id = f
    BY <1>2, CallSets, Zenon
  <2>c. /\ C2 \in SUBSET Threads /\ C2' \in SUBSET Threads /\ C2 \ {t} = C2' \ {t}
        /\ t \in C2 <=> pc[t] = "call 2" /\ event[t].id = f
        /\ t \in C2' <=> pc'[t] = "call 2" /\ event'[t].id = f
    BY <1>2, CallSets, Zenon
  <2> HIDE DEF C1, C2
  <2>d. /\ Cardinality(C1) \in Nat /\ Cardinality(C1') \in Nat
        /\ (t \in C1 <=> t \in C1') => Cardinality(C1') = Cardinality(C1)
        /\ t \notin C1 /\ t \in C1' => Cardinality(C1') = Cardinality(C1) + 1
        /\ t \in C1 /\ t \notin C1' => Cardinality(C1) = Cardinality(C1') + 1
    BY <2>b, Moved
  <2>e. /\ Cardinality(C2) \in Nat /\ Cardinality(C2') \in Nat
        /\ (t \in C2 <=> t \in C2') => Cardinality(C2') = Cardinality(C2)
        /\ t \notin C2 /\ t \in C2' => Cardinality(C2') = Cardinality(C2) + 1
        /\ t \in C2 /\ t \notin C2' => Cardinality(C2) = Cardinality(C2') + 1
    BY <2>c, Moved
  <2>1. CASE EnterFunction(t)
    <3>1. /\ UNCHANGED <<functions, instructions>>
          /\ pc[t] = "app" /\ pc'[t] = "call 1"
          /\ started'.calls = [started.calls EXCEPT ![event'[t].id] = @ + 1]
      BY <2>1, EnterFunctionEffect
    <3>2. function_calls' = function_calls /\ Marked' = Marked
      BY <1>c, <3>1 DEF functions
    <3>3. t \notin C1 /\ t \notin C2 /\ t \notin C2' /\ (t \in C1' <=> event'[t].id = f)
      BY <2>b, <2>c, <3>1
    <3>4. event'[t].id = f => started'.calls[f] = started.calls[f] + 1
      BY <1>b, <3>1
    <3>5. event'[t].id # f => started'.calls[f] = started.calls[f]
      BY <1>b, <3>1
    <3> QED
      BY <1>a, <1>b, <2>d, <2>e, <3>2, <3>3, <3>4, <3>5
  <2>2. CASE CountCall(t, "call 1", "call 2")
    <3>1. /\ UNCHANGED <<functions_seen, instructions, event, started>>
          /\ pc[t] = "call 1" /\ pc'[t] = "call 2"
          /\ function_calls' = [function_calls EXCEPT ![event[t].id] = @ + 1]
      BY <2>2, CountCallEffect
    <3>2. started' = started /\ Marked' = Marked
      BY <1>c, <3>1
    <3>3. /\ t \notin C1' /\ t \notin C2
          /\ t \in C1 <=> event[t].id = f
          /\ t \in C2' <=> event[t].id = f
      BY <2>b, <2>c, <3>1
    <3>4. event[t].id = f => function_calls'[f] = function_calls[f] + 1
      BY <1>b, <3>1
    <3>5. event[t].id # f => function_calls'[f] = function_calls[f]
      BY <1>b, <3>1
    <3> QED
      BY <1>a, <1>b, <2>d, <2>e, <3>2, <3>3, <3>4, <3>5
  <2>3. CASE MarkSeen(t, "call 2", "app")
    <3>1. /\ UNCHANGED <<function_calls, instructions, event, started>>
          /\ pc[t] = "call 2" /\ pc'[t] = "app"
          /\ Marked' = Marked \cup {event[t].id}
      BY <2>3, MarkSeenEffect
    <3>2. /\ t \notin C1 /\ t \notin C1' /\ t \notin C2'
          /\ t \in C2 <=> event[t].id = f
      BY <2>b, <2>c, <3>1
    <3>3. f \in Marked' <=> f \in Marked \/ event[t].id = f
      BY <3>1
    <3>4. function_calls' = function_calls /\ started' = started
      BY <3>1
    <3> QED
      BY <1>a, <1>b, <2>d, <2>e, <3>2, <3>3, <3>4
  <2>4. CASE EnterBlock(t) \/ CountInstruction(t) \/ CountUnsafe(t) \/ CountKind(t)
    <3>1. /\ UNCHANGED functions /\ started'.calls = started.calls
          /\ pc[t] \in {"app"} \cup BlockPlaces /\ pc'[t] \in {"app"} \cup BlockPlaces
      <4>1. CASE EnterBlock(t)
        BY <4>1, EnterBlockEffect, Zenon DEF BlockPlaces
      <4>2. CASE CountInstruction(t)
        BY <4>2, CountInstructionEffect, Zenon DEF BlockPlaces
      <4>3. CASE CountUnsafe(t)
        BY <4>3, CountUnsafeEffect, Zenon DEF BlockPlaces
      <4>4. CASE CountKind(t)
        BY <4>4, CountKindEffect, Zenon DEF BlockPlaces
      <4> QED
        BY <2>4, <4>1, <4>2, <4>3, <4>4
    <3>2. pc[t] \notin CallPlaces /\ pc'[t] \notin CallPlaces
      BY <3>1 DEF BlockPlaces, CallPlaces
    <3>3. function_calls' = function_calls /\ Marked' = Marked
      BY <1>c, <3>1 DEF functions
    <3>4. Cardinality(C1') = Cardinality(C1) /\ Cardinality(C2') = Cardinality(C2)
      BY <2>b, <2>c, <2>d, <2>e, <3>2 DEF CallPlaces
    <3> QED
      BY <1>a, <1>b, <3>1, <3>3, <3>4
  <2> QED
    BY <1>2, <2>1, <2>2, <2>3, <2>4, Zenon DEF Hook, RecordFunction
<1> QED
  BY <1>1, <1>2

\* The same for the blocks; those that are counted in all the counters leave.
LEMMA BlockStep == TypeInv /\ BlockInv /\ (Aside \/ \E t \in Threads : Hook(t)) => BlockInv'
<1> SUFFICES ASSUME TypeInv, BlockInv, Aside \/ \E t \in Threads : Hook(t)
             PROVE  BlockInv'
  OBVIOUS
<1> DEFINE E1 == Executing({"block 1"})
           E2 == Executing({"block 2", "block 3"})
           U1 == Unsafe({"block 1", "block 2"})
           U2 == Unsafe(BlockPlaces)
           Sums == /\ total_instructions + Cardinality(E1) = started.total
                   /\ Cardinality(E2) <= total_instructions
                   /\ total_unsafe_instructions + Cardinality(U1) = started.unsafe
                   /\ unsafe_kinds + Cardinality(U2) = started.unsafe
           Safe == \A t \in Threads : pc[t] \in {"block 2", "block 3"} => event[t].unsafe
<1>a. Sums /\ Safe /\ (Sums' /\ Safe' => BlockInv')
  BY Zenon DEF BlockInv
<1>b. /\ total_instructions \in Nat /\ total_unsafe_instructions \in Nat /\ unsafe_kinds \in Nat
      /\ started.total \in Nat /\ started.unsafe \in Nat
  BY DEF TypeInv, Work
<1>c. Sums
  BY <1>a
<1>1. CASE Aside
  <2>1. {"block 1"} \subseteq BlockPlaces /\ {"block 2", "block 3"} \subseteq BlockPlaces
        /\ {"block 1", "block 2"} \subseteq BlockPlaces /\ BlockPlaces \subseteq BlockPlaces
    BY DEF BlockPlaces
  <2>2. E1' = E1 /\ E2' = E2 /\ U1' = U1 /\ U2' = U2
    BY <1>1, <2>1, AsideSets
  <2>3. /\ total_instructions' = total_instructions
        /\ total_unsafe_instructions' = total_unsafe_instructions
        /\ unsafe_kinds' = unsafe_kinds /\ started' = started /\ event' = event
    BY <1>1, AsideSteps, Zenon DEF instructions
  <2>4. Safe'
    <3>1. E2 = {t \in Threads : pc[t] \in {"block 2", "block 3"}}
      BY DEF Executing
    <3>2. E2' = {t \in Threads : pc'[t] \in {"block 2", "block 3"}}
      BY DEF Executing
    <3>3. \A t \in Threads : pc'[t] \in {"block 2", "block 3"} => pc[t] \in {"block 2", "block 3"}
      BY <2>2, <3>1, <3>2, Zenon
    <3> QED
      BY <1>a, <2>3, <3>3, Zenon
  <2> QED
    BY <1>a, <2>2, <2>3, <2>4, Zenon
<1>2. ASSUME NEW t \in Threads, Hook(t)
      PROVE  BlockInv'
  <2>a. /\ {"block 1"} \in SUBSET Places /\ {"block 2", "block 3"} \in SUBSET Places
        /\ {"block 1", "block 2"} \in SUBSET Places /\ BlockPlaces \in SUBSET Places
    BY DEF Places, BlockPlaces
  <2>b. /\ E1 \in SUBSET Threads /\ E1' \in SUBSET Threads /\ E1 \ {t} = E1' \ {t}
        /\ t \in E1 <=> pc[t] = "block 1"
        /\ t \in E1' <=> pc'[t] = "block 1"
    BY <1>2, <2>a, BlockSets, Zenon
  <2>c. /\ E2 \in SUBSET Threads /\ E2' \in SUBSET Threads /\ E2 \ {t} = E2' \ {t}
        /\ t \in E2 <=> pc[t] = "block 2" \/ pc[t] = "block 3"
        /\ t \in E2' <=> pc'[t] = "block 2" \/ pc'[t] = "block 3"
    BY <1>2, <2>a, BlockSets, Zenon
  <2>d. /\ U1 \in SUBSET Threads /\ U1' \in SUBSET Threads /\ U1 \ {t} = U1' \ {t}
        /\ t \in U1 <=> (pc[t] = "block 1" \/ pc[t] = "block 2") /\ event[t].unsafe
        /\ t \in U1' <=> (pc'[t] = "block 1" \/ pc'[t] = "block 2") /\ event'[t].unsafe
    BY <1>2, <2>a, BlockSets, Zenon
  <2>e. /\ U2 \in SUBSET Threads /\ U2' \in SUBSET Threads /\ U2 \ {t} = U2' \ {t}
        /\ t \in U2 <=> (pc[t] = "block 1" \/ pc[t] = "block 2" \/ pc[t] = "block 3")
                          /\ event[t].unsafe
        /\ t \in U2' <=> (pc'[t] = "block 1" \/ pc'[t] = "block 2" \/ pc'[t] = "block 3")
                           /\ event'[t].unsafe
    BY <1>2, <2>a, BlockSets, Zenon DEF BlockPlaces
  <2> HIDE DEF E1, E2, U1, U2
  <2> DEFINE Stays(A) == t \in A <=> t \in A'
             Joins(A) == t \notin A /\ t \in A'
             Leaves(A) == t \in A /\ t \notin A'
  <2>f. /\ Cardinality(E1) \in Nat /\ Cardinality(E1') \in Nat
        /\ Stays(E1) => Cardinality(E1') = Cardinality(E1)
        /\ Joins(E1) => Cardinality(E1') = Cardinality(E1) + 1
        /\ Leaves(E1) => Cardinality(E1) = Cardinality(E1') + 1
    BY <2>b, Moved
  <2>g. /\ Cardinality(E2) \in Nat /\ Cardinality(E2') \in Nat
        /\ Stays(E2) => Cardinality(E2') = Cardinality(E2)
        /\ Joins(E2) => Cardinality(E2') = Cardinality(E2) + 1
        /\ Leaves(E2) => Cardinality(E2) = Cardinality(E2') + 1
    BY <2>c, Moved
  <2>h. /\ Cardinality(U1) \in Nat /\ Cardinality(U1') \in Nat
        /\ Stays(U1) => Cardinality(U1') = Cardinality(U1)
        /\ Joins(U1) => Cardinality(U1') = Cardinality(U1) + 1
        /\ Leaves(U1) => Cardinality(U1) = Cardinality(U1') + 1
    BY <2>d, Moved
  <2>i. /\ Cardinality(U2) \in Nat /\ Cardinality(U2') \in Nat
        /\ Stays(U2) => Cardinality(U2') = Cardinality(U2)
        /\ Joins(U2) => Cardinality(U2') = Cardinality(U2) + 1
        /\ Leaves(U2) => Cardinality(U2) = Cardinality(U2') + 1
    BY <2>e, Moved
  <2>j. (pc'[t] \in {"block 2", "block 3"} => event'[t].unsafe) => Safe'
    <3>1. \A u \in Threads \ {t} : pc'[u] = pc[u] /\ event'[u] = event[u]
      BY <1>2, HookSteps
    <3> QED
      BY <1>a, <3>1, Zenon
  <2>k. Safe
    BY <1>a
  <2> HIDE DEF Safe
  <2>1. CASE EnterFunction(t) \/ RecordFunction(t)
    <3>1. /\ pc[t] \notin BlockPlaces /\ pc'[t] \notin BlockPlaces
          /\ UNCHANGED instructions /\ started'.total = started.total
          /\ started'.unsafe = started.unsafe
      <4>1. CASE EnterFunction(t)
        BY <4>1, EnterFunctionEffect, Zenon DEF BlockPlaces
      <4>2. CASE CountCall(t, "call 1", "call 2")
        BY <4>2, CountCallEffect, Zenon DEF BlockPlaces
      <4>3. CASE MarkSeen(t, "call 2", "app")
        BY <4>3, MarkSeenEffect, Zenon DEF BlockPlaces
      <4> QED
        BY <2>1, <4>1, <4>2, <4>3 DEF RecordFunction
    <3>2. Stays(E1) /\ Stays(E2) /\ Stays(U1) /\ Stays(U2) /\ Safe'
      BY <2>b, <2>c, <2>d, <2>e, <2>j, <3>1, Zenon DEF BlockPlaces
    <3>3. Sums'
      BY <1>a, <2>f, <2>g, <2>h, <2>i, <3>1, <3>2, Zenon DEF instructions
    <3> QED
      BY <1>a, <3>2, <3>3
  <2>2. CASE EnterBlock(t)
    <3>1. /\ UNCHANGED instructions /\ pc[t] = "app" /\ pc'[t] = "block 1"
          /\ started'.total = started.total + 1
          /\ event'[t].unsafe => started'.unsafe = started.unsafe + 1
          /\ ~event'[t].unsafe => started'.unsafe = started.unsafe
      BY <2>2, EnterBlockEffect, Zenon
    <3>2. /\ Joins(E1) /\ Stays(E2) /\ Safe'
          /\ event'[t].unsafe => Joins(U1) /\ Joins(U2)
          /\ ~event'[t].unsafe => Stays(U1) /\ Stays(U2)
      BY <2>b, <2>c, <2>d, <2>e, <2>j, <3>1, Zenon
    <3>3. \/ Joins(U1) /\ Joins(U2) /\ started'.unsafe = started.unsafe + 1
          \/ Stays(U1) /\ Stays(U2) /\ started'.unsafe = started.unsafe
      BY <3>1, <3>2, Zenon
    <3>4. UNCHANGED instructions /\ started'.total = started.total + 1
      BY <3>1
    <3>5. Sums'
      BY <1>b, <1>c, <2>f, <2>g, <2>h, <2>i, <3>2, <3>3, <3>4 DEF instructions
    <3> QED
      BY <1>a, <3>2, <3>5
  <2>3. CASE CountInstruction(t)
    <3>1. /\ pc[t] = "block 1" /\ pc'[t] = IF event[t].unsafe THEN "block 2" ELSE "app"
          /\ UNCHANGED <<event, started, total_unsafe_instructions, unsafe_kinds>>
          /\ total_instructions' = total_instructions + 1
      BY <2>3, CountInstructionEffect, Zenon
    <3>2. Leaves(E1) /\ (Joins(E2) \/ Stays(E2)) /\ Stays(U1) /\ Stays(U2) /\ Safe'
      BY <2>b, <2>c, <2>d, <2>e, <2>j, <3>1, Zenon
    <3>3. /\ UNCHANGED <<started, total_unsafe_instructions, unsafe_kinds>>
          /\ total_instructions' = total_instructions + 1
      BY <3>1
    <3>4. Sums'
      BY <1>b, <1>c, <2>f, <2>g, <2>h, <2>i, <3>2, <3>3
    <3> QED
      BY <1>a, <3>2, <3>4
  <2>4. CASE CountUnsafe(t)
    <3>1. /\ pc[t] = "block 2" /\ pc'[t] = "block 3"
          /\ UNCHANGED <<event, started, total_instructions, unsafe_kinds>>
          /\ total_unsafe_instructions' = total_unsafe_instructions + 1
      BY <2>4, CountUnsafeEffect, Zenon
    <3>2. event[t].unsafe /\ event'[t].unsafe
      BY <2>k, <3>1, Zenon DEF Safe
    <3>3. Stays(E1) /\ Stays(E2) /\ Leaves(U1) /\ Stays(U2) /\ Safe'
      BY <2>b, <2>c, <2>d, <2>e, <2>j, <3>1, <3>2, Zenon
    <3>4. /\ UNCHANGED <<started, total_instructions, unsafe_kinds>>
          /\ total_unsafe_instructions' = total_unsafe_instructions + 1
      BY <3>1
    <3>5. Sums'
      BY <1>b, <1>c, <2>f, <2>g, <2>h, <2>i, <3>3, <3>4
    <3> QED
      BY <1>a, <3>3, <3>5
  <2>5. CASE CountKind(t)
    <3>1. /\ pc[t] = "block 3" /\ pc'[t] = "app"
          /\ UNCHANGED <<event, started, total_instructions, total_unsafe_instructions>>
          /\ unsafe_kinds' = unsafe_kinds + 1
      BY <2>5, CountKindEffect, Zenon
    <3>2. event[t].unsafe
      BY <2>k, <3>1, Zenon DEF Safe
    <3>3. Stays(E1) /\ Leaves(E2) /\ Stays(U1) /\ Leaves(U2) /\ Safe'
      BY <2>b, <2>c, <2>d, <2>e, <2>j, <3>1, <3>2, Zenon
    <3>4. /\ UNCHANGED <<started, total_instructions, total_unsafe_instructions>>
          /\ unsafe_kinds' = unsafe_kinds + 1
      BY <3>1
    <3>5. Sums'
      BY <1>b, <1>c, <2>f, <2>g, <2>h, <2>i, <3>3, <3>4
    <3> QED
      BY <1>a, <3>3, <3>5
  <2> QED
    BY <1>2, <2>1, <2>2, <2>3, <2>4, <2>5, Zenon DEF Hook
<1> QED
  BY <1>1, <1>2

-----------------------------------------------------------------------------
(* The report                                                              *)

\* What dump_stats takes as its beginning has been counted: whoever is counted has
\* left, but for those who still have to set the bit or to add to the other counters.
LEMMA EndedCounted ==
    ASSUME TypeInv, CallInv, BlockInv
    PROVE  /\ Ended \in Work
           /\ \A f \in Ids :
                Ended.calls[f] <= function_calls[f] /\ (Ended.calls[f] > 0 => f \in Marked)
           /\ Ended.total <= total_instructions
           /\ Ended.unsafe <= total_unsafe_instructions /\ Ended.unsafe <= unsafe_kinds
<1> DEFINE CallingNow(f) == {t \in Threads : pc[t] \in {"call 1", "call 2"} /\ event[t].id = f}
           ExecutingNow == {t \in Threads : pc[t] \in {"block 1", "block 2", "block 3"}}
           UnsafeNow == {t \in Threads : pc[t] \in {"block 1", "block 2", "block 3"} /\ event[t].unsafe}
<1>a. /\ function_calls \in [Ids -> Nat]
      /\ total_instructions \in Nat /\ total_unsafe_instructions \in Nat /\ unsafe_kinds \in Nat
      /\ started.calls \in [Ids -> Nat] /\ started.total \in Nat /\ started.unsafe \in Nat
  BY DEF TypeInv, Work
<1>1. Ended = [calls |-> [f \in Ids |-> started.calls[f] - Cardinality(CallingNow(f))],
               total |-> started.total - Cardinality(ExecutingNow),
               unsafe |-> started.unsafe - Cardinality(UnsafeNow)]
  <2>1. \A f \in Ids :
          CallingNow(f) =
            {t \in Threads : [u \in Threads |-> pc[u] \in {"call 1", "call 2"} /\ event[u].id = f][t]}
    OBVIOUS
  <2>2. ExecutingNow =
          {t \in Threads : [u \in Threads |-> pc[u] \in {"block 1", "block 2", "block 3"}][t]}
    OBVIOUS
  <2>3. UnsafeNow =
          {t \in Threads :
             [u \in Threads |->
                [v \in Threads |-> pc[v] \in {"block 1", "block 2", "block 3"}][u]
                  /\ event[u].unsafe][t]}
    OBVIOUS
  <2> HIDE DEF CallingNow, ExecutingNow, UnsafeNow
  <2> QED
    BY <2>1, <2>2, <2>3, Zenon DEF Ended
<1>2. ASSUME NEW f \in Ids
      PROVE  /\ started.calls[f] - Cardinality(CallingNow(f)) \in Nat
             /\ started.calls[f] - Cardinality(CallingNow(f)) <= function_calls[f]
             /\ started.calls[f] - Cardinality(CallingNow(f)) > 0 => f \in Marked
  <2> DEFINE C1 == Calling(f, {"call 1"})
             C2 == Calling(f, {"call 2"})
  <2>1. /\ C1 \in SUBSET Threads /\ C2 \in SUBSET Threads /\ C1 \cap C2 = {}
        /\ CallingNow(f) = C1 \cup C2
    BY DEF Calling
  <2>2. /\ function_calls[f] + Cardinality(C1) = started.calls[f]
        /\ Cardinality(C2) <= function_calls[f]
        /\ Cardinality(C2) < function_calls[f] => f \in Marked
    BY DEF CallInv
  <2>3. /\ Cardinality(C1) \in Nat /\ Cardinality(C2) \in Nat
        /\ Cardinality(CallingNow(f)) = Cardinality(C1) + Cardinality(C2)
    BY <2>1, Parted, Zenon
  <2> HIDE DEF C1, C2, CallingNow
  <2> QED
    BY <1>a, <2>2, <2>3
<1>3. /\ started.total - Cardinality(ExecutingNow) \in Nat
      /\ started.total - Cardinality(ExecutingNow) <= total_instructions
  <2> DEFINE E1 == Executing({"block 1"})
             E2 == Executing({"block 2", "block 3"})
  <2>1. /\ E1 \in SUBSET Threads /\ E2 \in SUBSET Threads /\ E1 \cap E2 = {}
        /\ ExecutingNow = E1 \cup E2
    BY DEF Executing
  <2>2. /\ total_instructions + Cardinality(E1) = started.total
        /\ Cardinality(E2) <= total_instructions
    BY DEF BlockInv
  <2>3. /\ Cardinality(E1) \in Nat /\ Cardinality(E2) \in Nat
        /\ Cardinality(ExecutingNow) = Cardinality(E1) + Cardinality(E2)
    BY <2>1, Parted, Zenon
  <2> HIDE DEF E1, E2, ExecutingNow
  <2> QED
    BY <1>a, <2>2, <2>3
<1>4. /\ started.unsafe - Cardinality(UnsafeNow) \in Nat
      /\ started.unsafe - Cardinality(UnsafeNow) <= total_unsafe_instructions
      /\ started.unsafe - Cardinality(UnsafeNow) <= unsafe_kinds
  <2> DEFINE U1 == Unsafe({"block 1", "block 2"})
             U3 == Unsafe({"block 3"})
  <2>1. /\ U1 \in SUBSET Threads /\ U3 \in SUBSET Threads /\ U1 \cap U3 = {}
        /\ UnsafeNow = U1 \cup U3 /\ UnsafeNow = Unsafe(BlockPlaces)
    BY DEF Unsafe, BlockPlaces
  <2>2. /\ total_unsafe_instructions + Cardinality(U1) = started.unsafe
        /\ unsafe_kinds + Cardinality(UnsafeNow) = started.unsafe
    BY <2>1, Zenon DEF BlockInv
  <2>3. /\ Cardinality(U1) \in Nat /\ Cardinality(U3) \in Nat
        /\ Cardinality(UnsafeNow) = Cardinality(U1) + Cardinality(U3)
    BY <2>1, Parted, Zenon
  <2> HIDE DEF U1, U3, UnsafeNow
  <2> QED
    BY <1>a, <2>2, <2>3
<1> HIDE DEF CallingNow, ExecutingNow, UnsafeNow
<1>5. Ended \in Work
  BY <1>1, <1>2, <1>3, <1>4, Zenon DEF Work
<1>6. /\ \A f \in Ids : Ended.calls[f] = started.calls[f] - Cardinality(CallingNow(f))
      /\ Ended.total = started.total - Cardinality(ExecutingNow)
      /\ Ended.unsafe = started.unsafe - Cardinality(UnsafeNow)
  BY <1>1, Zenon
<1> QED
  BY <1>2, <1>3, <1>4, <1>5, <1>6, Zenon

\* What dump_stats does: nothing, or the report begins.
Skips ==
    /\ pc'[Main] = "app" /\ UNCHANGED <<index, report, before>>
    /\ dumps > 0 \/ ~(metadata_count > 0)

Begins ==
    /\ pc'[Main] = "total" /\ index' = 0 /\ report' = NoReport /\ before' = Ended
    /\ ~(dumps > 0) /\ metadata_count # 0

LEMMA DumpEffect ==
    ASSUME TypeInv, FlagInv, DumpStats
    PROVE  /\ dumps < 2 /\ dumps' = dumps + 1 /\ stats_written'
           /\ UNCHANGED table /\ UNCHANGED <<functions, instructions, written>>
           /\ pc[Main] = "app"
           /\ Skips \/ Begins
<1>1. pc \in [Threads -> Places] /\ Main \in Threads
  BY ThreadsAssumption DEF TypeInv
<1>2. /\ dumps < 2 /\ dumps' = dumps + 1 /\ stats_written'
      /\ UNCHANGED table /\ UNCHANGED <<functions, instructions, written>>
  BY Zenon DEF DumpStats, Dump
<1>3. metadata_count = 0 => ~(metadata_count > 0)
  BY DEF TypeInv
<1>4. CASE stats_written \/ ~metadata_initialized \/ metadata_count = 0
  <2>1. Go(Main, "app", "app") /\ UNCHANGED <<index, report, before>>
    BY <1>4, Zenon DEF DumpStats, Dump
  <2>2. pc[Main] = "app" /\ pc'[Main] = "app"
    BY <1>1, <2>1, Zenon DEF Go
  <2>3. dumps > 0 \/ ~(metadata_count > 0)
    BY <1>3, <1>4, Zenon DEF FlagInv
  <2> QED
    BY <1>2, <2>1, <2>2, <2>3, Zenon DEF Skips
<1>5. CASE ~(stats_written \/ ~metadata_initialized \/ metadata_count = 0)
  <2>1. /\ Go(Main, "app", "total") /\ index' = 0 /\ report' = NoReport /\ before' = Ended
        /\ metadata_count # 0
    BY <1>5, Zenon DEF DumpStats, Dump
  <2>2. pc[Main] = "app" /\ pc'[Main] = "total"
    BY <1>1, <2>1, Zenon DEF Go
  <2>3. ~(dumps > 0)
    BY <1>5, Zenon DEF FlagInv
  <2> QED
    BY <1>2, <2>1, <2>2, <2>3, Zenon DEF Begins
<1> QED
  BY <1>4, <1>5, Zenon

\* Main alone moves when it is not in a hook.
LEMMA MainGoes ==
    ASSUME TypeInv, NEW from, NEW to, Go(Main, from, to)
    PROVE  pc[Main] = from /\ pc'[Main] = to
BY ThreadsAssumption, Zenon DEF Go, TypeInv

LEMMA BeforeInit == Init => BeforeInv
<1> SUFFICES ASSUME Init PROVE BeforeInv
  OBVIOUS
<1>1. /\ before = NoWork /\ total_instructions = 0 /\ total_unsafe_instructions = 0
      /\ unsafe_kinds = 0 /\ function_calls = [f \in Ids |-> 0]
  BY DEF Init
<1>2. NoWork \in Work
  BY DEF NoWork, Work
<1> QED
  BY <1>1, <1>2 DEF BeforeInv, NoWork

\* The counters only grow, and a report begins with what has ended.
LEMMA BeforeStep ==
    ASSUME TypeInv, CallInv, BlockInv, BeforeInv, FlagInv,
           TypeInv', BitsStay, CountersGrow, Aside \/ \E t \in Threads : Hook(t)
    PROVE  BeforeInv'
<1> DEFINE Counted(w) ==
             /\ \A f \in Ids : w.calls[f] <= function_calls[f]
             /\ w.total <= total_instructions
             /\ w.unsafe <= total_unsafe_instructions /\ w.unsafe <= unsafe_kinds
           Seen(w) == \A f \in Ids : w.calls[f] > 0 => f \in Marked
<1>a. /\ function_calls \in [Ids -> Nat] /\ function_calls' \in [Ids -> Nat]
      /\ total_instructions \in Nat /\ total_unsafe_instructions \in Nat /\ unsafe_kinds \in Nat
      /\ total_instructions' \in Nat /\ total_unsafe_instructions' \in Nat
      /\ unsafe_kinds' \in Nat
  BY DEF TypeInv
<1>b. /\ before \in Work /\ Counted(before) /\ Seen(before)
      /\ before' \in Work /\ Counted(before)' /\ Seen(before)' => BeforeInv'
  BY Zenon DEF BeforeInv
<1>c. Ended \in Work /\ Counted(Ended) /\ Seen(Ended)
  BY EndedCounted, Zenon
<1>1. before' = before \/ before' = Ended
  <2>1. CASE Aside
    BY <2>1, Zenon DEF Aside, InitMetadata, StartMain, DumpStats, Dump, ReadTotal, ReadUnsafe,
         ReadKinds, PassFunction, SeeFunction, Read, ReadCalls, WriteReport, WriteAfter, Exit,
         vars, exit
  <2>2. CASE \E t \in Threads : Hook(t)
    BY <2>2, HookSteps, Zenon DEF exit
  <2> QED
    BY <2>1, <2>2
<1>2. ASSUME NEW w \in Work, Counted(w), Seen(w), before' = w
      PROVE  BeforeInv'
  <2>1. /\ w.calls \in [Ids -> Nat] /\ w.total \in Nat /\ w.unsafe \in Nat
    BY DEF Work
  <2>2. /\ \A f \in Ids : function_calls[f] <= function_calls'[f]
        /\ total_instructions <= total_instructions'
        /\ total_unsafe_instructions <= total_unsafe_instructions'
        /\ unsafe_kinds <= unsafe_kinds'
    BY DEF CountersGrow
  <2>3. /\ \A f \in Ids : w.calls[f] <= function_calls[f]
        /\ w.total <= total_instructions
        /\ w.unsafe <= total_unsafe_instructions /\ w.unsafe <= unsafe_kinds
    BY <1>2
  <2>4. /\ \A f \in Ids : w.calls[f] <= function_calls'[f]
        /\ w.total <= total_instructions'
        /\ w.unsafe <= total_unsafe_instructions' /\ w.unsafe <= unsafe_kinds'
    BY <1>a, <2>1, <2>2, <2>3
  <2>5. \A f \in Ids : w.calls[f] > 0 => f \in Marked'
    BY <1>2, Zenon DEF BitsStay
  <2> QED
    BY <1>2, <2>4, <2>5, Zenon DEF BeforeInv
<1> HIDE DEF Counted, Seen
<1> QED
  BY <1>1, <1>2, <1>b, <1>c

LEMMA FlagInit == Init => FlagInv /\ OnceInv
<1> SUFFICES ASSUME Init PROVE FlagInv /\ OnceInv
  OBVIOUS
<1>1. /\ ~stats_written /\ dumps = 0 /\ written = 0 /\ metadata_count = 0
      /\ pc[Main] = "constructors"
  BY ThreadsAssumption DEF Init
<1>2. ~(dumps > 0) /\ ~(metadata_count > 0)
  BY <1>1
<1>3. FlagInv
  BY <1>1, <1>2, Zenon DEF FlagInv
<1>4. OnceInv
  BY <1>1 DEF OnceInv, Reporting
<1> QED
  BY <1>3, <1>4

LEMMA FlagStep ==
    ASSUME TypeInv, FlagInv, OnceInv, Aside \/ \E t \in Threads : Hook(t)
    PROVE  FlagInv'
<1>1. UNCHANGED <<stats_written, dumps>> \/ (stats_written' /\ dumps' > 0)
  <2>1. CASE DumpStats
    <3>1. stats_written' /\ dumps' = dumps + 1
      BY <2>1, DumpEffect
    <3>2. dumps' > 0
      BY <3>1 DEF OnceInv
    <3> QED
      BY <3>1, <3>2
  <2>2. CASE Aside /\ ~DumpStats
    BY <2>2, Zenon DEF Aside, InitMetadata, StartMain, ReadTotal, ReadUnsafe,
         ReadKinds, PassFunction, SeeFunction, Read, ReadCalls, WriteReport, WriteAfter, Exit,
         vars, exit
  <2>3. CASE \E t \in Threads : Hook(t)
    BY <2>3, HookSteps, Zenon DEF exit
  <2> QED
    BY <2>1, <2>2, <2>3
<1>2. UNCHANGED <<metadata_count, metadata_initialized>> \/ metadata_initialized' = TRUE
  <2>1. CASE Aside
    BY <2>1, Zenon DEF Aside, InitMetadata, StartMain, DumpStats, Dump, ReadTotal, ReadUnsafe,
         ReadKinds, PassFunction, SeeFunction, Read, ReadCalls, WriteReport, WriteAfter, Exit,
         vars, table
  <2>2. CASE \E t \in Threads : Hook(t)
    BY <2>2, HookSteps, Zenon DEF table
  <2> QED
    BY <2>1, <2>2
<1>3. stats_written' <=> dumps' > 0
  <2>1. CASE UNCHANGED <<stats_written, dumps>>
    <3>1. stats_written' = stats_written /\ dumps' = dumps
      BY <2>1
    <3>2. stats_written <=> dumps > 0
      BY DEF FlagInv
    <3> QED
      BY <3>1, <3>2
  <2> QED
    BY <1>1, <2>1
<1>4. metadata_count' > 0 => metadata_initialized'
  <2>1. CASE UNCHANGED <<metadata_count, metadata_initialized>>
    <3>1. metadata_count' = metadata_count /\ metadata_initialized' = metadata_initialized
      BY <2>1
    <3>2. metadata_count > 0 => metadata_initialized
      BY DEF FlagInv
    <3> QED
      BY <3>1, <3>2
  <2> QED
    BY <1>2, <2>1
<1> QED
  BY <1>3, <1>4, Zenon DEF FlagInv

\* Only dump_stats begins a report, and it is the first one.
LEMMA OnceStep ==
    ASSUME TypeInv, FlagInv, OnceInv, TypeInv', Aside \/ \E t \in Threads : Hook(t)
    PROVE  OnceInv'
<1>a. /\ metadata_count \in Nat /\ index \in 0 .. metadata_count
      /\ metadata_count' \in Nat /\ index' \in 0 .. metadata_count'
  BY SizesAssumption DEF TypeInv
<1>b. /\ written \in 0 .. 1 /\ dumps \in 0 .. 2
      /\ pc[Main] = "constructors" => dumps = 0
      /\ pc[Main] = "exited" => dumps = 2
      /\ pc[Main] \in Reporting => written = 0
      /\ written = 1 => index = metadata_count
      /\ dumps = 0 => written = 0 /\ pc[Main] \notin Reporting
      /\ dumps > 0 /\ metadata_count > 0 /\ pc[Main] \notin Reporting => written = 1
  BY DEF OnceInv
<1>1. CASE \E t \in Threads : Hook(t)
  <2>1. PICK t \in Threads : Hook(t)
    BY <1>1
  <2>2. UNCHANGED <<metadata_count, written, dumps, index>>
    BY <2>1, HookSteps, Zenon DEF table, exit
  <2>3. pc'[Main] = pc[Main] \/ (pc[Main] \in HookPlaces /\ pc'[Main] \in HookPlaces)
    BY <2>1, HookSteps, ThreadsAssumption, Zenon
  <2>4. \A p \in HookPlaces : p # "constructors" /\ p # "exited" /\ p \notin Reporting
    BY DEF HookPlaces, CallPlaces, BlockPlaces, Reporting
  <2> QED
    BY <1>b, <2>2, <2>3, <2>4, Zenon DEF OnceInv
<1>2. CASE InitMetadata
  <2>1. pc[Main] = "constructors" /\ pc'[Main] = "constructors"
    BY <1>2, MainGoes, Zenon DEF InitMetadata
  <2>2. UNCHANGED <<written, dumps, index>>
    BY <1>2, Zenon DEF InitMetadata, exit
  <2> QED
    BY <1>b, <2>1, <2>2 DEF OnceInv, Reporting
<1>3. CASE StartMain
  <2>1. pc[Main] = "constructors" /\ pc'[Main] = "app"
    BY <1>3, MainGoes, Zenon DEF StartMain
  <2>2. UNCHANGED <<metadata_count, written, dumps, index>>
    BY <1>3, Zenon DEF StartMain, table, exit
  <2> QED
    BY <1>b, <2>1, <2>2 DEF OnceInv, Reporting
<1>4. CASE DumpStats
  <2>1. /\ dumps < 2 /\ dumps' = dumps + 1 /\ pc[Main] = "app"
        /\ UNCHANGED <<metadata_count, written>>
    BY <1>4, DumpEffect, Zenon DEF table
  <2>2. CASE Skips
    BY <1>b, <2>1, <2>2 DEF OnceInv, Reporting, Skips
  <2>3. CASE Begins
    BY <1>a, <1>b, <2>1, <2>3 DEF OnceInv, Reporting, Begins
  <2> QED
    BY <1>4, <2>2, <2>3, DumpEffect
<1>5. CASE ReadTotal \/ ReadUnsafe \/ ReadKinds \/ SeeFunction \/ PassFunction \/ ReadCalls
  <2>1. UNCHANGED <<metadata_count, written, dumps>>
    BY <1>5, Zenon DEF ReadTotal, ReadUnsafe, ReadKinds, SeeFunction, PassFunction, ReadCalls, Read,
         table
  <2>2. pc[Main] \in Reporting /\ pc'[Main] \in Reporting
    BY <1>5, MainGoes, Zenon DEF ReadTotal, ReadUnsafe, ReadKinds, SeeFunction, PassFunction,
         ReadCalls, Read, Reporting
  <2>3. pc'[Main] # "constructors" /\ pc'[Main] # "exited"
    BY <2>2 DEF Reporting
  <2> QED
    BY <1>b, <2>1, <2>2, <2>3 DEF OnceInv
<1>6. CASE WriteReport
  <2>1. pc[Main] = "function" /\ pc'[Main] = "app"
    BY <1>6, MainGoes, Zenon DEF WriteReport, WriteAfter
  <2>2. /\ index >= metadata_count /\ written' = written + 1
        /\ UNCHANGED <<metadata_count, dumps, index>>
    BY <1>6, Zenon DEF WriteReport, WriteAfter, table
  <2>3. written = 0 /\ dumps # 0
    BY <1>b, <2>1 DEF Reporting
  <2> QED
    BY <1>a, <1>b, <2>1, <2>2, <2>3 DEF OnceInv, Reporting
<1>7. CASE Exit
  <2>1. pc[Main] = "app" /\ pc'[Main] = "exited"
    BY <1>7, MainGoes, Zenon DEF Exit
  <2>2. dumps = 2 /\ UNCHANGED <<metadata_count, written, dumps, index>>
    BY <1>7, Zenon DEF Exit, table, exit
  <2> QED
    BY <1>b, <2>1, <2>2 DEF OnceInv, Reporting
<1>8. CASE UNCHANGED vars
  <2>1. UNCHANGED <<metadata_count, written, dumps, index, pc>>
    BY <1>8, Zenon DEF vars, table, exit
  <2> QED
    BY <1>b, <2>1, Zenon DEF OnceInv
<1> QED
  BY <1>1, <1>2, <1>3, <1>4, <1>5, <1>6, <1>7, <1>8, Zenon DEF Aside

\* What reading a counter leaves of the report.
LEMMA ReportFields ==
    ASSUME NEW r \in Reports
    PROVE  /\ r.calls \in [Ids -> Nat] /\ r.total \in Nat /\ r.unsafe \in Nat /\ r.kinds \in Nat
           /\ r.seen \subseteq Ids
BY DEF Reports

LEMMA ReportReads ==
    ASSUME NEW r \in Reports, NEW n, NEW s
    PROVE  /\ s = [r EXCEPT !.total = n] =>
                /\ s.total = n /\ s.unsafe = r.unsafe /\ s.kinds = r.kinds
                /\ s.calls = r.calls /\ s.seen = r.seen
           /\ s = [r EXCEPT !.unsafe = n] =>
                /\ s.unsafe = n /\ s.total = r.total /\ s.kinds = r.kinds
                /\ s.calls = r.calls /\ s.seen = r.seen
           /\ s = [r EXCEPT !.kinds = n] =>
                /\ s.kinds = n /\ s.total = r.total /\ s.unsafe = r.unsafe
                /\ s.calls = r.calls /\ s.seen = r.seen
BY Zenon DEF Reports

LEMMA ReportInit == Init => ReportInv /\ LoopInv
<1> SUFFICES ASSUME Init PROVE ReportInv /\ LoopInv
  OBVIOUS
<1>1. /\ report = NoReport /\ written = 0 /\ pc[Main] = "constructors"
      /\ total_instructions = 0 /\ total_unsafe_instructions = 0
      /\ unsafe_kinds = 0 /\ function_calls = [f \in Ids |-> 0]
  BY ThreadsAssumption DEF Init
<1>2. /\ report.calls = [f \in Ids |-> 0] /\ report.total = 0 /\ report.unsafe = 0
      /\ report.kinds = 0 /\ report.seen = {}
  BY <1>1 DEF NoReport
<1>3. \A P : pc[Main] \notin P => ~HasRead(P)
  BY <1>1 DEF HasRead, Reported
<1>4. /\ ~HasRead({"unsafe", "kinds", "function", "calls"})
      /\ ~HasRead({"kinds", "function", "calls"}) /\ ~HasRead({"function", "calls"})
  BY <1>1, <1>3
<1>5. ReportInv
  BY <1>1, <1>2, <1>4 DEF ReportInv
<1>6. LoopInv
  BY <1>1, <1>2, <1>4 DEF LoopInv
<1> QED
  BY <1>5, <1>6

\* A step that does not touch the report leaves what has been read below the counters.
LEMMA QuietStep ==
    ASSUME TypeInv, ReportInv, LoopInv, TypeInv', BitsStay, CountersGrow,
           UNCHANGED <<report, before, index, written>>,
           pc'[Main] = pc[Main] \/ (pc[Main] \notin Reporting /\ pc'[Main] \notin Reporting),
           pc[Main] = "calls" => metadata_count' = metadata_count
    PROVE  ReportInv' /\ LoopInv'
<1>a. /\ function_calls \in [Ids -> Nat] /\ function_calls' \in [Ids -> Nat]
      /\ total_instructions \in Nat /\ total_unsafe_instructions \in Nat /\ unsafe_kinds \in Nat
      /\ total_instructions' \in Nat /\ total_unsafe_instructions' \in Nat
      /\ unsafe_kinds' \in Nat
      /\ report \in Reports
  BY DEF TypeInv
<1>b. /\ report.calls \in [Ids -> Nat] /\ report.total \in Nat
      /\ report.unsafe \in Nat /\ report.kinds \in Nat
  BY <1>a, ReportFields
<1>c. report' = report /\ before' = before /\ index' = index /\ written' = written
  OBVIOUS
<1>1. \A P \in SUBSET Reporting : pc'[Main] \in P <=> pc[Main] \in P
  OBVIOUS
<1>2. \A P \in SUBSET Reporting : HasRead(P)' <=> HasRead(P)
  BY <1>1, <1>c, Zenon DEF HasRead, Reported
<1>3. /\ {"unsafe", "kinds", "function", "calls"} \in SUBSET Reporting
      /\ {"kinds", "function", "calls"} \in SUBSET Reporting
      /\ {"function", "calls"} \in SUBSET Reporting /\ {"calls"} \in SUBSET Reporting
      /\ {"total", "unsafe", "kinds"} \in SUBSET Reporting
  BY DEF Reporting
<1>4. pc'[Main] = "calls" <=> pc[Main] = "calls"
  BY <1>1, <1>3, Zenon
<1>5. /\ \A f \in Ids : report.calls[f] <= function_calls'[f]
      /\ report.total <= total_instructions'
      /\ report.unsafe <= total_unsafe_instructions' /\ report.kinds <= unsafe_kinds'
  <2>1. /\ \A f \in Ids : function_calls[f] <= function_calls'[f]
        /\ total_instructions <= total_instructions'
        /\ total_unsafe_instructions <= total_unsafe_instructions'
        /\ unsafe_kinds <= unsafe_kinds'
    BY DEF CountersGrow
  <2>2. /\ \A f \in Ids : report.calls[f] <= function_calls[f]
        /\ report.total <= total_instructions
        /\ report.unsafe <= total_unsafe_instructions /\ report.kinds <= unsafe_kinds
    BY DEF ReportInv
  <2> QED
    BY <1>a, <1>b, <2>1, <2>2
<1>6. ReportInv'
  BY <1>c, <1>2, <1>3, <1>5, Zenon DEF ReportInv
<1>7. LoopInv'
  BY <1>c, <1>1, <1>2, <1>3, <1>4, Zenon DEF LoopInv, BitsStay
<1> QED
  BY <1>6, <1>7

\* The steps that may go on around a report.
LEMMA AroundStep ==
    ASSUME TypeInv, FlagInv, ReportInv, LoopInv, TypeInv', BitsStay, CountersGrow,
           \/ \E t \in Threads : Hook(t)
           \/ InitMetadata \/ StartMain \/ Exit \/ (DumpStats /\ Skips) \/ UNCHANGED vars
    PROVE  ReportInv' /\ LoopInv'
<1>1. "app" \notin Reporting /\ "constructors" \notin Reporting /\ "exited" \notin Reporting
      /\ "calls" \in Reporting
  BY DEF Reporting
<1>2. CASE \E t \in Threads : Hook(t)
  <2>1. PICK t \in Threads : Hook(t)
    BY <1>2
  <2>2. UNCHANGED <<report, before, index, written, metadata_count>>
    BY <2>1, HookSteps, Zenon DEF table, exit
  <2>3. pc'[Main] = pc[Main] \/ (pc[Main] \in HookPlaces /\ pc'[Main] \in HookPlaces)
    BY <2>1, HookSteps, ThreadsAssumption, Zenon
  <2>4. \A p \in HookPlaces : p \notin Reporting
    BY DEF HookPlaces, CallPlaces, BlockPlaces, Reporting
  <2> QED
    BY <2>2, <2>3, <2>4, QuietStep, Zenon
<1>3. CASE InitMetadata
  <2>1. pc[Main] = "constructors" /\ pc'[Main] = "constructors"
    BY <1>3, MainGoes, Zenon DEF InitMetadata
  <2>2. UNCHANGED <<report, before, index, written>>
    BY <1>3, Zenon DEF InitMetadata, exit
  <2> QED
    BY <1>1, <2>1, <2>2, QuietStep, Zenon
<1>4. CASE StartMain \/ Exit
  <2>1. pc[Main] \in {"constructors", "app"} /\ pc'[Main] \in {"app", "exited"}
    BY <1>4, MainGoes, Zenon DEF StartMain, Exit
  <2>2. UNCHANGED <<report, before, index, written, metadata_count>>
    BY <1>4, Zenon DEF StartMain, Exit, exit, table
  <2> QED
    BY <1>1, <2>1, <2>2, QuietStep, Zenon
<1>5. CASE DumpStats /\ Skips
  <2>1. UNCHANGED <<report, before, index, written, metadata_count>>
        /\ pc[Main] = "app" /\ pc'[Main] = "app"
    BY <1>5, DumpEffect, Zenon DEF table, Skips
  <2> QED
    BY <1>1, <2>1, QuietStep, Zenon
<1>6. CASE UNCHANGED vars
  <2>1. UNCHANGED <<report, before, index, written, metadata_count, pc>>
    BY <1>6, Zenon DEF vars, table, exit
  <2> QED
    BY <2>1, QuietStep, Zenon
<1> QED
  BY <1>2, <1>3, <1>4, <1>5, <1>6

\* The steps of the report itself: what is read is not below what had ended, since
\* the counters are not, and not above them.
LEMMA ReportStep ==
    ASSUME TypeInv, CallInv, BeforeInv, ReportInv, LoopInv, FlagInv, OnceInv, Aside,
           \/ DumpStats /\ Begins
           \/ ReadTotal \/ ReadUnsafe \/ ReadKinds
           \/ PassFunction \/ SeeFunction \/ ReadCalls \/ WriteReport
    PROVE  ReportInv' /\ LoopInv'
<1> DEFINE Below(r) ==
             /\ \A f \in Ids : r.calls[f] <= function_calls[f]
             /\ r.total <= total_instructions
             /\ r.unsafe <= total_unsafe_instructions /\ r.kinds <= unsafe_kinds
           Passed(r, i) == \A f \in 0 .. i - 1 :
                             /\ before.calls[f] <= r.calls[f]
                             /\ before.calls[f] > 0 => f \in r.seen
<1>a. /\ function_calls \in [Ids -> Nat]
      /\ total_instructions \in Nat /\ total_unsafe_instructions \in Nat /\ unsafe_kinds \in Nat
      /\ metadata_count \in 0 .. MaxFunctions /\ index \in 0 .. metadata_count
      /\ MaxFunctions \in Nat /\ report \in Reports
  BY SizesAssumption DEF TypeInv
<1>i. report \in Reports
  BY <1>a
<1>b. /\ report.calls \in [Ids -> Nat] /\ report.total \in Nat
      /\ report.unsafe \in Nat /\ report.kinds \in Nat
  BY <1>a, ReportFields
<1>c. /\ function_calls' = function_calls /\ total_instructions' = total_instructions
      /\ total_unsafe_instructions' = total_unsafe_instructions /\ unsafe_kinds' = unsafe_kinds
      /\ Marked' = Marked
  BY AsideSteps, Zenon DEF functions, instructions, Marked, IsSet, Word
<1>d. /\ before.calls \in [Ids -> Nat] /\ before.total \in Nat /\ before.unsafe \in Nat
      /\ \A f \in Ids : before.calls[f] <= function_calls[f]
      /\ before.total <= total_instructions
      /\ before.unsafe <= total_unsafe_instructions /\ before.unsafe <= unsafe_kinds
  BY DEF BeforeInv, Work
<1>e. Below(report)
  BY DEF ReportInv
<1>f. pc[Main] \in Reporting => written = 0
  BY DEF OnceInv
<1>g. /\ "total" \in Reporting /\ "unsafe" \in Reporting /\ "kinds" \in Reporting
      /\ "function" \in Reporting /\ "calls" \in Reporting
  BY DEF Reporting
<1>h. index < metadata_count => index \in Ids
  BY <1>a DEF Ids
<1>1. CASE DumpStats /\ Begins
  <2>1. pc'[Main] = "total" /\ report' = NoReport /\ written' = written /\ index' = 0
    BY <1>1, DumpEffect, Zenon DEF Begins
  <2>2. written = 0
    BY <1>1 DEF OnceInv, Begins
  <2>3. /\ NoReport.calls = [f \in Ids |-> 0] /\ NoReport.total = 0 /\ NoReport.unsafe = 0
        /\ NoReport.kinds = 0 /\ NoReport.seen = {}
    BY DEF NoReport
  <2>4. ReportInv'
    BY <1>a, <1>c, <2>1, <2>2, <2>3 DEF ReportInv, HasRead, Reported
  <2>5. LoopInv'
    BY <2>1, <2>2, <2>3 DEF LoopInv, HasRead, Reported
  <2> QED
    BY <2>4, <2>5
<1>2. CASE ReadTotal
  <2>1. /\ pc[Main] = "total" /\ pc'[Main] = "unsafe" /\ written' = written /\ before' = before
        /\ report' = [report EXCEPT !.total = total_instructions] /\ index' = index
    BY <1>2, MainGoes, Zenon DEF ReadTotal, Read
  <2>2. /\ report'.total = total_instructions /\ report'.unsafe = report.unsafe
        /\ report'.kinds = report.kinds /\ report'.calls = report.calls
        /\ report'.seen = report.seen
    BY <1>i, <2>1, ReportReads
  <2>3. written' = 0
    BY <1>f, <1>g, <2>1
  <2>4. ReportInv'
    BY <1>a, <1>c, <1>d, <1>e, <2>1, <2>2, <2>3 DEF ReportInv, HasRead, Reported
  <2>5. LoopInv'
    BY <2>1, <2>2, <2>3 DEF LoopInv, HasRead, Reported
  <2> QED
    BY <2>4, <2>5
<1>3. CASE ReadUnsafe
  <2>1. /\ pc[Main] = "unsafe" /\ pc'[Main] = "kinds" /\ written' = written /\ before' = before
        /\ report' = [report EXCEPT !.unsafe = total_unsafe_instructions] /\ index' = index
    BY <1>3, MainGoes, Zenon DEF ReadUnsafe, Read
  <2>2. /\ report'.unsafe = total_unsafe_instructions /\ report'.total = report.total
        /\ report'.kinds = report.kinds /\ report'.calls = report.calls
        /\ report'.seen = report.seen
    BY <1>i, <2>1, ReportReads
  <2>3. written' = 0
    BY <1>f, <1>g, <2>1
  <2>4. before.total <= report.total
    BY <2>1 DEF ReportInv, HasRead
  <2>5. ReportInv'
    BY <1>a, <1>c, <1>d, <1>e, <2>1, <2>2, <2>3, <2>4 DEF ReportInv, HasRead, Reported
  <2>6. LoopInv'
    BY <2>1, <2>2, <2>3 DEF LoopInv, HasRead, Reported
  <2> QED
    BY <2>5, <2>6
<1>4. CASE ReadKinds
  <2>1. /\ pc[Main] = "kinds" /\ pc'[Main] = "function" /\ written' = written /\ before' = before
        /\ report' = [report EXCEPT !.kinds = unsafe_kinds] /\ index' = index
    BY <1>4, MainGoes, Zenon DEF ReadKinds, Read
  <2>2. /\ report'.kinds = unsafe_kinds /\ report'.total = report.total
        /\ report'.unsafe = report.unsafe /\ report'.calls = report.calls
        /\ report'.seen = report.seen
    BY <1>i, <2>1, ReportReads
  <2>3. written' = 0
    BY <1>f, <1>g, <2>1
  <2>4. before.total <= report.total /\ before.unsafe <= report.unsafe
    BY <2>1 DEF ReportInv, HasRead
  <2>5. ReportInv'
    BY <1>a, <1>c, <1>d, <1>e, <2>1, <2>2, <2>3, <2>4 DEF ReportInv, HasRead, Reported
  <2>6. LoopInv'
    BY <2>1, <2>2, <2>3 DEF LoopInv, HasRead, Reported
  <2> QED
    BY <2>5, <2>6
<1>5. CASE PassFunction
  <2>1. /\ pc[Main] = "function" /\ pc'[Main] = "function" /\ index' = index + 1
        /\ index < metadata_count /\ ~IsSet(index)
        /\ UNCHANGED <<report, written, before>>
    BY <1>5, MainGoes, Zenon DEF PassFunction
  <2>2. index \in Ids /\ index \notin Marked
    BY <1>h, <2>1, Zenon DEF Marked
  <2>3. /\ before.total <= report.total /\ before.unsafe <= report.unsafe
        /\ before.unsafe <= report.kinds
    BY <2>1 DEF ReportInv, HasRead
  <2>4. Passed(report, index)
    BY <2>1 DEF LoopInv, HasRead
  <2>5. before.calls[index] \in Nat /\ ~(before.calls[index] > 0)
    BY <1>d, <2>2 DEF BeforeInv
  <2>6. before.calls[index] = 0 /\ report.calls[index] \in Nat
    BY <1>b, <2>2, <2>5
  <2>7. \A f \in 0 .. index' - 1 : f \in 0 .. index - 1 \/ f = index
    BY <1>a, <2>1
  <2>8. Passed(report, index')
    BY <2>4, <2>6, <2>7
  <2>9. ReportInv'
    BY <1>a, <1>c, <1>e, <2>1, <2>3 DEF ReportInv, HasRead, Reported
  <2>10. LoopInv'
    BY <2>1, <2>8 DEF LoopInv, HasRead, Reported
  <2> QED
    BY <2>9, <2>10
<1>6. CASE SeeFunction
  <2>1. /\ pc[Main] = "function" /\ pc'[Main] = "calls" /\ index' = index
        /\ index < metadata_count /\ IsSet(index)
        /\ UNCHANGED <<written, before, metadata_count>>
        /\ \E S : report' = [report EXCEPT !.seen = @ \cup {index}, !.unsafe_seen = S]
    BY <1>6, MainGoes, Zenon DEF SeeFunction, Read, table
  <2>2. /\ report'.calls = report.calls /\ report'.total = report.total
        /\ report'.unsafe = report.unsafe /\ report'.kinds = report.kinds
        /\ report'.seen = report.seen \cup {index}
    <3>1. PICK S : report' = [report EXCEPT !.seen = @ \cup {index}, !.unsafe_seen = S]
      BY <2>1, Zenon
    <3>2. index \in Ids
      BY <1>h, <2>1
    <3> QED
      BY <1>i, <3>1, <3>2, Zenon DEF Reports
  <2>3. index \in Marked
    BY <1>h, <2>1, Zenon DEF Marked
  <2>4. /\ before.total <= report.total /\ before.unsafe <= report.unsafe
        /\ before.unsafe <= report.kinds
    BY <2>1 DEF ReportInv, HasRead
  <2>5. Passed(report, index)
    BY <2>1 DEF LoopInv, HasRead
  <2>6. Passed(report', index')
    BY <2>1, <2>2, <2>5
  <2>7. \A f \in report.seen : report.calls[f] > 0
    BY <2>1 DEF LoopInv
  <2>8. ReportInv'
    BY <1>a, <1>c, <1>e, <2>1, <2>2, <2>4 DEF ReportInv, HasRead, Reported
  <2>9. LoopInv'
    BY <1>c, <2>1, <2>2, <2>3, <2>6, <2>7 DEF LoopInv, HasRead, Reported
  <2> QED
    BY <2>8, <2>9
<1>7. CASE ReadCalls
  <2>1. /\ pc[Main] = "calls" /\ pc'[Main] = "function" /\ index' = index + 1
        /\ UNCHANGED <<written, before>>
        /\ report' = [report EXCEPT !.calls[index] = function_calls[index]]
    BY <1>7, MainGoes, Zenon DEF ReadCalls
  <2>2. index < metadata_count /\ index \in report.seen /\ index \in Marked
    BY <2>1 DEF LoopInv
  <2>3. index \in Ids /\ function_calls[index] \in Nat
    BY <1>a, <1>h, <2>2
  <2>4. /\ report'.calls = [report.calls EXCEPT ![index] = function_calls[index]]
        /\ report'.total = report.total /\ report'.unsafe = report.unsafe
        /\ report'.kinds = report.kinds /\ report'.seen = report.seen
    <3>1. report' = [report EXCEPT !.calls[index] = function_calls[index]] /\ index \in Ids
      BY <2>1, <2>3
    <3> QED
      BY <1>i, <3>1, Zenon DEF Reports
  <2>5. /\ before.total <= report.total /\ before.unsafe <= report.unsafe
        /\ before.unsafe <= report.kinds
    BY <2>1 DEF ReportInv, HasRead
  <2>6. Passed(report, index)
    BY <2>1 DEF LoopInv, HasRead
  <2>7. \A f \in 0 .. index' - 1 : f \in 0 .. index - 1 \/ f = index
    BY <1>a, <2>1
  <2>8. index \notin 0 .. index - 1 /\ 0 .. index - 1 \subseteq Ids
    BY <1>a DEF Ids
  <2>9. Passed(report', index')
    BY <1>b, <1>d, <2>2, <2>3, <2>4, <2>6, <2>7, <2>8
  <2>10. \A f \in report.seen : f # index => report.calls[f] > 0
    BY <2>1 DEF LoopInv
  <2>11. report.seen \subseteq Ids
    BY <1>a DEF Reports
  <2>12. function_calls[index] > 0
    BY <2>2, <2>3 DEF CallInv
  <2>13. \A f \in report'.seen : report'.calls[f] > 0
    BY <1>b, <2>4, <2>10, <2>11, <2>12
  <2>14. ReportInv'
    BY <1>a, <1>b, <1>c, <1>e, <2>1, <2>3, <2>4, <2>5 DEF ReportInv, HasRead, Reported
  <2>15. LoopInv'
    BY <2>1, <2>9, <2>13 DEF LoopInv, HasRead, Reported
  <2> QED
    BY <2>14, <2>15
<1>8. CASE WriteReport
  <2>1. /\ pc[Main] = "function" /\ pc'[Main] = "app"
        /\ UNCHANGED <<report, before, index>>
    BY <1>8, MainGoes, Zenon DEF WriteReport, WriteAfter
  <2>2. /\ before.total <= report.total /\ before.unsafe <= report.unsafe
        /\ before.unsafe <= report.kinds
    BY <2>1 DEF ReportInv, HasRead
  <2>3. Passed(report, index)
    BY <2>1 DEF LoopInv, HasRead
  <2>4. \A f \in report.seen : report.calls[f] > 0
    BY <2>1 DEF LoopInv
  <2>5. ReportInv'
    BY <1>a, <1>c, <1>e, <2>1, <2>2 DEF ReportInv
  <2>6. LoopInv'
    BY <2>1, <2>3, <2>4 DEF LoopInv
  <2> QED
    BY <2>5, <2>6
<1> QED
  BY <1>1, <1>2, <1>3, <1>4, <1>5, <1>6, <1>7, <1>8

-----------------------------------------------------------------------------
(* The theorems                                                            *)

LEMMA Inductive == Spec => []IInv
<1>1. Init => IInv
  BY TypeInit, CountInit, BeforeInit, ReportInit, FlagInit DEF IInv
<1>2. IInv /\ [Next]_vars => IInv'
  <2> SUFFICES ASSUME IInv, [Next]_vars PROVE IInv'
    OBVIOUS
  <2>1. TypeInv /\ CallInv /\ BlockInv /\ BeforeInv /\ ReportInv /\ LoopInv /\ FlagInv /\ OnceInv
    BY DEF IInv
  <2>2. Aside \/ \E t \in Threads : Hook(t)
    BY NextIs
  <2>3. TypeInv' /\ BitsStay /\ CountersGrow
    BY <2>1, <2>2, AsideTypes, HookTypes
  <2>4. CallInv' /\ BlockInv' /\ BeforeInv' /\ FlagInv' /\ OnceInv'
    BY <2>1, <2>2, <2>3, CallStep, BlockStep, BeforeStep, FlagStep, OnceStep
  <2>5. ReportInv' /\ LoopInv'
    <3>1. CASE \/ DumpStats /\ Begins
               \/ ReadTotal \/ ReadUnsafe \/ ReadKinds
               \/ PassFunction \/ SeeFunction \/ ReadCalls \/ WriteReport
      <4>1. Aside
        BY <3>1, Zenon DEF Aside
      <4> QED
        BY <2>1, <3>1, <4>1, ReportStep
    <3>2. CASE \/ \E t \in Threads : Hook(t)
               \/ InitMetadata \/ StartMain \/ Exit \/ (DumpStats /\ Skips) \/ UNCHANGED vars
      BY <2>1, <2>3, <3>2, AroundStep
    <3>3. DumpStats => Skips \/ Begins
      BY <2>1, DumpEffect
    <3> QED
      BY <2>2, <3>1, <3>2, <3>3, Zenon DEF Aside
  <2> QED
    BY <2>1, <2>3, <2>4, <2>5 DEF IInv
<1> QED
  BY <1>1, <1>2, PTL DEF Spec

\* The variables keep their types; what dump_stats takes as its beginning is a number
\* of calls and blocks, never less than none.
THEOREM TypeCorrect == Spec => []TypeOK
<1>1. IInv => TypeOK
  <2> SUFFICES ASSUME IInv PROVE TypeOK
    OBVIOUS
  <2>1. /\ total_instructions \in Nat /\ total_unsafe_instructions \in Nat /\ unsafe_kinds \in Nat
        /\ metadata_initialized \in BOOLEAN /\ stats_written \in BOOLEAN
    BY Zenon DEF IInv, TypeInv
  <2>2. /\ {total_instructions, total_unsafe_instructions, unsafe_kinds} \subseteq Nat
        /\ {metadata_initialized, stats_written} \subseteq BOOLEAN
    BY <2>1
  <2> QED
    BY <2>2, Zenon DEF IInv, TypeInv, BeforeInv, TypeOK, Events, Reports
<1> QED
  BY <1>1, Inductive, PTL

\* AtomicBitset::set of concurrent calls loses no bit and sets none of another function:
\* a bit is set exactly when its function has been counted, but for the calls between
\* the two atomic operations.
THEOREM BitsExact == Spec => []SeenExact
<1>1. IInv => SeenExact
  <2> SUFFICES ASSUME IInv, NEW f \in Ids
               PROVE  /\ IsSet(f) => function_calls[f] > 0
                      /\ function_calls[f] > 0 =>
                           IsSet(f) \/ \E t \in Threads : pc[t] = "call 2" /\ event[t].id = f
    BY Zenon DEF SeenExact
  <2> DEFINE C2 == Calling(f, {"call 2"})
  <2>1. /\ Cardinality(C2) <= function_calls[f]
        /\ Cardinality(C2) < function_calls[f] => f \in Marked
        /\ f \in Marked => function_calls[f] > 0
    BY DEF IInv, CallInv
  <2>2. f \in Marked <=> IsSet(f)
    BY Zenon DEF Marked
  <2>3. function_calls[f] \in Nat
    BY DEF IInv, TypeInv
  <2>4. C2 = {} => Cardinality(C2) = 0
    BY FS_EmptySet
  <2>5. C2 # {} => \E t \in Threads : pc[t] = "call 2" /\ event[t].id = f
    BY Zenon DEF Calling
  <2>6. function_calls[f] > 0 /\ C2 = {} => f \in Marked
    <3> HIDE DEF C2
    <3> QED
      BY <2>1, <2>3, <2>4
  <2> QED
    BY <2>1, <2>2, <2>5, <2>6, Zenon
<1> QED
  BY <1>1, Inductive, PTL

\* dump_stats reads the counters one by one while threads count: its report has all
\* that had been recorded when it began, and nothing that had not begun when it ended.
THEOREM ReportBounded == Spec => []ReportBounds
<1>1. IInv => ReportBounds
  <2> SUFFICES ASSUME IInv, Reported PROVE ReportBounds
    BY Zenon DEF ReportBounds
  <2> USE DEF IInv
  <2>a. /\ function_calls \in [Ids -> Nat]
        /\ total_instructions \in Nat /\ total_unsafe_instructions \in Nat /\ unsafe_kinds \in Nat
        /\ metadata_count \in 0 .. MaxFunctions /\ MaxFunctions \in Nat
        /\ report \in Reports /\ started.calls \in [Ids -> Nat]
        /\ started.total \in Nat /\ started.unsafe \in Nat
    BY SizesAssumption DEF TypeInv, Work
  <2>b. /\ report.calls \in [Ids -> Nat] /\ report.total \in Nat
        /\ report.unsafe \in Nat /\ report.kinds \in Nat
    BY <2>a, ReportFields
  <2>c. /\ before.total <= report.total /\ before.unsafe <= report.unsafe
        /\ before.unsafe <= report.kinds
        /\ \A f \in Ids : report.calls[f] <= function_calls[f]
        /\ report.total <= total_instructions
        /\ report.unsafe <= total_unsafe_instructions /\ report.kinds <= unsafe_kinds
    BY DEF ReportInv, HasRead
  <2>d. index = metadata_count
    BY DEF OnceInv, Reported
  <2>e. \A f \in 0 .. index - 1 :
          before.calls[f] <= report.calls[f] /\ (before.calls[f] > 0 => f \in report.seen)
    BY DEF LoopInv, HasRead
  <2>1. \A f \in Listed :
          before.calls[f] <= report.calls[f] /\ (before.calls[f] > 0 => f \in report.seen)
    BY <2>d, <2>e, Zenon DEF Listed
  <2>2. ASSUME NEW f \in Listed
        PROVE  report.calls[f] <= started.calls[f]
    <3> DEFINE C1 == Calling(f, {"call 1"})
    <3>1. f \in Ids
      BY <2>a DEF Listed, Ids
    <3>2. function_calls[f] + Cardinality(C1) = started.calls[f]
      BY <3>1 DEF CallInv
    <3>3. C1 \in SUBSET Threads /\ C1 \cap {} = {}
      BY DEF Calling
    <3>4. Cardinality(C1) \in Nat
      BY <3>3, Parted, Zenon
    <3> HIDE DEF C1
    <3> QED
      BY <2>a, <2>b, <2>c, <3>1, <3>2, <3>4
  <2>3. /\ total_instructions <= started.total
        /\ total_unsafe_instructions <= started.unsafe /\ unsafe_kinds <= started.unsafe
    <3> DEFINE E1 == Executing({"block 1"})
               U1 == Unsafe({"block 1", "block 2"})
               U2 == Unsafe(BlockPlaces)
    <3>1. /\ total_instructions + Cardinality(E1) = started.total
          /\ total_unsafe_instructions + Cardinality(U1) = started.unsafe
          /\ unsafe_kinds + Cardinality(U2) = started.unsafe
      BY DEF BlockInv
    <3>2. \A A \in {E1, U1, U2} : A \in SUBSET Threads
      BY DEF Executing, Unsafe
    <3>3. \A A \in SUBSET Threads : Cardinality(A) \in Nat
      BY ThreadsAssumption, FS_Subset, FS_CardinalityType
    <3>4. Cardinality(E1) \in Nat /\ Cardinality(U1) \in Nat /\ Cardinality(U2) \in Nat
      BY <3>2, <3>3, Zenon
    <3> HIDE DEF E1, U1, U2
    <3> QED
      BY <2>a, <3>1, <3>4
  <2>4. report.total <= started.total /\ report.unsafe <= started.unsafe
        /\ report.kinds <= started.unsafe
    BY <2>a, <2>b, <2>c, <2>3
  <2> QED
    BY <2>c, <2>1, <2>2, <2>4, Zenon DEF ReportBounds
<1> QED
  BY <1>1, Inductive, PTL

\* "increment counter and set bit": the counter comes first, so that a function whose
\* bit dump_stats sees has a call in the report.
THEOREM SeenHasCalls == Spec => []SeenIsCalled
<1>1. IInv => SeenIsCalled
  BY Zenon DEF IInv, LoopInv, SeenIsCalled
<1> QED
  BY <1>1, Inductive, PTL

\* stats_written makes the two destructors write one report, and it is written when
\* the program exits.
THEOREM OneReport == Spec => []ReportedOnce
<1>1. IInv => ReportedOnce
  BY DEF IInv, OnceInv, ReportedOnce, Reporting
<1> QED
  BY <1>1, Inductive, PTL
=============================================================================
