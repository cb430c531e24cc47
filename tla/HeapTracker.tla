----------------------------- MODULE HeapTracker -----------------------------
(***************************************************************************)
(* The heap tracker (unsafe_perf_source/src/heap_tracker.rs), the global   *)
(* allocator of the instrumented program: it passes every request to the   *)
(* system allocator and keeps a map of the live objects, in which the      *)
(* hooks around memory accesses look up the object that is accessed.       *)
(*                                                                         *)
(* The system allocator may hand out any free range.  The program is free  *)
(* of data races: it frees or reallocates an object, or passes it on, only *)
(* while no other thread uses it; any number of threads may access it.     *)
(*                                                                         *)
(* One action is one call of the system allocator or one step under one of *)
(* the two mutexes; the atomic counters are updated with the step they     *)
(* come next to.  Sizes are in KB, of which an address is one.  Memory     *)
(* that the tracker allocates for itself, the nodes of its maps and the    *)
(* strings of its report, is not in mem: no access hook is called for it.  *)
(***************************************************************************)
EXTENDS Integers, FiniteSets, FiniteSetsExt, Functions

CONSTANTS
    Threads,
    Main,           \* the thread that runs the destructors at exit
    Nobody,         \* no holder of a mutex
    OBJ_SIZE_NUM,   \* size classes
    HeapSize,       \* bound: addresses
    NotHeap,        \* those of them that are never on the heap: stacks, statics
    MaxSize,        \* bound: size of an object
    MaxAllocs,      \* bound: calls of alloc and realloc
    ReuseInWindow   \* whether the system allocator may hand out again what a
                    \* realloc has given back before that realloc is recorded

ASSUME ThreadsAssumption == IsFiniteSet(Threads) /\ Main \in Threads /\ Nobody \notin Threads
ASSUME BoundsAssumption == {OBJ_SIZE_NUM, HeapSize, MaxSize, MaxAllocs} \subseteq Nat \ {0}
ASSUME NotHeapAssumption == NotHeap \subseteq 0 .. HeapSize - 1
ASSUME ReuseAssumption == ReuseInWindow \in BOOLEAN

VARIABLES
    mem,               \* the system allocator: size of each block, by address
    live_objs,         \* HeapTracker.live_objs
    live_unsafe_objs,  \* HeapTracker.live_unsafe_objs
    mutex,             \* who holds the mutexes of the two
    SKIP_TRACKING,     \* the thread-local flag
    pc,
    op,                \* the thread's request: what the call stack holds
    stats,             \* the atomic counters of HeapTracker
    report,            \* those of them that dump_stats has read
    history            \* calls of realloc; objects of the program classified; bytes of
                       \* objects that are freed; bytes by which the tracker's own
                       \* strings have grown; live objects that unsafe code has
                       \* accessed, and their sizes when it first did

maps == <<live_objs, live_unsafe_objs>>
vars == <<mem, maps, mutex, SKIP_TRACKING, pc, op, stats, report, history>>

Addrs == 0 .. HeapSize - 1
Sizes == 1 .. MaxSize
Classes == 0 .. OBJ_SIZE_NUM - 1
None == -1
Bytes(base, size) == base .. base + size - 1

NoOp == [call |-> "none", old |-> None, new |-> None, size |-> 0, growth |-> 0, freed |-> {},
         addr |-> None, found |-> None]

\* f with f[x] = y, and f without x.
Put(f, x, y) == [z \in DOMAIN f \cup {x} |-> IF z = x THEN y ELSE f[z]]
Drop(f, x) == Restrict(f, DOMAIN f \ {x})

Init ==
    /\ mem = << >>
    /\ live_objs = << >> /\ live_unsafe_objs = {}
    /\ mutex = [m \in {"objs", "unsafe"} |-> Nobody]
    /\ SKIP_TRACKING = [t \in Threads |-> FALSE]
    /\ pc = [t \in Threads |-> "app"]
    /\ op = [t \in Threads |-> NoOp]
    /\ stats = [total_usage |-> 0, total_alloc |-> 0, total_realloc |-> 0, total_dealloc |-> 0,
                size_histogram |-> [c \in Classes |-> 0], total_unsafe_objs |-> 0,
                unsafe_mem |-> 0, unsafe_size_histogram |-> [c \in Classes |-> 0]]
    /\ report = [allocs |-> 0, reallocs |-> 0, sizes |-> 0, class |-> 0]
    /\ history = [reallocs |-> 0, classified |-> 0, freed |-> 0, untracked |-> 0,
                  touched |-> {}, firsts |-> [n \in Sizes |-> 0]]

At(t, location) == pc[t] = location /\ pc[Main] # "exited"

Move(t, location) == pc' = [pc EXCEPT ![t] = location]
Request(t, request) == op' = [op EXCEPT ![t] = request]
Finish(t) == Move(t, "app") /\ Request(t, NoOp)

\* classify_obj_by_size: the first class whose bound is not below the size, or the
\* last one.  Mutant: whose bound is above it.
ClassBelow(size) == Min({c \in Classes : c = OBJ_SIZE_NUM - 1 \/ size < 2^c})
Class(size) == Min({c \in Classes : c = OBJ_SIZE_NUM - 1 \/ size <= 2^c})
Classified(histogram, size) == [histogram EXCEPT ![Class(size)] = @ + 1]
-----------------------------------------------------------------------------
(* The system allocator and the program                                    *)

Overlap(b, n, c, m) == Bytes(b, n) \cap Bytes(c, m) # {}

\* The range is free, apart from the block at address own.  What a thread's
\* realloc has given back and not yet removed from the maps is its op.freed.
Free(base, size, own) ==
    /\ Bytes(base, size) \subseteq Addrs \ NotHeap
    /\ \A b \in DOMAIN mem \ {own} : ~ Overlap(base, size, b, mem[b])
    /\ ReuseInWindow \/ \A t \in Threads : Bytes(base, size) \cap op[t].freed = {}

\* Threads that are in a call that concerns the block at base.
Users(base) ==
    {t \in Threads :
       \/ op[t].new = base
       \/ op[t].call = "dealloc" /\ op[t].old = base
       \/ op[t].call = "access" /\ op[t].addr \in Bytes(base, mem[base])}
Changers(base) == {t \in Users(base) : op[t].call # "access"}
-----------------------------------------------------------------------------
(* The allocator                                                           *)

\* alloc and alloc_zeroed, up to the call of classify_obj_by_size.
Alloc(t) ==
    /\ At(t, "app")
    /\ stats.total_alloc + history.reallocs < MaxAllocs
    /\ \E b \in Addrs, n \in Sizes :
         /\ Free(b, n, None)
         /\ mem' = Put(mem, b, n)
         /\ Request(t, [NoOp EXCEPT !.call = "alloc", !.new = b, !.size = n])
         /\ stats' = [stats EXCEPT !.total_usage = @ + n, !.total_alloc = @ + 1]
    /\ Move(t, "classify")
    /\ UNCHANGED <<maps, mutex, SKIP_TRACKING, report, history>>

\* An object that is new or has moved is classified after it has been counted.
Classify(t, histogram) ==
    /\ At(t, "classify")
    /\ stats' = [stats EXCEPT !.size_histogram = histogram]
    /\ history' = [history EXCEPT !.classified = @ + 1]
    /\ Move(t, "insert")
    /\ UNCHANGED <<mem, maps, mutex, SKIP_TRACKING, op, report>>

\* Mutant: an object that has moved is not classified.
ClassifyNew(t) ==
    Classify(t, IF op[t].call = "alloc" THEN Classified(stats.size_histogram, op[t].size)
                ELSE stats.size_histogram)
ClassifyObj(t) == Classify(t, Classified(stats.size_histogram, op[t].size))

\* dealloc forgets the object before it gives the memory back.
Dealloc(t) ==
    /\ At(t, "app")
    /\ \E b \in DOMAIN mem :
         /\ Users(b) = {}
         /\ Request(t, [NoOp EXCEPT !.call = "dealloc", !.old = b])
    /\ stats' = [stats EXCEPT !.total_dealloc = @ + 1]
    /\ Move(t, "remove")
    /\ UNCHANGED <<mem, maps, mutex, SKIP_TRACKING, report, history>>

\* What realloc adds to total_usage, as its last step.  Mutant: only if it is more.
GrowthOnly(old_size, new_size) == IF new_size > old_size THEN new_size - old_size ELSE 0
Growth(old_size, new_size) == new_size - old_size

\* realloc gives the memory back (System.realloc) before it forgets the object.
Realloc(t) ==
    /\ At(t, "app")
    /\ stats.total_alloc + history.reallocs < MaxAllocs
    /\ \E b \in DOMAIN mem, c \in Addrs, n \in Sizes :
         /\ Users(b) = {}
         /\ Free(c, n, b)
         /\ c # b => ~ Overlap(b, mem[b], c, n)
         /\ mem' = Put(Drop(mem, b), c, n)
         /\ Request(t, [NoOp EXCEPT !.call = "realloc", !.old = b, !.new = c, !.size = n,
                                    !.growth = Growth(mem[b], n),
                                    !.freed = IF c = b THEN {} ELSE Bytes(b, mem[b])])
         /\ history' = [history EXCEPT !.reallocs = @ + 1,
                                       !.touched = IF c = b THEN @ ELSE @ \ {b}]
         /\ Move(t, IF c = b THEN "insert" ELSE "remove")
    /\ UNCHANGED <<maps, mutex, SKIP_TRACKING, stats, report>>

SystemDealloc(t) ==
    /\ At(t, "free")
    /\ mem' = Drop(mem, op[t].old)
    /\ history' = [history EXCEPT !.touched = @ \ {op[t].old}, !.freed = @ + mem[op[t].old]]
    /\ Finish(t)
    /\ UNCHANGED <<maps, mutex, SKIP_TRACKING, stats, report>>
-----------------------------------------------------------------------------
(* The maps: each operation sets the flag, takes a mutex, does its work and *)
(* returns the mutex and the flag.  A removal takes both mutexes, one after *)
(* the other, under one setting of the flag.                                *)

Take(t, from, name, to) ==
    /\ At(t, from)
    /\ mutex[name] = Nobody
    /\ mutex' = [mutex EXCEPT ![name] = t]
    /\ Move(t, to)
    /\ UNCHANGED <<mem, maps, op, stats, report, history>>

Lock(t, from, name, to) ==
    /\ Take(t, from, name, to)
    /\ SKIP_TRACKING' = [SKIP_TRACKING EXCEPT ![t] = TRUE]

Unlock(name) == mutex' = [mutex EXCEPT ![name] = Nobody]
ClearFlag(t) == SKIP_TRACKING' = [SKIP_TRACKING EXCEPT ![t] = FALSE]

LockInsert(t) == Lock(t, "insert", "objs", "inserting")
LockRemove(t) == Lock(t, "remove", "objs", "removing")
LockRemoveUnsafe(t) ==
    Take(t, "remove unsafe", "unsafe", "removing unsafe") /\ UNCHANGED SKIP_TRACKING
LockFind(t) == Lock(t, "find", "objs", "finding")
LockMark(t) == Lock(t, "mark", "unsafe", "marking")

\* A tree allocates and frees its nodes through this same allocator, in the middle of
\* an operation.  Under the flag such a request is passed on and nothing else (a node
\* is never reallocated).  Without it the request is tracked like one of the program;
\* the model follows it no further than to the mutexes it asks for.
NodeRequest(t, locations, to) ==
    /\ pc[t] \in locations /\ pc[Main] # "exited"
    /\ IF SKIP_TRACKING[t] THEN UNCHANGED pc ELSE Move(t, to)
    /\ UNCHANGED <<mem, maps, mutex, SKIP_TRACKING, op, stats, report, history>>

AllocNode(t) == NodeRequest(t, {"inserting", "marking"}, "alloc node")
FreeNode(t) == NodeRequest(t, {"removing", "removing unsafe"}, "free node")

\* The insertion, and the last step of realloc.
Insert(t, map) ==
    /\ At(t, "inserting")
    /\ live_objs' = map
    /\ Unlock("objs") /\ ClearFlag(t) /\ Finish(t)
    /\ stats' = [stats EXCEPT !.total_usage = @ + op[t].growth]
    /\ UNCHANGED <<mem, live_unsafe_objs, report, history>>

\* Mutants: the entry holds one address too many; an entry that exists is kept.
InsertOneMore(t) == Insert(t, Put(live_objs, op[t].new, op[t].size + 1))
InsertNew(t) ==
    Insert(t, IF op[t].new \in DOMAIN live_objs THEN live_objs
              ELSE Put(live_objs, op[t].new, op[t].size))
InsertObj(t) == Insert(t, Put(live_objs, op[t].new, op[t].size))

\* Mutant: each of the two removals sets and clears the flag for itself, and the
\* second does not set it.
RemoveObjUnflagged(t) ==
    /\ At(t, "removing")
    /\ live_objs' = Drop(live_objs, op[t].old)
    /\ Unlock("objs") /\ ClearFlag(t)
    /\ Move(t, "remove unsafe")
    /\ UNCHANGED <<mem, live_unsafe_objs, op, stats, report, history>>

RemoveObj(t) ==
    /\ At(t, "removing")
    /\ live_objs' = Drop(live_objs, op[t].old)
    /\ Unlock("objs")
    /\ Move(t, "remove unsafe")
    /\ UNCHANGED <<mem, live_unsafe_objs, SKIP_TRACKING, op, stats, report, history>>

\* The removal from the second set; after it a realloc counts the object that moved.
RemoveUnsafeObj(t) ==
    /\ At(t, "removing unsafe")
    /\ live_unsafe_objs' = live_unsafe_objs \ {op[t].old}
    /\ Unlock("unsafe") /\ ClearFlag(t)
    /\ IF op[t].call = "dealloc"
       THEN Move(t, "free") /\ UNCHANGED <<op, stats>>
       ELSE /\ Move(t, "classify")
            /\ Request(t, [op[t] EXCEPT !.old = None, !.freed = {}])
            /\ stats' = [stats EXCEPT !.total_realloc = @ + 1]
    /\ UNCHANGED <<mem, live_objs, report, history>>
-----------------------------------------------------------------------------
(* The access hooks                                                        *)

\* What the program may access: objects that no other thread is changing, and
\* memory that is not on the heap.
Accessible ==
    NotHeap \cup UNION {Bytes(b, mem[b]) : b \in {c \in DOMAIN mem : Changers(c) = {}}}

\* dyn_mem_access and dyn_unsafe_mem_access, which first do the same
Access(t) ==
    /\ At(t, "app")
    /\ \E a \in Accessible : Request(t, [NoOp EXCEPT !.call = "access", !.addr = a])
    /\ Move(t, "find")
    /\ UNCHANGED <<mem, maps, mutex, SKIP_TRACKING, stats, report, history>>

\* The entry with the greatest address up to addr, if addr is within its size.
LookupWithin(addr, slack) ==
    LET below == {b \in DOMAIN live_objs : b <= addr}
    IN  IF below # {} /\ addr < Max(below) + live_objs[Max(below)] + slack THEN Max(below)
        ELSE None

\* Mutant: the address past the end of an object is taken for one of its own.
LookupPastEnd(addr) == LookupWithin(addr, 1)
Lookup(addr) == LookupWithin(addr, 0)

\* The address and the size of the object that has been found.
FindHeapObj(t) ==
    /\ At(t, "finding")
    /\ LET base == Lookup(op[t].addr)
       IN  Request(t, [op[t] EXCEPT !.found = base,
                                    !.size = IF base = None THEN 0 ELSE live_objs[base]])
    /\ Unlock("objs") /\ ClearFlag(t) /\ Move(t, "found")
    /\ UNCHANGED <<mem, maps, stats, report, history>>

\* An access of safe code, or of unsafe code to other memory.
AccessSafe(t) ==
    /\ At(t, "found")
    /\ Finish(t)
    /\ UNCHANGED <<mem, maps, mutex, SKIP_TRACKING, stats, report, history>>

AccessUnsafe(t) ==
    /\ At(t, "found")
    /\ op[t].found # None
    /\ Move(t, "mark")
    /\ UNCHANGED <<mem, maps, mutex, SKIP_TRACKING, op, stats, report, history>>

\* The object that the program really accesses, if it is one.
Object(addr) ==
    IF addr \in NotHeap THEN None ELSE CHOOSE b \in DOMAIN mem : addr \in Bytes(b, mem[b])

Touch(object) ==
    history' = IF object \in history.touched THEN history
               ELSE [history EXCEPT !.touched = @ \cup {object}, !.firsts[mem[object]] = @ + 1]

MarkUnsafe(t) ==
    /\ At(t, "marking")
    /\ live_unsafe_objs' = live_unsafe_objs \cup {op[t].found}
    /\ stats' = IF op[t].found \in live_unsafe_objs THEN stats
                ELSE [stats EXCEPT !.unsafe_mem = @ + op[t].size, !.total_unsafe_objs = @ + 1,
                                   !.unsafe_size_histogram = Classified(@, op[t].size)]
    /\ Touch(Object(op[t].addr))
    /\ Unlock("unsafe") /\ ClearFlag(t) /\ Finish(t)
    /\ UNCHANGED <<mem, live_objs, report>>
-----------------------------------------------------------------------------
(* The report at program exit                                              *)

\* The counters are read one after the other, total_usage and total_alloc first, while
\* other threads add to them.
DumpStats ==
    /\ At(Main, "app")
    /\ report' = [report EXCEPT !.allocs = stats.total_alloc]
    /\ Move(Main, "counters")
    /\ UNCHANGED <<mem, maps, mutex, SKIP_TRACKING, op, stats, history>>

\* The last counters, then the flag.  size_hisogram_to_str allocates the vector of the
\* strings before it reads the first element of the histogram.
PrepareFormat(flag) ==
    /\ At(Main, "counters")
    /\ report' = [report EXCEPT !.reallocs = stats.total_realloc]
    /\ SKIP_TRACKING' = [SKIP_TRACKING EXCEPT ![Main] = flag]
    /\ stats' = IF flag THEN stats
                ELSE [stats EXCEPT !.total_usage = @ + 1, !.total_alloc = @ + 1,
                                   !.size_histogram = Classified(@, 1)]
    /\ Move(Main, "read")
    /\ UNCHANGED <<mem, maps, mutex, op, history>>

\* Mutant: the report is formatted without the flag.
SetNoFlag == PrepareFormat(FALSE)
SetFlag == PrepareFormat(TRUE)

\* format!: a string of the report that is reallocated (it can only grow) adds to
\* total_usage, although the flag is set and what was allocated for it has not been
\* added.
FormatReport ==
    /\ \E old_size, new_size \in Sizes :
         /\ old_size <= new_size
         /\ stats' = [stats EXCEPT !.total_usage = @ + Growth(old_size, new_size)]
         /\ history' = [history EXCEPT !.untracked = @ + (new_size - old_size)]
    /\ Move(Main, "exited")

\* The classes are read one after the other, while other threads add to them; after
\* the last one the report is formatted and written.
ReadClass ==
    /\ At(Main, "read")
    /\ report' = [report EXCEPT !.sizes = @ + stats.size_histogram[report.class],
                                !.class = @ + 1]
    /\ IF report.class + 1 \in Classes THEN UNCHANGED <<pc, stats, history>> ELSE FormatReport
    /\ UNCHANGED <<mem, maps, mutex, SKIP_TRACKING, op>>

Ended == pc[Main] = "exited" /\ UNCHANGED vars

Next ==
    \/ \E t \in Threads :
         \/ Alloc(t) \/ ClassifyObj(t) \/ Dealloc(t) \/ Realloc(t) \/ SystemDealloc(t)
         \/ LockInsert(t) \/ LockRemove(t) \/ LockRemoveUnsafe(t)
         \/ LockFind(t) \/ LockMark(t) \/ AllocNode(t) \/ FreeNode(t)
         \/ InsertObj(t) \/ RemoveObj(t) \/ RemoveUnsafeObj(t)
         \/ Access(t) \/ FindHeapObj(t) \/ AccessSafe(t) \/ AccessUnsafe(t) \/ MarkUnsafe(t)
    \/ DumpStats \/ SetFlag \/ ReadClass \/ Ended

Spec == Init /\ [][Next]_vars
-----------------------------------------------------------------------------
(* Properties                                                              *)

IsMap(f) == DOMAIN f \subseteq Addrs /\ Range(f) \subseteq Sizes

\* The maps, the counters and the requests of the threads.
TypeOK ==
    /\ IsMap(mem) /\ IsMap(live_objs)
    /\ live_unsafe_objs \subseteq Addrs
    /\ mutex \in [{"objs", "unsafe"} -> Threads \cup {Nobody}]
    /\ SKIP_TRACKING \in [Threads -> BOOLEAN]
    /\ {stats.total_usage, stats.total_alloc, stats.total_realloc, stats.total_dealloc,
        stats.total_unsafe_objs, stats.unsafe_mem} \subseteq Nat
    /\ {stats.size_histogram, stats.unsafe_size_histogram} \subseteq [Classes -> Nat]
    /\ history.touched \subseteq DOMAIN mem

\* Blocks that no allocation, deallocation or reallocation is at work on.
Settled == {b \in DOMAIN mem : Changers(b) = {}}

\* "ranges of all active heap objects": every object the program may use is in
\* the map with its size, and what else is in the map is about to be removed.
LiveTracked ==
    /\ \A b \in Settled : b \in DOMAIN live_objs /\ live_objs[b] = mem[b]
    /\ \A b \in DOMAIN live_objs :
         b \in DOMAIN mem \/ \E t \in Threads : op[t].old = b

\* A lookup finds the object that is accessed, or none for other memory, also
\* while other threads move, shrink and grow the objects next to it.
LookupRight ==
    \A t \in Threads : pc[t] = "found" => op[t].found = Object(op[t].addr)

\* An object is counted as unsafe when unsafe code first accesses it, once and with
\* the size it has then, in the documented class ("<= 1KB", "> 1KB && <= 2KB", ...),
\* whatever happens to other objects between the lookup and the insertion.
UnsafeCountedOnce ==
    LET Group(c) == {n \in Sizes : (c > 0 => n > 2^(c - 1)) /\ (c < OBJ_SIZE_NUM - 1 => n <= 2^c)}
    IN  /\ \A c \in Classes :
             stats.unsafe_size_histogram[c] = SumFunctionOnSet(history.firsts, Group(c))
        /\ stats.total_unsafe_objs = SumFunction(history.firsts)
        /\ stats.unsafe_mem = SumFunction([n \in Sizes |-> n * history.firsts[n]])

\* The mutexes that a thread asks for before it goes on, one after the other.
Wants(t) ==
    {m \in {"objs", "unsafe"} :
       \/ m = "objs" /\ pc[t] \in {"insert", "remove", "find", "alloc node", "free node"}
       \/ m = "unsafe" /\ pc[t] \in {"remove unsafe", "mark", "free node"}}
WaitsFor(t, u) == \E m \in Wants(t) : mutex[m] = u

\* "This prevents deadlock due to reentrant locking": no thread waits for itself, and
\* no two wait for each other, although the trees call the allocator that they serve
\* in the middle of insertions and removals under either mutex.
NoCircularWait == \A t, u \in Threads : ~ (WaitsFor(t, u) /\ WaitsFor(u, t))

\* When no call is under way the counters agree with the map.
CountsBalance ==
    (\A t \in Threads : op[t] = NoOp) =>
      /\ Cardinality(DOMAIN live_objs) = stats.total_alloc - stats.total_dealloc
      /\ SumFunction(stats.size_histogram) = stats.total_alloc + stats.total_realloc

\* "Total allocated heap objects in bytes": apart from the reallocations under way it
\* is what is allocated and what has been freed at its last size, to which, once all
\* counters are read, come the bytes by which strings of the report have grown; so it
\* never wraps around below zero, whichever order reallocations are counted in.
UsageBalances ==
    /\ stats.total_usage + SumFunction([t \in Threads |-> op[t].growth])
         = SumFunction(mem) + history.freed + history.untracked
    /\ stats.total_usage >= 0

\* The report reads its counters and its classes one by one while other threads allocate.
\* Its classes miss, of the allocations and reallocations it prints, at most the one that
\* each other thread has counted and not yet classified; and they hold nothing but
\* objects of the program, not the strings that dump_stats itself allocates.
ReportConsistent ==
    pc[Main] = "exited" =>
      /\ report.allocs + report.reallocs - Cardinality(Threads \ {Main}) <= report.sizes
      /\ report.sizes <= history.classified
-----------------------------------------------------------------------------
(* The account of unsafe objects that the counters and the lookups promise *)

Counted == [objects |-> stats.total_unsafe_objs, bytes |-> stats.unsafe_mem,
            sizes |-> stats.unsafe_size_histogram]
Asked == [t \in Threads |-> IF op[t].call = "access" THEN {op[t].addr} ELSE {}]
Known == [t \in Threads |-> IF pc[t] \in {"found", "mark", "marking"}
                            THEN {{op[t].found} \ {None}} ELSE {}]

Account == INSTANCE UnsafeObjects WITH objects <- mem, unsafe <- history.touched,
    counted <- Counted, asked <- Asked, known <- Known

\* Whatever two maps under two mutexes hold in between, from outside an access finds
\* the object that it is to, which stays so until it returns, and unsafe code's
\* access to an object counts it if and only if no earlier one has, with the size it
\* has at that moment.
ImplementsAccount == Account!Spec
=============================================================================
