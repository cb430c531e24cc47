------------------------- MODULE HeapTrackerProofs -------------------------
(***************************************************************************)
(* Theorems about the heap tracker, for any threads, addresses and sizes.  *)
(*                                                                         *)
(* CoreInv, on what calls are at work on which blocks, holds whatever the  *)
(* system allocator hands out; so does the balance of the counters.  That  *)
(* the map holds the live objects and that a lookup finds the right one    *)
(* needs ReuseInWindow = FALSE: otherwise a block can be handed out again  *)
(* and recorded before the realloc that gave it back removes it.  With it  *)
(* the tracker implements UnsafeObjects (AccountKept).                     *)
(***************************************************************************)
EXTENDS HeapTracker, FiniteLemmas
-----------------------------------------------------------------------------
\* Where a thread can be: outside of a call, or in one of the parts of a call.
Idle == {"app", "counters", "read", "exited"}
Inserting == {"insert", "inserting"}
Removing == {"remove", "removing"}
RemovingUnsafe == {"remove unsafe", "removing unsafe"}
Searching == {"find", "finding"}
Found == {"found", "mark", "marking"}
Locations == Idle \cup Inserting \cup Removing \cup RemovingUnsafe
               \cup {"free", "classify"} \cup Searching \cup Found

\* The types of the records.
Requests ==
    [call : {"none", "alloc", "dealloc", "realloc", "access"}, old : Addrs \cup {None},
     new : Addrs \cup {None}, size : Nat, growth : Int, freed : SUBSET Addrs,
     addr : Addrs \cup {None}, found : Addrs \cup {None}]
Counters ==
    [total_usage : Int, total_alloc : Nat, total_realloc : Nat, total_dealloc : Nat,
     size_histogram : [Classes -> Nat], total_unsafe_objs : Nat, unsafe_mem : Nat,
     unsafe_size_histogram : [Classes -> Nat]]
Histories == [reallocs : Nat, classified : Nat, freed : Nat, untracked : Nat,
              touched : SUBSET Addrs, firsts : [Sizes -> Nat]]
Reports == [allocs : Nat, reallocs : Nat, sizes : Nat, class : Nat]

TypeInv ==
    /\ mem \in [DOMAIN mem -> Sizes] /\ DOMAIN mem \subseteq Addrs
    /\ live_objs \in [DOMAIN live_objs -> Sizes] /\ DOMAIN live_objs \subseteq Addrs
    /\ live_unsafe_objs \subseteq Addrs
    /\ mutex \in [{"objs", "unsafe"} -> Threads \cup {Nobody}]
    /\ SKIP_TRACKING \in [Threads -> BOOLEAN]
    /\ pc \in [Threads -> Locations]
    /\ op \in [Threads -> Requests]
    /\ stats \in Counters
    /\ report \in Reports
    /\ pc[Main] = "exited" \/ report.class \in Classes
    /\ history \in Histories

\* The request of a thread, by where it is.
Called(t) ==
    /\ pc[t] \in Idle <=> op[t].call = "none"
    /\ pc[t] \in Idle \ {"app"} => t = Main
    /\ op[t].call = "none" => op[t] = NoOp
    /\ op[t].call = "alloc" => pc[t] \in {"classify"} \cup Inserting /\ op[t].old = None
    /\ op[t].call = "dealloc" => pc[t] \in Removing \cup RemovingUnsafe \cup {"free"}
    /\ op[t].call = "realloc" =>
         IF op[t].old \in {None, op[t].new} THEN pc[t] \in {"classify"} \cup Inserting
         ELSE pc[t] \in Removing \cup RemovingUnsafe
    /\ op[t].call = "access" => pc[t] \in Searching \cup Found /\ op[t].addr \in Addrs
    /\ op[t].call \in {"dealloc", "access"} => op[t].new = None
    /\ op[t].call # "realloc" => op[t].growth = 0
    /\ op[t].freed # {} => op[t].call = "realloc" /\ op[t].old \notin {None, op[t].new}
CallInv == \A t \in Threads : Called(t)

\* Whoever changes one of the maps, or formats the report, has set the flag.
Flagged == {"inserting", "removing", "remove unsafe", "removing unsafe", "marking", "read", "exited"}
FlagInv == \A t \in Threads : pc[t] \in Flagged => SKIP_TRACKING[t]
-----------------------------------------------------------------------------
\* What is assumed of the constants.
LEMMA ThreadsFacts == IsFiniteSet(Threads) /\ Main \in Threads /\ Nobody \notin Threads
BY ThreadsAssumption

LEMMA BoundsFacts ==
    /\ OBJ_SIZE_NUM \in Nat \ {0} /\ HeapSize \in Nat \ {0}
    /\ MaxSize \in Nat \ {0} /\ MaxAllocs \in Nat \ {0}
BY BoundsAssumption

\* The requests are requests.
LEMMA NoOpType == NoOp \in Requests
BY BoundsFacts DEF NoOp, Requests, None

LEMMA AllocType ==
    ASSUME NEW b \in Addrs, NEW n \in Nat
    PROVE  [NoOp EXCEPT !.call = "alloc", !.new = b, !.size = n] \in Requests
BY NoOpType, Zenon DEF Requests

LEMMA DeallocType ==
    ASSUME NEW b \in Addrs
    PROVE  [NoOp EXCEPT !.call = "dealloc", !.old = b] \in Requests
BY NoOpType, Zenon DEF Requests

LEMMA ReallocType ==
    ASSUME NEW b \in Addrs, NEW c \in Addrs, NEW n \in Nat, NEW g \in Int,
           NEW freed \in SUBSET Addrs
    PROVE  [NoOp EXCEPT !.call = "realloc", !.old = b, !.new = c, !.size = n,
                        !.growth = g, !.freed = freed] \in Requests
BY NoOpType, Zenon DEF Requests

LEMMA MovedType ==
    ASSUME NEW r \in Requests
    PROVE  [r EXCEPT !.old = None, !.freed = {}] \in Requests
BY Zenon DEF Requests

LEMMA AccessType ==
    ASSUME NEW a \in Addrs
    PROVE  [NoOp EXCEPT !.call = "access", !.addr = a] \in Requests
BY NoOpType, Zenon DEF Requests

LEMMA FoundType ==
    ASSUME NEW r \in Requests, NEW a \in Addrs \cup {None}, NEW n \in Nat
    PROVE  [r EXCEPT !.found = a, !.size = n] \in Requests
BY DEF Requests
-----------------------------------------------------------------------------
(* What an action does to the place and the request of a thread, and to the *)
(* memory.                                                                  *)

\* How an action moves a thread and gives it a request.
Moves(t, from, to) == pc[t] = from /\ pc' = [pc EXCEPT ![t] = to]
Asks(t, request) == op' = [op EXCEPT ![t] = request]

\* The requests that the calls begin with, field by field.
AllocRequest(b, n) ==
    [call |-> "alloc", old |-> None, new |-> b, size |-> n, growth |-> 0, freed |-> {},
     addr |-> None, found |-> None]
DeallocRequest(b) ==
    [call |-> "dealloc", old |-> b, new |-> None, size |-> 0, growth |-> 0, freed |-> {},
     addr |-> None, found |-> None]
ReallocRequest(b, c, n, freed) ==
    [call |-> "realloc", old |-> b, new |-> c, size |-> n, growth |-> n - mem[b],
     freed |-> freed, addr |-> None, found |-> None]
AccessRequest(a) ==
    [call |-> "access", old |-> None, new |-> None, size |-> 0, growth |-> 0, freed |-> {},
     addr |-> a, found |-> None]

\* Each of them is the record that its action writes.
LEMMA AllocRecord ==
    ASSUME NEW b, NEW n
    PROVE  [NoOp EXCEPT !.call = "alloc", !.new = b, !.size = n] = AllocRequest(b, n)
<1> DEFINE r1 == [call |-> "alloc", old |-> None, new |-> None, size |-> 0, growth |-> 0,
                  freed |-> {}, addr |-> None, found |-> None]
           r2 == [call |-> "alloc", old |-> None, new |-> b, size |-> 0, growth |-> 0,
                  freed |-> {}, addr |-> None, found |-> None]
           r3 == [call |-> "alloc", old |-> None, new |-> b, size |-> n, growth |-> 0,
                  freed |-> {}, addr |-> None, found |-> None]
<1>1. [NoOp EXCEPT !.call = "alloc"] = r1
  BY DEF NoOp
<1>2. [r1 EXCEPT !.new = b] = r2
  OBVIOUS
<1>3. [r2 EXCEPT !.size = n] = r3
  OBVIOUS
<1>4. r3 = AllocRequest(b, n)
  BY DEF AllocRequest
<1> HIDE DEF r1, r2, r3
<1> QED
  BY <1>1, <1>2, <1>3, <1>4, Zenon

LEMMA DeallocRecord ==
    ASSUME NEW b
    PROVE  [NoOp EXCEPT !.call = "dealloc", !.old = b] = DeallocRequest(b)
<1> DEFINE r1 == [call |-> "dealloc", old |-> None, new |-> None, size |-> 0, growth |-> 0,
                  freed |-> {}, addr |-> None, found |-> None]
           r2 == [call |-> "dealloc", old |-> b, new |-> None, size |-> 0, growth |-> 0,
                  freed |-> {}, addr |-> None, found |-> None]
<1>1. [NoOp EXCEPT !.call = "dealloc"] = r1
  BY DEF NoOp
<1>2. [r1 EXCEPT !.old = b] = r2
  OBVIOUS
<1>3. r2 = DeallocRequest(b)
  BY DEF DeallocRequest
<1> HIDE DEF r1, r2
<1> QED
  BY <1>1, <1>2, <1>3, Zenon

LEMMA ReallocRecord ==
    ASSUME NEW b, NEW c, NEW n, NEW freed
    PROVE  [NoOp EXCEPT !.call = "realloc", !.old = b, !.new = c, !.size = n,
                         !.growth = Growth(mem[b], n), !.freed = freed] = ReallocRequest(b, c, n, freed)
<1> DEFINE r1 == [call |-> "realloc", old |-> None, new |-> None, size |-> 0, growth |-> 0,
                  freed |-> {}, addr |-> None, found |-> None]
           r2 == [call |-> "realloc", old |-> b, new |-> None, size |-> 0, growth |-> 0,
                  freed |-> {}, addr |-> None, found |-> None]
           r3 == [call |-> "realloc", old |-> b, new |-> c, size |-> 0, growth |-> 0,
                  freed |-> {}, addr |-> None, found |-> None]
           r4 == [call |-> "realloc", old |-> b, new |-> c, size |-> n, growth |-> 0,
                  freed |-> {}, addr |-> None, found |-> None]
           r5 == [call |-> "realloc", old |-> b, new |-> c, size |-> n, growth |-> Growth(mem[b], n),
                  freed |-> {}, addr |-> None, found |-> None]
           r6 == [call |-> "realloc", old |-> b, new |-> c, size |-> n, growth |-> Growth(mem[b], n),
                  freed |-> freed, addr |-> None, found |-> None]
<1>1. [NoOp EXCEPT !.call = "realloc"] = r1
  BY DEF NoOp
<1>2. [r1 EXCEPT !.old = b] = r2
  OBVIOUS
<1>3. [r2 EXCEPT !.new = c] = r3
  OBVIOUS
<1>4. [r3 EXCEPT !.size = n] = r4
  OBVIOUS
<1>5. [r4 EXCEPT !.growth = Growth(mem[b], n)] = r5
  OBVIOUS
<1>6. [r5 EXCEPT !.freed = freed] = r6
  OBVIOUS
<1>7. r6 = ReallocRequest(b, c, n, freed)
  BY DEF ReallocRequest, Growth
<1> HIDE DEF r1, r2, r3, r4, r5, r6
<1> QED
  BY <1>1, <1>2, <1>3, <1>4, <1>5, <1>6, <1>7, Zenon

LEMMA AccessRecord ==
    ASSUME NEW a
    PROVE  [NoOp EXCEPT !.call = "access", !.addr = a] = AccessRequest(a)
<1> DEFINE r1 == [call |-> "access", old |-> None, new |-> None, size |-> 0, growth |-> 0,
                  freed |-> {}, addr |-> None, found |-> None]
           r2 == [call |-> "access", old |-> None, new |-> None, size |-> 0, growth |-> 0,
                  freed |-> {}, addr |-> a, found |-> None]
<1>1. [NoOp EXCEPT !.call = "access"] = r1
  BY DEF NoOp
<1>2. [r1 EXCEPT !.addr = a] = r2
  OBVIOUS
<1>3. r2 = AccessRequest(a)
  BY DEF AccessRequest
<1> HIDE DEF r1, r2
<1> QED
  BY <1>1, <1>2, <1>3, Zenon

\* From here to ReadClassEffect: one lemma for each action, what it requires of the
\* place of the thread and what it makes of its place and request.
LEMMA AllocEffect ==
    ASSUME NEW t \in Threads, Alloc(t)
    PROVE  \E b \in Addrs, n \in Sizes :
             /\ Moves(t, "app", "classify") /\ Asks(t, AllocRequest(b, n))
             /\ Free(b, n, None) /\ mem' = Put(mem, b, n)
BY AllocRecord DEF Alloc, At, Move, Request, Moves, Asks

LEMMA ClassifyObjEffect ==
    ASSUME NEW t \in Threads, ClassifyObj(t)
    PROVE  Moves(t, "classify", "insert") /\ op' = op /\ mem' = mem
BY DEF ClassifyObj, Classify, At, Move, Moves

LEMMA DeallocEffect ==
    ASSUME NEW t \in Threads, Dealloc(t)
    PROVE  \E b \in DOMAIN mem :
             /\ Moves(t, "app", "remove") /\ Asks(t, DeallocRequest(b))
             /\ Users(b) = {} /\ mem' = mem
BY DeallocRecord DEF Dealloc, At, Move, Request, Moves, Asks

LEMMA ReallocEffect ==
    ASSUME NEW t \in Threads, Realloc(t)
    PROVE  \E b \in DOMAIN mem, c \in Addrs, n \in Sizes :
             /\ Moves(t, "app", IF c = b THEN "insert" ELSE "remove")
             /\ Asks(t, ReallocRequest(b, c, n, IF c = b THEN {} ELSE Bytes(b, mem[b])))
             /\ Users(b) = {} /\ Free(c, n, b) /\ (c # b => ~ Overlap(b, mem[b], c, n))
             /\ mem' = Put(Drop(mem, b), c, n)
             /\ history' = [history EXCEPT !.reallocs = @ + 1,
                                           !.touched = IF c = b THEN @ ELSE @ \ {b}]
BY ReallocRecord DEF Realloc, At, Move, Request, Moves, Asks

LEMMA SystemDeallocEffect ==
    ASSUME NEW t \in Threads, SystemDealloc(t)
    PROVE  /\ Moves(t, "free", "app") /\ Asks(t, NoOp)
           /\ mem' = Drop(mem, op[t].old)
BY DEF SystemDealloc, At, Move, Request, Finish, Moves, Asks

LEMMA LockInsertEffect ==
    ASSUME NEW t \in Threads, LockInsert(t)
    PROVE  Moves(t, "insert", "inserting") /\ op' = op /\ mem' = mem
BY DEF LockInsert, Lock, Take, At, Move, Moves

LEMMA LockRemoveEffect ==
    ASSUME NEW t \in Threads, LockRemove(t)
    PROVE  Moves(t, "remove", "removing") /\ op' = op /\ mem' = mem
BY DEF LockRemove, Lock, Take, At, Move, Moves

LEMMA LockRemoveUnsafeEffect ==
    ASSUME NEW t \in Threads, LockRemoveUnsafe(t)
    PROVE  Moves(t, "remove unsafe", "removing unsafe") /\ op' = op /\ mem' = mem
BY DEF LockRemoveUnsafe, Take, At, Move, Moves

LEMMA LockFindEffect ==
    ASSUME NEW t \in Threads, LockFind(t)
    PROVE  Moves(t, "find", "finding") /\ op' = op /\ mem' = mem
BY DEF LockFind, Lock, Take, At, Move, Moves

LEMMA LockMarkEffect ==
    ASSUME NEW t \in Threads, LockMark(t)
    PROVE  Moves(t, "mark", "marking") /\ op' = op /\ mem' = mem
BY DEF LockMark, Lock, Take, At, Move, Moves

LEMMA InsertObjEffect ==
    ASSUME NEW t \in Threads, InsertObj(t)
    PROVE  /\ Moves(t, "inserting", "app") /\ Asks(t, NoOp) /\ mem' = mem
           /\ live_objs' = Put(live_objs, op[t].new, op[t].size)
           /\ stats' = [stats EXCEPT !.total_usage = @ + op[t].growth]
           /\ SKIP_TRACKING' = [SKIP_TRACKING EXCEPT ![t] = FALSE]
BY Zenon DEF InsertObj, Insert, At, Move, Request, Finish, Unlock, ClearFlag, Moves, Asks

LEMMA RemoveObjEffect ==
    ASSUME NEW t \in Threads, RemoveObj(t)
    PROVE  Moves(t, "removing", "remove unsafe") /\ op' = op /\ mem' = mem
BY DEF RemoveObj, At, Move, Moves

LEMMA MovedFields ==
    ASSUME NEW r \in Requests, NEW s, s = [r EXCEPT !.old = None, !.freed = {}]
    PROVE  /\ s.old = None /\ s.freed = {} /\ s.call = r.call /\ s.new = r.new
           /\ s.size = r.size /\ s.growth = r.growth /\ s \in Requests
BY MovedType, Zenon DEF Requests

LEMMA RemoveUnsafeObjEffect ==
    ASSUME NEW t \in Threads, RemoveUnsafeObj(t), op[t] \in Requests
    PROVE  /\ mem' = mem
           /\ op[t].call = "dealloc" => Moves(t, "removing unsafe", "free") /\ op' = op
           /\ op[t].call # "dealloc" => Moves(t, "removing unsafe", "classify")
           /\ op[t].call # "dealloc" =>
                \E s \in Requests :
                   /\ Asks(t, s) /\ s.old = None /\ s.freed = {}
                   /\ s.call = op[t].call /\ s.new = op[t].new /\ s.size = op[t].size
                   /\ s.growth = op[t].growth
<1>1. mem' = mem
  BY DEF RemoveUnsafeObj
<1>2. op[t].call = "dealloc" => Moves(t, "removing unsafe", "free") /\ op' = op
  BY Zenon DEF RemoveUnsafeObj, At, Move, Moves
<1>3. op[t].call # "dealloc" => Moves(t, "removing unsafe", "classify")
  BY Zenon DEF RemoveUnsafeObj, At, Move, Moves
<1>4. ASSUME op[t].call # "dealloc"
      PROVE  \E s \in Requests :
                /\ Asks(t, s) /\ s.old = None /\ s.freed = {}
                /\ s.call = op[t].call /\ s.new = op[t].new /\ s.size = op[t].size
                /\ s.growth = op[t].growth
  <2>1. Asks(t, [op[t] EXCEPT !.old = None, !.freed = {}])
    BY <1>4, Zenon DEF RemoveUnsafeObj, Request, Asks
  <2>2. PICK s : s = [op[t] EXCEPT !.old = None, !.freed = {}]
    OBVIOUS
  <2>3. Asks(t, s)
    BY <2>1, <2>2, Zenon
  <2> QED
    BY <2>2, <2>3, MovedFields, Zenon
<1> QED
  BY <1>1, <1>2, <1>3, <1>4

LEMMA AccessEffect ==
    ASSUME NEW t \in Threads, Access(t)
    PROVE  \E a \in Accessible :
             Moves(t, "app", "find") /\ Asks(t, AccessRequest(a)) /\ mem' = mem
BY AccessRecord DEF Access, At, Move, Request, Moves, Asks

LEMMA FindHeapObjEffect ==
    ASSUME NEW t \in Threads, FindHeapObj(t), op \in [Threads -> Requests]
    PROVE  /\ Moves(t, "finding", "found") /\ mem' = mem
           /\ \E s : Asks(t, s)
           /\ op'[t].found = Lookup(op[t].addr)
           /\ op'[t].size = IF op'[t].found = None THEN 0 ELSE live_objs[op'[t].found]
           /\ op'[t].call = op[t].call /\ op'[t].old = op[t].old /\ op'[t].new = op[t].new
           /\ op'[t].growth = op[t].growth /\ op'[t].freed = op[t].freed
           /\ op'[t].addr = op[t].addr
           /\ op'[t].found \in Addrs \cup {None} /\ op'[t].size \in Nat => op'[t] \in Requests
<1> DEFINE base == Lookup(op[t].addr)
           n == IF base = None THEN 0 ELSE live_objs[base]
           s == op'[t]
<1>0. op[t] \in Requests
  OBVIOUS
<1>1. Moves(t, "finding", "found") /\ mem' = mem
  BY DEF FindHeapObj, At, Move, Moves
<1>2. op' = [op EXCEPT ![t] = [op[t] EXCEPT !.found = base, !.size = n]]
  BY Zenon DEF FindHeapObj, Request
<1>3. \E r : Asks(t, r)
  BY <1>2, Zenon DEF Asks
<1>4. s = [op[t] EXCEPT !.found = base, !.size = n]
  BY <1>2, Zenon
<1> HIDE DEF base, n, s
<1>5. /\ s.found = base /\ s.size = n /\ s.call = op[t].call /\ s.old = op[t].old
      /\ s.new = op[t].new /\ s.growth = op[t].growth /\ s.freed = op[t].freed
      /\ s.addr = op[t].addr
  BY <1>0, <1>4, Zenon DEF Requests
<1>6. s.found \in Addrs \cup {None} /\ s.size \in Nat => s \in Requests
  BY <1>0, <1>4, <1>5, FoundType, Zenon
<1>7. s.size = IF s.found = None THEN 0 ELSE live_objs[s.found]
  BY <1>5 DEF base, n
<1>8. s.found = Lookup(op[t].addr)
  BY <1>5 DEF base
<1> QED
  BY <1>1, <1>3, <1>5, <1>6, <1>7, <1>8 DEF s

LEMMA AccessSafeEffect ==
    ASSUME NEW t \in Threads, AccessSafe(t)
    PROVE  Moves(t, "found", "app") /\ Asks(t, NoOp) /\ mem' = mem
BY DEF AccessSafe, At, Move, Request, Finish, Moves, Asks

LEMMA AccessUnsafeEffect ==
    ASSUME NEW t \in Threads, AccessUnsafe(t)
    PROVE  /\ Moves(t, "found", "mark") /\ op' = op /\ mem' = mem
           /\ op[t].found # None
BY DEF AccessUnsafe, At, Move, Moves

LEMMA MarkUnsafeEffect ==
    ASSUME NEW t \in Threads, MarkUnsafe(t)
    PROVE  Moves(t, "marking", "app") /\ Asks(t, NoOp) /\ mem' = mem
BY DEF MarkUnsafe, At, Move, Request, Finish, Moves, Asks

LEMMA DumpStatsEffect ==
    ASSUME DumpStats
    PROVE  Moves(Main, "app", "counters") /\ op' = op /\ mem' = mem
BY DEF DumpStats, At, Move, Moves

LEMMA SetFlagEffect ==
    ASSUME SetFlag
    PROVE  /\ Moves(Main, "counters", "read") /\ op' = op /\ mem' = mem
           /\ stats' = stats /\ history' = history
BY DEF SetFlag, PrepareFormat, At, Move, Moves

\* The last class is followed by the formatting of the report.
LEMMA ReadClassEffect ==
    ASSUME ReadClass
    PROVE  /\ pc[Main] = "read" /\ op' = op /\ mem' = mem
           /\ \/ /\ pc' = pc /\ stats' = stats /\ history' = history
                 /\ report.class + 1 \in Classes
              \/ /\ Moves(Main, "read", "exited")
                 /\ report.class + 1 \notin Classes
                 /\ \E old, new \in Sizes :
                      /\ old <= new
                      /\ stats' = [stats EXCEPT !.total_usage = @ + (new - old)]
                      /\ history' = [history EXCEPT !.untracked = @ + (new - old)]
BY DEF ReadClass, FormatReport, Growth, At, Move, Moves
-----------------------------------------------------------------------------
(* The maps and the blocks                                                 *)

\* Entries that are put into a map and dropped from it.
LEMMA PutFacts ==
    \A f, x, y : /\ DOMAIN Put(f, x, y) = DOMAIN f \cup {x}
                 /\ Put(f, x, y)[x] = y
                 /\ \A z \in DOMAIN f \ {x} : Put(f, x, y)[z] = f[z]
BY DEF Put

LEMMA PutType ==
    ASSUME NEW f, NEW R, f \in [DOMAIN f -> R], NEW x, NEW y \in R
    PROVE  Put(f, x, y) \in [DOMAIN Put(f, x, y) -> R]
BY DEF Put

LEMMA DropFacts ==
    \A f, x : /\ DOMAIN Drop(f, x) = DOMAIN f \ {x}
              /\ \A z \in DOMAIN f \ {x} : Drop(f, x)[z] = f[z]
BY DEF Drop, Restrict

LEMMA DropType ==
    ASSUME NEW f, NEW R, f \in [DOMAIN f -> R], NEW x
    PROVE  Drop(f, x) \in [DOMAIN Drop(f, x) -> R]
BY DEF Drop, Restrict

\* The addresses of a range.
LEMMA BytesFacts ==
    /\ \A b \in Int : \A n \in Sizes : b \in Bytes(b, n)
    /\ \A b, n, a \in Int : a \in Bytes(b, n) <=> a \in Int /\ b <= a /\ a < b + n
BY BoundsFacts DEF Bytes, Sizes

\* The addresses are finitely many natural numbers, and None is not one.
LEMMA AddrFacts == Addrs \subseteq Nat /\ IsFiniteSet(Addrs) /\ None \notin Addrs /\ NotHeap \subseteq Addrs
BY BoundsFacts, FS_Interval, NotHeapAssumption DEF Addrs, None

\* Blocks do not overlap, and none is on a stack.
BlockInv ==
    /\ \A b \in DOMAIN mem : Bytes(b, mem[b]) \subseteq Addrs \ NotHeap
    /\ \A b, c \in DOMAIN mem : b # c => Bytes(b, mem[b]) \cap Bytes(c, mem[c]) = {}

\* A free range does not begin where a block does.
LEMMA FreeIsFresh ==
    ASSUME TypeInv, NEW b \in Addrs, NEW n \in Sizes, NEW own, Free(b, n, own), b # own
    PROVE  b \notin DOMAIN mem
<1>1. b \in Bytes(b, n)
  BY BytesFacts, AddrFacts
<1>2. ASSUME b \in DOMAIN mem
      PROVE  FALSE
  <2>1. mem[b] \in Sizes
    BY <1>2 DEF TypeInv
  <2>2. b \in Bytes(b, mem[b])
    BY <2>1, BytesFacts, AddrFacts
  <2>3. ~ Overlap(b, n, b, mem[b])
    BY <1>2 DEF Free
  <2> QED
    BY <1>1, <2>2, <2>3 DEF Overlap
<1> QED
  BY <1>2

MemType == mem \in [DOMAIN mem -> Sizes] /\ DOMAIN mem \subseteq Addrs

\* The memory after a call of the system allocator that returns a block.
LEMMA PutBlock ==
    ASSUME NEW f, f \in [DOMAIN f -> Sizes], DOMAIN f \subseteq Addrs,
           NEW b \in Addrs \ DOMAIN f, NEW n \in Sizes,
           Bytes(b, n) \subseteq Addrs \ NotHeap,
           \A c \in DOMAIN f : /\ Bytes(c, f[c]) \subseteq Addrs \ NotHeap
                               /\ Bytes(b, n) \cap Bytes(c, f[c]) = {},
           \A c, d \in DOMAIN f : c # d => Bytes(c, f[c]) \cap Bytes(d, f[d]) = {},
           mem' = Put(f, b, n)
    PROVE  MemType' /\ BlockInv'
<1>1. /\ DOMAIN mem' = DOMAIN f \cup {b} /\ mem'[b] = n
      /\ \A c \in DOMAIN f : mem'[c] = f[c]
  <2>1. /\ DOMAIN mem' = DOMAIN f \cup {b} /\ mem'[b] = n
        /\ \A c \in DOMAIN f \ {b} : mem'[c] = f[c]
    BY DEF Put
  <2>2. DOMAIN f \ {b} = DOMAIN f
    OBVIOUS
  <2> QED
    BY <2>1, <2>2
<1>2. MemType'
  BY <1>1, PutType DEF MemType
<1>3. \A c \in DOMAIN mem' : Bytes(c, mem'[c]) \subseteq Addrs \ NotHeap
  BY <1>1
<1>4. ASSUME NEW c \in DOMAIN mem', NEW d \in DOMAIN mem', c # d
      PROVE  Bytes(c, mem'[c]) \cap Bytes(d, mem'[d]) = {}
  <2>1. CASE c = b
    <3>1. d \in DOMAIN f
      BY <1>1, <1>4, <2>1
    <3> QED
      BY <1>1, <2>1, <3>1
  <2>2. CASE d = b
    <3>1. c \in DOMAIN f
      BY <1>1, <1>4, <2>2
    <3>2. Bytes(b, n) \cap Bytes(c, f[c]) = {}
      BY <3>1
    <3> QED
      BY <1>1, <2>2, <3>1, <3>2
  <2>3. CASE c # b /\ d # b
    BY <1>1, <1>4, <2>3
  <2> QED
    BY <2>1, <2>2, <2>3
<1> QED
  BY <1>2, <1>3, <1>4 DEF BlockInv

\* What Free says of the other blocks.
LEMMA FreeFacts ==
    ASSUME NEW b, NEW n, NEW own, Free(b, n, own)
    PROVE  /\ Bytes(b, n) \subseteq Addrs \ NotHeap
           /\ \A c \in DOMAIN mem \ {own} : Bytes(b, n) \cap Bytes(c, mem[c]) = {}
           /\ ReuseInWindow = FALSE => \A t \in Threads : Bytes(b, n) \cap op[t].freed = {}
BY DEF Free, Overlap

\* The three actions that change the memory keep its blocks apart.
LEMMA AllocBlocks ==
    ASSUME TypeInv, BlockInv, NEW t \in Threads, Alloc(t)
    PROVE  MemType' /\ BlockInv'
<1>1. PICK b \in Addrs, n \in Sizes : Free(b, n, None) /\ mem' = Put(mem, b, n)
  BY AllocEffect
<1>2. b \notin DOMAIN mem
  BY <1>1, FreeIsFresh, AddrFacts
<1>3. None \notin DOMAIN mem
  BY AddrFacts DEF TypeInv
<1>4. /\ Bytes(b, n) \subseteq Addrs \ NotHeap
      /\ \A c \in DOMAIN mem : Bytes(b, n) \cap Bytes(c, mem[c]) = {}
  BY <1>1, <1>3, FreeFacts
<1> QED
  BY <1>1, <1>2, <1>4, PutBlock DEF TypeInv, BlockInv

LEMMA ReallocBlocks ==
    ASSUME TypeInv, BlockInv, NEW t \in Threads, Realloc(t)
    PROVE  MemType' /\ BlockInv'
<1>1. PICK b \in DOMAIN mem, c \in Addrs, n \in Sizes :
        Free(c, n, b) /\ mem' = Put(Drop(mem, b), c, n)
  BY ReallocEffect
<1> DEFINE f == Drop(mem, b)
<1>2. DOMAIN f = DOMAIN mem \ {b} /\ \A d \in DOMAIN mem \ {b} : f[d] = mem[d]
  BY DropFacts
<1>3. f \in [DOMAIN f -> Sizes]
  BY DropType DEF TypeInv
<1>4. c \notin DOMAIN f
  BY <1>1, <1>2, FreeIsFresh
<1>5. /\ Bytes(c, n) \subseteq Addrs \ NotHeap
      /\ \A d \in DOMAIN mem \ {b} : Bytes(c, n) \cap Bytes(d, mem[d]) = {}
  BY <1>1, FreeFacts
<1>6. mem' = Put(f, c, n)
  BY <1>1
<1> HIDE DEF f
<1>7. DOMAIN f \subseteq Addrs
  BY <1>2 DEF TypeInv
<1>8. \A d \in DOMAIN f : /\ Bytes(d, f[d]) \subseteq Addrs \ NotHeap
                          /\ Bytes(c, n) \cap Bytes(d, f[d]) = {}
  BY <1>2, <1>5 DEF BlockInv
<1>9. \A d, e \in DOMAIN f : d # e => Bytes(d, f[d]) \cap Bytes(e, f[e]) = {}
  BY <1>2 DEF BlockInv
<1> QED
  BY <1>3, <1>4, <1>5, <1>6, <1>7, <1>8, <1>9, PutBlock

LEMMA SystemDeallocBlocks ==
    ASSUME TypeInv, BlockInv, NEW t \in Threads, SystemDealloc(t)
    PROVE  MemType' /\ BlockInv'
<1>1. mem' = Drop(mem, op[t].old)
  BY SystemDeallocEffect
<1>2. /\ DOMAIN mem' = DOMAIN mem \ {op[t].old}
      /\ \A d \in DOMAIN mem \ {op[t].old} : mem'[d] = mem[d]
  BY <1>1, DropFacts
<1>3. mem' \in [DOMAIN mem' -> Sizes]
  BY <1>1, DropType DEF TypeInv
<1> QED
  BY <1>2, <1>3 DEF TypeInv, BlockInv, MemType

\* The steps of a thread, and those of the destructor.
ThreadStep(t) ==
    \/ Alloc(t) \/ ClassifyObj(t) \/ Dealloc(t) \/ Realloc(t) \/ SystemDealloc(t)
    \/ LockInsert(t) \/ LockRemove(t) \/ LockRemoveUnsafe(t) \/ LockFind(t) \/ LockMark(t)
    \/ InsertObj(t) \/ RemoveObj(t) \/ RemoveUnsafeObj(t)
    \/ Access(t) \/ FindHeapObj(t) \/ AccessSafe(t) \/ AccessUnsafe(t) \/ MarkUnsafe(t)
DumpStep == DumpStats \/ SetFlag \/ ReadClass

\* A tree's request for a node passes under the flag: nothing changes.
LEMMA NodeEffect ==
    ASSUME FlagInv, NEW t \in Threads, AllocNode(t) \/ FreeNode(t)
    PROVE  UNCHANGED vars
<1>1. pc[t] \in {"inserting", "marking", "removing", "removing unsafe"}
  BY DEF AllocNode, FreeNode, NodeRequest
<1>2. SKIP_TRACKING[t]
  BY <1>1 DEF FlagInv, Flagged
<1> QED
  BY <1>2, Zenon DEF AllocNode, FreeNode, NodeRequest, vars

LEMMA NextSteps ==
    ASSUME FlagInv, [Next]_vars
    PROVE  (\E t \in Threads : ThreadStep(t)) \/ DumpStep \/ UNCHANGED vars
<1>1. (\E t \in Threads : AllocNode(t) \/ FreeNode(t)) => UNCHANGED vars
  BY NodeEffect
<1> QED
  BY <1>1, Zenon DEF Next, ThreadStep, DumpStep, Ended
-----------------------------------------------------------------------------
(* Places and requests                                                     *)

\* A thread moves and asks for itself.
LEMMA Aside ==
    ASSUME FlagInv, TypeInv, NEW t \in Threads, ThreadStep(t)
    PROVE  (\E place : pc' = [pc EXCEPT ![t] = place]) /\ (\E r : op' = [op EXCEPT ![t] = r])
<1>0. op[t] \in Requests
  BY DEF TypeInv
<1>1. op = [op EXCEPT ![t] = op[t]]
  BY DEF TypeInv
<1>2. CASE Alloc(t)
  BY <1>1, <1>2, AllocEffect DEF Moves, Asks
<1>3. CASE Dealloc(t)
  BY <1>1, <1>3, DeallocEffect DEF Moves, Asks
<1>4. CASE Realloc(t)
  BY <1>1, <1>4, ReallocEffect DEF Moves, Asks
<1>5. CASE SystemDealloc(t)
  BY <1>1, <1>5, SystemDeallocEffect DEF Moves, Asks
<1>6. CASE LockInsert(t)
  BY <1>1, <1>6, LockInsertEffect DEF Moves, Asks
<1>7. CASE LockRemove(t)
  BY <1>1, <1>7, LockRemoveEffect DEF Moves, Asks
<1>8. CASE LockRemoveUnsafe(t)
  BY <1>1, <1>8, LockRemoveUnsafeEffect DEF Moves, Asks
<1>9. CASE LockFind(t)
  BY <1>1, <1>9, LockFindEffect DEF Moves, Asks
<1>10. CASE LockMark(t)
  BY <1>1, <1>10, LockMarkEffect DEF Moves, Asks
<1>11. CASE InsertObj(t)
  BY <1>1, <1>11, InsertObjEffect DEF Moves, Asks
<1>12. CASE RemoveObj(t)
  BY <1>1, <1>12, RemoveObjEffect DEF Moves, Asks
<1>13. CASE RemoveUnsafeObj(t)
  BY <1>0, <1>1, <1>13, RemoveUnsafeObjEffect DEF Moves, Asks
<1>14. CASE Access(t)
  BY <1>1, <1>14, AccessEffect DEF Moves, Asks
<1>15. CASE FindHeapObj(t)
  BY <1>1, <1>15, FindHeapObjEffect DEF Moves, Asks, TypeInv
<1>16. CASE AccessSafe(t)
  BY <1>1, <1>16, AccessSafeEffect DEF Moves, Asks
<1>17. CASE AccessUnsafe(t)
  BY <1>1, <1>17, AccessUnsafeEffect DEF Moves, Asks
<1>18. CASE MarkUnsafe(t)
  BY <1>1, <1>18, MarkUnsafeEffect DEF Moves, Asks
<1>19. CASE ClassifyObj(t)
  BY <1>1, <1>19, ClassifyObjEffect DEF Moves, Asks
<1> QED
  BY <1>2, <1>3, <1>4, <1>5, <1>6, <1>7, <1>8, <1>9, <1>10, <1>11, <1>12, <1>13, <1>14, <1>15,
     <1>16, <1>17, <1>18,
     <1>19 DEF ThreadStep

\* Other threads stay where they are.
LEMMA AsideOthers ==
    ASSUME FlagInv, TypeInv, NEW t \in Threads, ThreadStep(t)
    PROVE  \A u \in Threads \ {t} : pc'[u] = pc[u] /\ op'[u] = op[u]
<1>1. PICK place : pc' = [pc EXCEPT ![t] = place]
  BY Aside
<1>2. PICK r : op' = [op EXCEPT ![t] = r]
  BY Aside
<1> QED
  BY <1>1, <1>2 DEF TypeInv

\* What the program may access is in the address space.
LEMMA AccessibleAddrs == ASSUME BlockInv PROVE Accessible \subseteq Addrs
BY AddrFacts DEF Accessible, BlockInv

\* A request stays one that belongs to the place of its thread.
LEMMA CallStep ==
    ASSUME TypeInv, CallInv, FlagInv, BlockInv, NEW t \in Threads, ThreadStep(t)
    PROVE  CallInv'
<1> USE DEF Moves, Asks, Called, Idle, Inserting, Removing, RemovingUnsafe, Searching, Found
<1>0. /\ Called(t) /\ t \in DOMAIN pc /\ t \in DOMAIN op /\ op[t] \in Requests
  BY DEF CallInv, TypeInv
<1>1. ASSUME NEW u \in Threads \ {t}
      PROVE  Called(u)'
  <2>1. pc'[u] = pc[u] /\ op'[u] = op[u]
    BY AsideOthers
  <2>2. Called(u)
    BY DEF CallInv
  <2> QED
    BY <2>1, <2>2
<1>2. ASSUME Alloc(t) PROVE Called(t)'
  <2>1. PICK b \in Addrs, n \in Sizes : pc'[t] = "classify" /\ op'[t] = AllocRequest(b, n)
    BY <1>0, <1>2, AllocEffect
  <2>2. op'[t].call = "alloc" /\ op'[t].old = None /\ op'[t].growth = 0 /\ op'[t].freed = {}
    BY <2>1 DEF AllocRequest
  <2> QED
    BY <2>1, <2>2
<1>3. ASSUME Dealloc(t) PROVE Called(t)'
  <2>1. PICK b : pc'[t] = "remove" /\ op'[t] = DeallocRequest(b)
    BY <1>0, <1>3, DeallocEffect
  <2>2. op'[t].call = "dealloc" /\ op'[t].new = None /\ op'[t].growth = 0 /\ op'[t].freed = {}
    BY <2>1 DEF DeallocRequest
  <2> QED
    BY <2>1, <2>2
<1>4. ASSUME Realloc(t) PROVE Called(t)'
  <2> HIDE DEF Moves, Asks
  <2>0. PICK b \in DOMAIN mem, c \in Addrs, n \in Sizes :
          /\ Moves(t, "app", IF c = b THEN "insert" ELSE "remove")
          /\ Asks(t, ReallocRequest(b, c, n, IF c = b THEN {} ELSE Bytes(b, mem[b])))
    BY <1>4, ReallocEffect
  <2>1. /\ pc'[t] = IF c = b THEN "insert" ELSE "remove"
        /\ op'[t] = ReallocRequest(b, c, n, IF c = b THEN {} ELSE Bytes(b, mem[b]))
    BY <1>0, <2>0 DEF Moves, Asks
  <2>2. /\ op'[t].call = "realloc" /\ op'[t].old = b /\ op'[t].new = c
        /\ op'[t].freed = IF c = b THEN {} ELSE Bytes(b, mem[b])
    BY <2>1 DEF ReallocRequest
  <2>3. b # None
    BY AddrFacts DEF TypeInv
  <2>4. CASE c = b
    BY <2>1, <2>2, <2>4
  <2>5. CASE c # b
    BY <2>1, <2>2, <2>3, <2>5
  <2> QED
    BY <2>4, <2>5
<1>5. ASSUME SystemDealloc(t) PROVE Called(t)'
  <2>1. pc'[t] = "app" /\ op'[t] = NoOp
    BY <1>0, <1>5, SystemDeallocEffect
  <2>2. op'[t].call = "none" /\ op'[t].growth = 0 /\ op'[t].freed = {}
    BY <2>1 DEF NoOp
  <2> QED
    BY <2>1, <2>2
<1>6. ASSUME LockInsert(t) PROVE Called(t)'
  BY <1>0, <1>6, LockInsertEffect
<1>7. ASSUME LockRemove(t) PROVE Called(t)'
  BY <1>0, <1>7, LockRemoveEffect
<1>8. ASSUME LockRemoveUnsafe(t) PROVE Called(t)'
  BY <1>0, <1>8, LockRemoveUnsafeEffect
<1>9. ASSUME LockFind(t) PROVE Called(t)'
  BY <1>0, <1>9, LockFindEffect
<1>10. ASSUME LockMark(t) PROVE Called(t)'
  BY <1>0, <1>10, LockMarkEffect
<1>11. ASSUME InsertObj(t) PROVE Called(t)'
  <2>1. pc'[t] = "app" /\ op'[t] = NoOp
    BY <1>0, <1>11, InsertObjEffect
  <2>2. op'[t].call = "none" /\ op'[t].growth = 0 /\ op'[t].freed = {}
    BY <2>1 DEF NoOp
  <2> QED
    BY <2>1, <2>2
<1>12. ASSUME RemoveObj(t) PROVE Called(t)'
  BY <1>0, <1>12, RemoveObjEffect
<1>13. ASSUME RemoveUnsafeObj(t) PROVE Called(t)'
  <2>1. pc[t] = "removing unsafe" /\ op[t].call \in {"dealloc", "realloc"}
    BY <1>0, <1>13, RemoveUnsafeObjEffect DEF Requests
  <2>2. CASE op[t].call = "dealloc"
    BY <1>0, <2>2, <1>13, RemoveUnsafeObjEffect
  <2>3. CASE op[t].call = "realloc"
    <3>1. PICK s \in Requests : /\ Asks(t, s) /\ s.old = None /\ s.freed = {}
                                /\ s.call = op[t].call
      BY <1>0, <2>3, <1>13, RemoveUnsafeObjEffect
    <3>2. pc'[t] = "classify" /\ op'[t] = s
      BY <1>0, <2>3, <3>1, <1>13, RemoveUnsafeObjEffect
    <3> QED
      BY <2>3, <3>1, <3>2
  <2> QED
    BY <2>1, <2>2, <2>3
<1>14. ASSUME Access(t) PROVE Called(t)'
  <2>1. PICK a \in Accessible : pc'[t] = "find" /\ op'[t] = AccessRequest(a)
    BY <1>0, <1>14, AccessEffect
  <2>2. /\ op'[t].call = "access" /\ op'[t].addr = a /\ op'[t].new = None
        /\ op'[t].growth = 0 /\ op'[t].freed = {}
    BY <2>1 DEF AccessRequest
  <2>3. a \in Addrs
    BY AccessibleAddrs
  <2> QED
    BY <2>1, <2>2, <2>3
<1>15. ASSUME FindHeapObj(t) PROVE Called(t)'
  <2>1. pc[t] = "finding" /\ pc'[t] = "found"
    BY <1>0, <1>15, FindHeapObjEffect DEF TypeInv
  <2>2. op[t].call = "access"
    BY <1>0, <2>1 DEF Requests
  <2>3. /\ op'[t].call = op[t].call /\ op'[t].addr = op[t].addr /\ op'[t].new = op[t].new
        /\ op'[t].growth = op[t].growth /\ op'[t].freed = op[t].freed
    BY <1>15, FindHeapObjEffect DEF TypeInv
  <2> QED
    BY <1>0, <2>1, <2>2, <2>3
<1>16. ASSUME AccessSafe(t) PROVE Called(t)'
  <2>1. pc'[t] = "app" /\ op'[t] = NoOp
    BY <1>0, <1>16, AccessSafeEffect
  <2>2. op'[t].call = "none" /\ op'[t].growth = 0 /\ op'[t].freed = {}
    BY <2>1 DEF NoOp
  <2> QED
    BY <2>1, <2>2
<1>17. ASSUME AccessUnsafe(t) PROVE Called(t)'
  BY <1>0, <1>17, AccessUnsafeEffect
<1>18. ASSUME MarkUnsafe(t) PROVE Called(t)'
  <2>1. pc'[t] = "app" /\ op'[t] = NoOp
    BY <1>0, <1>18, MarkUnsafeEffect
  <2>2. op'[t].call = "none" /\ op'[t].growth = 0 /\ op'[t].freed = {}
    BY <2>1 DEF NoOp
  <2> QED
    BY <2>1, <2>2
<1>19. ASSUME ClassifyObj(t) PROVE Called(t)'
  BY <1>0, <1>19, ClassifyObjEffect
<1>20. Called(t)'
  BY <1>2, <1>3, <1>4, <1>5, <1>6, <1>7, <1>8, <1>9, <1>10, <1>11, <1>12, <1>13, <1>14, <1>15,
     <1>16,
     <1>17, <1>18, <1>19 DEF ThreadStep
<1> QED
  BY <1>1, <1>20 DEF CallInv
-----------------------------------------------------------------------------
(* Which steps change what                                                 *)

\* From here to StutterFrame: the actions that change a variable.
LEMMA MemFrame ==
    ASSUME NEW t \in Threads, ThreadStep(t)
    PROVE  mem' = mem \/ Alloc(t) \/ Realloc(t) \/ SystemDealloc(t)
BY Zenon DEF ThreadStep, ClassifyObj, Classify, Dealloc, LockInsert, LockRemove,
   LockRemoveUnsafe, LockFind, LockMark, Lock,
   Take, InsertObj, Insert, RemoveObj, RemoveUnsafeObj, Access, FindHeapObj,
   AccessSafe, AccessUnsafe, MarkUnsafe

LEMMA MapFrame ==
    ASSUME NEW t \in Threads, ThreadStep(t)
    PROVE  live_objs' = live_objs \/ InsertObj(t) \/ RemoveObj(t)
BY Zenon DEF ThreadStep, Alloc, ClassifyObj, Classify, Dealloc, Realloc, SystemDealloc,
   LockInsert, LockRemove,
   LockRemoveUnsafe, LockFind, LockMark, Lock, Take, RemoveUnsafeObj, Access,
   FindHeapObj, AccessSafe, AccessUnsafe, MarkUnsafe, maps

LEMMA UnsafeFrame ==
    ASSUME NEW t \in Threads, ThreadStep(t)
    PROVE  live_unsafe_objs' = live_unsafe_objs \/ RemoveUnsafeObj(t) \/ MarkUnsafe(t)
BY Zenon DEF ThreadStep, Alloc, ClassifyObj, Classify, Dealloc, Realloc, SystemDealloc,
   LockInsert, LockRemove,
   LockRemoveUnsafe, LockFind, LockMark, Lock, Take, InsertObj, Insert, RemoveObj, Access,
   FindHeapObj, AccessSafe, AccessUnsafe, maps

LEMMA StatsFrame ==
    ASSUME NEW t \in Threads, ThreadStep(t)
    PROVE  \/ stats' = stats \/ Alloc(t) \/ ClassifyObj(t) \/ Dealloc(t) \/ InsertObj(t)
           \/ RemoveUnsafeObj(t) \/ MarkUnsafe(t)
BY Zenon DEF ThreadStep, Realloc, SystemDealloc, LockInsert, LockRemove, LockRemoveUnsafe, LockFind,
   LockMark, Lock, Take, RemoveObj, Access, FindHeapObj, AccessSafe, AccessUnsafe

LEMMA HistoryFrame ==
    ASSUME NEW t \in Threads, ThreadStep(t)
    PROVE  history' = history \/ ClassifyObj(t) \/ Realloc(t) \/ SystemDealloc(t) \/ MarkUnsafe(t)
BY Zenon DEF ThreadStep, Alloc, Dealloc, LockInsert, LockRemove, LockRemoveUnsafe, LockFind,
   LockMark, Lock, Take, InsertObj, Insert, RemoveObj, RemoveUnsafeObj, Access,
   FindHeapObj, AccessSafe, AccessUnsafe

LEMMA ReportFrame ==
    ASSUME NEW t \in Threads, ThreadStep(t)
    PROVE  report' = report
BY Zenon DEF ThreadStep, Alloc, ClassifyObj, Classify, Dealloc, Realloc, SystemDealloc,
   LockInsert, LockRemove,
   LockRemoveUnsafe, LockFind, LockMark, Lock, Take, InsertObj, Insert, RemoveObj,
   RemoveUnsafeObj, Access, FindHeapObj, AccessSafe, AccessUnsafe, MarkUnsafe

LEMMA FlagFrame ==
    ASSUME NEW t \in Threads, ThreadStep(t)
    PROVE  \/ SKIP_TRACKING' = SKIP_TRACKING
           \/ SKIP_TRACKING' = [SKIP_TRACKING EXCEPT ![t] = TRUE]
           \/ SKIP_TRACKING' = [SKIP_TRACKING EXCEPT ![t] = FALSE]
BY Zenon DEF ThreadStep, Alloc, ClassifyObj, Classify, Dealloc, Realloc, SystemDealloc,
   LockInsert, LockRemove,
   LockRemoveUnsafe, LockFind, LockMark, Lock, Take, InsertObj, Insert, RemoveObj,
   RemoveUnsafeObj, Access, FindHeapObj, AccessSafe, AccessUnsafe, MarkUnsafe,
   ClearFlag

LEMMA MutexFrame ==
    ASSUME NEW t \in Threads, ThreadStep(t)
    PROVE  \/ mutex' = mutex
           \/ \E name \in {"objs", "unsafe"} : \/ mutex' = [mutex EXCEPT ![name] = t]
                                               \/ mutex' = [mutex EXCEPT ![name] = Nobody]
BY Zenon DEF ThreadStep, Alloc, ClassifyObj, Classify, Dealloc, Realloc, SystemDealloc,
   LockInsert, LockRemove,
   LockRemoveUnsafe, LockFind, LockMark, Lock, Take, InsertObj, Insert, RemoveObj,
   RemoveUnsafeObj, Access, FindHeapObj, AccessSafe, AccessUnsafe, MarkUnsafe,
   Unlock

\* The destructor of the main thread leaves the requests and the maps alone.
LEMMA DumpFrame ==
    ASSUME DumpStep
    PROVE  /\ mem' = mem /\ live_objs' = live_objs /\ live_unsafe_objs' = live_unsafe_objs
           /\ mutex' = mutex /\ op' = op
BY Zenon DEF DumpStep, DumpStats, SetFlag, PrepareFormat, ReadClass, maps

\* What has grown is the total, and what is known of strings.
LEMMA DumpHistory ==
    ASSUME TypeInv, DumpStep
    PROVE  \E grown \in Nat :
             /\ stats' = [stats EXCEPT !.total_usage = @ + grown]
             /\ history' = [history EXCEPT !.untracked = @ + grown]
<1>1. stats = [stats EXCEPT !.total_usage = @ + 0] /\ history = [history EXCEPT !.untracked = @ + 0]
  BY DEF TypeInv, Counters, Histories
<1>2. CASE stats' = stats /\ history' = history
  BY <1>1, <1>2
<1>3. CASE ReadClass
  <2>1. CASE stats' = stats /\ history' = history
    BY <1>2, <2>1
  <2>2. CASE ~ (stats' = stats /\ history' = history)
    <3>1. PICK old \in Sizes, new \in Sizes :
            /\ old <= new
            /\ stats' = [stats EXCEPT !.total_usage = @ + (new - old)]
            /\ history' = [history EXCEPT !.untracked = @ + (new - old)]
      BY <1>3, <2>2, ReadClassEffect
    <3>2. new - old \in Nat
      BY <3>1, BoundsFacts DEF Sizes
    <3> QED
      BY <3>1, <3>2
  <2> QED
    BY <2>1, <2>2
<1>4. CASE DumpStats
  <2>1. stats' = stats /\ history' = history
    BY <1>4, Zenon DEF DumpStats
  <2> QED
    BY <1>2, <2>1
<1> QED
  BY <1>2, <1>3, <1>4, SetFlagEffect DEF DumpStep

\* So much of the two stays as it is.
LEMMA DumpKeeps ==
    ASSUME TypeInv, DumpStep
    PROVE  /\ history' \in Histories /\ stats' \in Counters
           /\ history'.reallocs = history.reallocs /\ history'.classified = history.classified
           /\ history'.freed = history.freed /\ history'.touched = history.touched
           /\ history'.firsts = history.firsts
           /\ stats'.total_alloc = stats.total_alloc /\ stats'.total_realloc = stats.total_realloc
           /\ stats'.total_dealloc = stats.total_dealloc
           /\ stats'.size_histogram = stats.size_histogram
           /\ stats'.total_unsafe_objs = stats.total_unsafe_objs
           /\ stats'.unsafe_mem = stats.unsafe_mem
           /\ stats'.unsafe_size_histogram = stats.unsafe_size_histogram
           /\ \E grown \in Nat : /\ stats'.total_usage = stats.total_usage + grown
                                 /\ history'.untracked = history.untracked + grown
<1>1. PICK grown \in Nat :
        /\ stats' = [stats EXCEPT !.total_usage = @ + grown]
        /\ history' = [history EXCEPT !.untracked = @ + grown]
  BY DumpHistory
<1>2. stats \in Counters /\ history \in Histories
  BY DEF TypeInv
<1> QED
  BY <1>1, <1>2 DEF Counters, Histories

LEMMA StutterFrame ==
    ASSUME UNCHANGED vars
    PROVE  /\ mem' = mem /\ live_objs' = live_objs /\ live_unsafe_objs' = live_unsafe_objs
           /\ mutex' = mutex /\ op' = op /\ history' = history /\ SKIP_TRACKING' = SKIP_TRACKING
           /\ pc' = pc /\ stats' = stats /\ report' = report
BY DEF vars, maps
-----------------------------------------------------------------------------
(* The blocks that a call is at work on, and those that are loose           *)

\* A call that has returned a block or is about to give it back; blocks of no such call.
Holds(t, b) == op[t].new = b \/ (op[t].call = "dealloc" /\ op[t].old = b)
Loose == {b \in DOMAIN mem : \A t \in Threads : ~ Holds(t, b)}

\* A call has its block in the memory, and no other call has the same one; what is
\* accessed is a loose block, or not on the heap.
Held(t) ==
    /\ op[t].call = "dealloc" => op[t].old \in DOMAIN mem
    /\ op[t].call \in {"alloc", "realloc"} =>
         op[t].new \in DOMAIN mem /\ mem[op[t].new] = op[t].size /\ op[t].growth < op[t].size
HeldInv == \A t \in Threads : Held(t)
\* No two calls are at work on one block.
AloneInv == \A t, u \in Threads : \A b \in DOMAIN mem : Holds(t, b) /\ Holds(u, b) => t = u
Reached(t) ==
    op[t].call = "access" =>
      op[t].addr \in NotHeap \/ \E b \in Loose : op[t].addr \in Bytes(b, mem[b])
ReachInv == \A t \in Threads : Reached(t)

\* The part of the invariant that is about calls and blocks.
BaseInv == TypeInv /\ CallInv /\ FlagInv /\ BlockInv /\ HeldInv /\ AloneInv /\ ReachInv

\* What each call is given: a block that is new, or one that nobody uses.
LEMMA AllocFacts ==
    ASSUME TypeInv, NEW t \in Threads, Alloc(t)
    PROVE  \E b \in Addrs, n \in Sizes :
             /\ op'[t].call = "alloc" /\ op'[t].old = None /\ op'[t].new = b
             /\ op'[t].size = n /\ op'[t].growth = 0 /\ op'[t].freed = {}
             /\ Free(b, n, None) /\ mem' = Put(mem, b, n)
             /\ pc[t] = "app" /\ pc'[t] = "classify"
<1>1. PICK b \in Addrs, n \in Sizes :
        /\ Moves(t, "app", "classify") /\ Asks(t, AllocRequest(b, n))
        /\ Free(b, n, None) /\ mem' = Put(mem, b, n)
  BY AllocEffect
<1>2. op'[t] = AllocRequest(b, n) /\ pc[t] = "app" /\ pc'[t] = "classify"
  BY <1>1 DEF Asks, Moves, TypeInv
<1>3. /\ op'[t].call = "alloc" /\ op'[t].old = None /\ op'[t].new = b
      /\ op'[t].size = n /\ op'[t].growth = 0 /\ op'[t].freed = {}
  BY <1>2 DEF AllocRequest
<1> QED
  BY <1>1, <1>2, <1>3

LEMMA DeallocFacts ==
    ASSUME TypeInv, NEW t \in Threads, Dealloc(t)
    PROVE  \E b \in DOMAIN mem :
             /\ op'[t].call = "dealloc" /\ op'[t].old = b /\ op'[t].new = None
             /\ op'[t].growth = 0 /\ op'[t].freed = {}
             /\ Users(b) = {} /\ mem' = mem /\ pc[t] = "app" /\ pc'[t] = "remove"
<1>1. PICK b \in DOMAIN mem :
        /\ Moves(t, "app", "remove") /\ Asks(t, DeallocRequest(b))
        /\ Users(b) = {} /\ mem' = mem
  BY DeallocEffect
<1>2. op'[t] = DeallocRequest(b) /\ pc[t] = "app" /\ pc'[t] = "remove"
  BY <1>1 DEF Asks, Moves, TypeInv
<1>3. /\ op'[t].call = "dealloc" /\ op'[t].old = b /\ op'[t].new = None
      /\ op'[t].growth = 0 /\ op'[t].freed = {}
  BY <1>2 DEF DeallocRequest
<1> QED
  BY <1>1, <1>2, <1>3

\* realloc of the block at b to n bytes at c.
Reallocated(t, b, c, n) ==
    /\ op'[t].call = "realloc" /\ op'[t].old = b /\ op'[t].new = c
    /\ op'[t].size = n /\ op'[t].growth = n - mem[b]
    /\ op'[t].freed = IF c = b THEN {} ELSE Bytes(b, mem[b])
    /\ Users(b) = {} /\ Free(c, n, b) /\ (c # b => ~ Overlap(b, mem[b], c, n))
    /\ mem' = Put(Drop(mem, b), c, n)
    /\ history' = [history EXCEPT !.reallocs = @ + 1,
                                  !.touched = IF c = b THEN @ ELSE @ \ {b}]
    /\ pc[t] = "app" /\ pc'[t] = IF c = b THEN "insert" ELSE "remove"

LEMMA ReallocFacts ==
    ASSUME TypeInv, NEW t \in Threads, Realloc(t)
    PROVE  \E b \in DOMAIN mem, c \in Addrs, n \in Sizes :
             Reallocated(t, b, c, n)
<1>1. PICK b \in DOMAIN mem, c \in Addrs, n \in Sizes :
        /\ Moves(t, "app", IF c = b THEN "insert" ELSE "remove")
        /\ Asks(t, ReallocRequest(b, c, n, IF c = b THEN {} ELSE Bytes(b, mem[b])))
        /\ Users(b) = {} /\ Free(c, n, b) /\ (c # b => ~ Overlap(b, mem[b], c, n))
        /\ mem' = Put(Drop(mem, b), c, n)
        /\ history' = [history EXCEPT !.reallocs = @ + 1,
                                      !.touched = IF c = b THEN @ ELSE @ \ {b}]
  BY ReallocEffect
<1>2. /\ op'[t] = ReallocRequest(b, c, n, IF c = b THEN {} ELSE Bytes(b, mem[b]))
      /\ pc[t] = "app" /\ pc'[t] = IF c = b THEN "insert" ELSE "remove"
  BY <1>1 DEF Asks, Moves, TypeInv
<1>3. /\ op'[t].call = "realloc" /\ op'[t].old = b /\ op'[t].new = c
      /\ op'[t].size = n /\ op'[t].growth = n - mem[b]
      /\ op'[t].freed = IF c = b THEN {} ELSE Bytes(b, mem[b])
  BY <1>2 DEF ReallocRequest
<1>4. Reallocated(t, b, c, n)
  BY <1>1, <1>2, <1>3, Zenon DEF Reallocated
<1> QED
  BY <1>4

\* The property LiveTracked is about the loose blocks.
LEMMA SettledLoose == ASSUME TypeInv, CallInv PROVE Settled = Loose
<1>1. ASSUME NEW b \in DOMAIN mem, NEW t \in Threads
      PROVE  t \in Changers(b) <=> Holds(t, b)
  <2>1. Called(t) /\ b # None
    BY AddrFacts DEF CallInv, TypeInv
  <2> QED
    BY <2>1 DEF Changers, Users, Holds, Called
<1>2. \A b \in DOMAIN mem : Changers(b) \subseteq Threads
  BY DEF Changers, Users
<1> QED
  BY <1>1, <1>2 DEF Settled, Loose

\* A block without users is loose.
LEMMA UnusedBlock ==
    ASSUME NEW b, Users(b) = {}
    PROVE  /\ \A t \in Threads : ~ Holds(t, b)
           /\ \A t \in Threads : op[t].call = "access" => op[t].addr \notin Bytes(b, mem[b])
BY DEF Users, Holds

\* A step takes up and lets go of blocks for its own thread only.
LEMMA HoldsAside ==
    ASSUME BaseInv, NEW t \in Threads, ThreadStep(t), NEW u \in Threads \ {t}
    PROVE  \A b : Holds(u, b)' <=> Holds(u, b)
BY AsideOthers DEF Holds, BaseInv

\* Which block the thread at work takes up or lets go.
LEMMA HoldsStep ==
    ASSUME BaseInv, NEW t \in Threads, ThreadStep(t)
    PROVE  /\ \A b \in Addrs : Holds(t, b)' =>
                \/ Holds(t, b)
                \/ Alloc(t) /\ op'[t].new = b
                \/ Dealloc(t) /\ op'[t].old = b
                \/ Realloc(t) /\ op'[t].new = b
           /\ \A b \in Addrs : Holds(t, b) =>
                \/ Holds(t, b)'
                \/ InsertObj(t) /\ b = op[t].new
                \/ SystemDealloc(t) /\ b = op[t].old
<1> USE DEF Moves, Asks, Holds
<1>0. /\ Called(t) /\ t \in DOMAIN pc /\ t \in DOMAIN op /\ op[t] \in Requests
      /\ None \notin Addrs
  BY AddrFacts DEF BaseInv, CallInv, TypeInv
<1>1. pc[t] = "app" => op[t].call = "none" /\ op[t].new = None
  BY <1>0 DEF Called, Idle, NoOp
<1>2. ASSUME Alloc(t) PROVE op'[t].call = "alloc"
  BY <1>0, <1>2, AllocEffect DEF AllocRequest
<1>3. ASSUME Dealloc(t) PROVE op'[t].new = None
  BY <1>0, <1>3, DeallocEffect DEF DeallocRequest
<1>4. ASSUME Realloc(t) PROVE op'[t].call = "realloc"
  BY <1>4, ReallocFacts DEF BaseInv, Reallocated
<1>5. ASSUME Access(t) PROVE op'[t].call = "access" /\ op'[t].new = None
  BY <1>0, <1>5, AccessEffect DEF AccessRequest
<1>6. ASSUME SystemDealloc(t) \/ InsertObj(t) \/ AccessSafe(t) \/ MarkUnsafe(t)
      PROVE  op'[t].call = "none" /\ op'[t].new = None
  BY <1>0, <1>6, SystemDeallocEffect, InsertObjEffect, AccessSafeEffect, MarkUnsafeEffect
     DEF NoOp, BaseInv
<1>7. ASSUME RemoveUnsafeObj(t)
      PROVE  \/ op' = op
             \/ op'[t].call = op[t].call /\ op[t].call # "dealloc" /\ op'[t].new = op[t].new
  BY <1>0, <1>7, RemoveUnsafeObjEffect
<1>8. ASSUME FindHeapObj(t)
      PROVE  op'[t].call = op[t].call /\ op'[t].old = op[t].old /\ op'[t].new = op[t].new
  BY <1>0, <1>8, FindHeapObjEffect DEF BaseInv, TypeInv
<1>9. CASE Alloc(t) \/ Dealloc(t) \/ Realloc(t) \/ Access(t)
  <2>1. pc[t] = "app"
    BY <1>9, AllocEffect, DeallocEffect, ReallocEffect, AccessEffect
  <2> QED
    BY <1>0, <1>1, <1>2, <1>3, <1>4, <1>5, <1>9, <2>1
<1>10. CASE SystemDealloc(t)
  <2>1. pc[t] = "free"
    BY <1>10, SystemDeallocEffect
  <2>2. op[t].call = "dealloc" /\ op[t].new = None
    BY <1>0, <2>1 DEF Called, Idle, Inserting, Removing, RemovingUnsafe, Searching, Found, Requests
  <2> QED
    BY <1>0, <1>6, <1>10, <2>2
<1>11. CASE InsertObj(t)
  <2>1. pc[t] = "inserting"
    BY <1>11, InsertObjEffect DEF BaseInv
  <2>2. op[t].call # "dealloc"
    BY <1>0, <2>1 DEF Called, Idle, Inserting, Removing, RemovingUnsafe, Searching, Found, Requests
  <2> QED
    BY <1>0, <1>6, <1>11, <2>2
<1>12. CASE AccessSafe(t) \/ MarkUnsafe(t)
  <2>1. pc[t] \in Found
    BY <1>12, AccessSafeEffect, MarkUnsafeEffect DEF Found
  <2>2. op[t].call # "dealloc" /\ op[t].new = None
    BY <1>0, <2>1 DEF Called, Idle, Inserting, Removing, RemovingUnsafe, Searching, Found, Requests
  <2> QED
    BY <1>0, <1>6, <1>12, <2>2
<1>13. CASE RemoveUnsafeObj(t)
  BY <1>7, <1>13
<1>14. CASE FindHeapObj(t)
  BY <1>8, <1>14
<1>15. CASE op' = op
  BY <1>15
<1>16. CASE \/ LockInsert(t) \/ LockRemove(t) \/ LockRemoveUnsafe(t) \/ LockFind(t)
            \/ LockMark(t) \/ RemoveObj(t) \/ AccessUnsafe(t) \/ ClassifyObj(t)
  BY <1>15, <1>16, LockInsertEffect, LockRemoveEffect, LockRemoveUnsafeEffect, LockFindEffect,
     LockMarkEffect, RemoveObjEffect, AccessUnsafeEffect, ClassifyObjEffect
<1> QED
  BY <1>9, <1>10, <1>11, <1>12, <1>13, <1>14, <1>16 DEF ThreadStep

\* Nobody holds what is not in the memory.
LEMMA HoldsBlock ==
    ASSUME BaseInv, NEW u \in Threads, NEW b \in Addrs, Holds(u, b)
    PROVE  b \in DOMAIN mem
<1>1. Called(u) /\ Held(u) /\ op[u] \in Requests /\ b # None
  BY AddrFacts DEF BaseInv, CallInv, HeldInv, TypeInv
<1>2. op[u].call = "none" => op[u].new = None
  BY <1>1 DEF Called, NoOp
<1> QED
  BY <1>1, <1>2 DEF Holds, Held, Called, Requests

\* How a step changes the memory.
LEMMA MemStep ==
    ASSUME BaseInv, NEW t \in Threads, ThreadStep(t)
    PROVE  /\ \A b \in DOMAIN mem :
                \/ b \in DOMAIN mem' /\ mem'[b] = mem[b]
                \/ Realloc(t) /\ b = op'[t].old
                \/ SystemDealloc(t) /\ b = op[t].old
           /\ \A b \in DOMAIN mem' :
                \/ b \in DOMAIN mem
                \/ (Alloc(t) \/ Realloc(t)) /\ b = op'[t].new
<1>1. CASE Alloc(t)
  <2>1. PICK b \in Addrs, n \in Sizes :
          Free(b, n, None) /\ mem' = Put(mem, b, n) /\ op'[t].new = b
    BY <1>1, AllocFacts DEF BaseInv
  <2>2. b \notin DOMAIN mem
    BY <2>1, FreeIsFresh, AddrFacts DEF BaseInv
  <2> QED
    BY <1>1, <2>1, <2>2 DEF Put
<1>2. CASE Realloc(t)
  <2>1. PICK b \in DOMAIN mem, c \in Addrs, n \in Sizes :
          /\ mem' = Put(Drop(mem, b), c, n) /\ op'[t].old = b /\ op'[t].new = c
          /\ Free(c, n, b)
    BY <1>2, ReallocFacts DEF BaseInv, Reallocated
  <2>2. c = b \/ c \notin DOMAIN mem
    BY <2>1, FreeIsFresh DEF BaseInv
  <2>3. /\ DOMAIN mem' = (DOMAIN mem \ {b}) \cup {c}
        /\ \A d \in DOMAIN mem \ {b} : d # c => mem'[d] = mem[d]
    BY <2>1 DEF Put, Drop, Restrict
  <2> QED
    BY <1>2, <2>1, <2>2, <2>3
<1>3. CASE SystemDealloc(t)
  <2>1. mem' = Drop(mem, op[t].old)
    BY <1>3, SystemDeallocEffect
  <2> QED
    BY <1>3, <2>1 DEF Drop, Restrict
<1>4. CASE mem' = mem
  BY <1>4
<1> QED
  BY <1>1, <1>2, <1>3, <1>4, MemFrame

\* What is taken up was in no call.
LEMMA TakenUp ==
    ASSUME BaseInv, NEW t \in Threads,
           NEW b \in Addrs,
           \/ Alloc(t) /\ op'[t].new = b
           \/ Dealloc(t) /\ op'[t].old = b
           \/ Realloc(t) /\ op'[t].new = b
           \/ Realloc(t) /\ op'[t].old = b
    PROVE  \A u \in Threads : ~ Holds(u, b)
<1>1. CASE Alloc(t) /\ op'[t].new = b
  <2>1. PICK c \in Addrs, n \in Sizes : Free(c, n, None) /\ op'[t].new = c
    BY <1>1, AllocFacts DEF BaseInv
  <2>2. b \notin DOMAIN mem
    BY <1>1, <2>1, FreeIsFresh, AddrFacts DEF BaseInv
  <2> QED
    BY <2>2, HoldsBlock
<1>2. CASE Dealloc(t) /\ op'[t].old = b
  <2>1. PICK c \in DOMAIN mem : Users(c) = {} /\ op'[t].old = c
    BY <1>2, DeallocFacts DEF BaseInv
  <2> QED
    BY <1>2, <2>1, UnusedBlock
<1>3. CASE Realloc(t) /\ (op'[t].new = b \/ op'[t].old = b)
  <2>1. PICK c \in DOMAIN mem, d \in Addrs, n \in Sizes :
          Users(c) = {} /\ op'[t].old = c /\ op'[t].new = d /\ Free(d, n, c)
    BY <1>3, ReallocFacts DEF BaseInv, Reallocated
  <2>2. d = c \/ d \notin DOMAIN mem
    BY <2>1, FreeIsFresh DEF BaseInv
  <2>3. \A u \in Threads : ~ Holds(u, c)
    BY <2>1, UnusedBlock
  <2> QED
    BY <1>3, <2>1, <2>2, <2>3, HoldsBlock
<1> QED
  BY <1>1, <1>2, <1>3

\* A call gets a block that no other call has.
LEMMA AloneStep ==
    ASSUME BaseInv, NEW t \in Threads, ThreadStep(t), DOMAIN mem' \subseteq Addrs
    PROVE  AloneInv'
<1> SUFFICES ASSUME NEW b \in DOMAIN mem', NEW u \in Threads, NEW v \in Threads,
                    Holds(u, b)', Holds(v, b)', u # v
             PROVE  FALSE
  BY DEF AloneInv
<1>1. b \in Addrs
  OBVIOUS
<1>2. ASSUME NEW w \in Threads, w # t, Holds(w, b)', Holds(t, b)'
      PROVE  FALSE
  <2>1. Holds(w, b)
    BY <1>2, HoldsAside
  <2>2. b \in DOMAIN mem
    BY <1>1, <2>1, HoldsBlock
  <2>3. ~ Holds(t, b)
    BY <1>2, <2>1, <2>2 DEF BaseInv, AloneInv
  <2>4. \A x \in Threads : ~ Holds(x, b)
    BY <1>1, <1>2, <2>3, HoldsStep, TakenUp
  <2> QED
    BY <2>1, <2>4
<1>3. CASE u # t /\ v # t
  <2>1. Holds(u, b) /\ Holds(v, b)
    BY <1>3, HoldsAside
  <2>2. b \in DOMAIN mem
    BY <1>1, <2>1, HoldsBlock
  <2> QED
    BY <2>1, <2>2 DEF BaseInv, AloneInv
<1> QED
  BY <1>2, <1>3

\* The block of a call stays in the memory as long as the call has it.
LEMMA HeldStep ==
    ASSUME BaseInv, NEW t \in Threads, ThreadStep(t)
    PROVE  HeldInv'
<1>0. /\ Called(t) /\ Held(t) /\ op[t] \in Requests /\ DOMAIN mem \subseteq Addrs
      /\ mem \in [DOMAIN mem -> Sizes]
  BY DEF BaseInv, CallInv, HeldInv, TypeInv
<1>1. ASSUME NEW u \in Threads \ {t}
      PROVE  Held(u)'
  <2>1. Held(u) /\ op'[u] = op[u]
    BY AsideOthers DEF BaseInv, HeldInv
  <2>2. ASSUME NEW b \in DOMAIN mem, Holds(u, b)
        PROVE  b \in DOMAIN mem' /\ mem'[b] = mem[b]
    <3>1. ~ (Realloc(t) /\ b = op'[t].old)
      BY <1>0, <2>2, TakenUp
    <3>2. ~ (SystemDealloc(t) /\ b = op[t].old)
      <4>1. SUFFICES ASSUME SystemDealloc(t), b = op[t].old
                     PROVE  FALSE
        OBVIOUS
      <4>2. pc[t] = "free"
        BY <4>1, SystemDeallocEffect DEF Moves
      <4>3. op[t].call = "dealloc"
        BY <1>0, <4>2 DEF Called, Idle, Inserting, Removing, RemovingUnsafe, Searching, Found,
           Requests
      <4>4. Holds(t, b)
        BY <4>1, <4>3 DEF Holds
      <4> QED
        BY <2>2, <4>4 DEF BaseInv, AloneInv
    <3> QED
      BY <3>1, <3>2, MemStep
  <2>3. op[u].call = "dealloc" => Holds(u, op[u].old)
    BY DEF Holds
  <2>4. Holds(u, op[u].new)
    BY DEF Holds
  <2> QED
    BY <2>1, <2>2, <2>3, <2>4 DEF Held
<1>2. Held(t)'
  <2>1. CASE Alloc(t)
    <3>1. PICK b \in Addrs, n \in Sizes :
            /\ op'[t].call = "alloc" /\ op'[t].new = b /\ op'[t].size = n /\ op'[t].growth = 0
            /\ mem' = Put(mem, b, n)
      BY <2>1, AllocFacts DEF BaseInv
    <3>2. b \in DOMAIN mem' /\ mem'[b] = n /\ 0 < n
      BY <3>1 DEF Put, Sizes
    <3> QED
      BY <3>1, <3>2 DEF Held
  <2>2. CASE Dealloc(t)
    BY <2>2, DeallocFacts DEF BaseInv, Held
  <2>3. CASE Realloc(t)
    <3>1. PICK b \in DOMAIN mem, c \in Addrs, n \in Sizes :
            Reallocated(t, b, c, n)
      BY <2>3, ReallocFacts DEF BaseInv
    <3>2. c \in DOMAIN mem' /\ mem'[c] = n
      BY <3>1 DEF Put, Reallocated
    <3>3. mem[b] \in Sizes
      BY <1>0
    <3>4. n - mem[b] < n
      BY <3>3, BoundsFacts DEF Sizes
    <3> QED
      BY <3>1, <3>2, <3>4 DEF Held, Reallocated
  <2>4. CASE SystemDealloc(t) \/ InsertObj(t) \/ AccessSafe(t) \/ MarkUnsafe(t)
    <3>1. op'[t] = NoOp
      BY <2>4, SystemDeallocEffect, InsertObjEffect, AccessSafeEffect, MarkUnsafeEffect
         DEF BaseInv, TypeInv, Asks
    <3> QED
      BY <3>1 DEF NoOp, Held
  <2>5. CASE RemoveUnsafeObj(t)
    <3>1. /\ mem' = mem
          /\ \/ op' = op
             \/ /\ op'[t].call = op[t].call /\ op[t].call # "dealloc" /\ op'[t].new = op[t].new
                /\ op'[t].size = op[t].size /\ op'[t].growth = op[t].growth
      BY <1>0, <2>5, RemoveUnsafeObjEffect DEF Asks, BaseInv, TypeInv
    <3> QED
      BY <1>0, <3>1 DEF Held
  <2>6. CASE Access(t)
    <3>1. PICK a : op'[t] = AccessRequest(a)
      BY <2>6, AccessEffect DEF BaseInv, TypeInv, Asks
    <3> QED
      BY <3>1 DEF AccessRequest, Held
  <2>7. CASE FindHeapObj(t)
    <3>1. pc[t] = "finding" /\ op'[t].call = op[t].call
      BY <2>7, FindHeapObjEffect DEF BaseInv, TypeInv, Moves
    <3>2. op[t].call = "access"
      BY <1>0, <3>1 DEF Called, Idle, Inserting, Removing, RemovingUnsafe, Searching, Found,
         Requests
    <3> QED
      BY <3>1, <3>2 DEF Held
  <2>8. CASE op' = op /\ mem' = mem
    BY <1>0, <2>8 DEF Held
  <2>9. CASE \/ LockInsert(t) \/ LockRemove(t) \/ LockRemoveUnsafe(t) \/ LockFind(t)
             \/ LockMark(t) \/ RemoveObj(t) \/ AccessUnsafe(t) \/ ClassifyObj(t)
    BY <2>8, <2>9, LockInsertEffect, LockRemoveEffect, LockRemoveUnsafeEffect, LockFindEffect,
       LockMarkEffect, RemoveObjEffect, AccessUnsafeEffect, ClassifyObjEffect
  <2> QED
    BY <2>1, <2>2, <2>3, <2>4, <2>5, <2>6, <2>7, <2>9 DEF ThreadStep
<1> QED
  BY <1>1, <1>2 DEF HeldInv

\* What a call takes was not in use, and what it gives back is gone.
LEMMA FreshStep ==
    ASSUME BaseInv, NEW t \in Threads
    PROVE  /\ Alloc(t) => op'[t].new \in Addrs \ DOMAIN mem
           /\ Dealloc(t) \/ Realloc(t) =>
                op'[t].old \in DOMAIN mem /\ Users(op'[t].old) = {}
           /\ Realloc(t) =>
                \/ op'[t].new = op'[t].old
                \/ op'[t].new \in Addrs \ DOMAIN mem /\ op'[t].old \notin DOMAIN mem'
           /\ SystemDealloc(t) => op[t].old \notin DOMAIN mem' /\ Holds(t, op[t].old)
<1>1. ASSUME Alloc(t) PROVE op'[t].new \in Addrs \ DOMAIN mem
  <2>1. PICK b \in Addrs, n \in Sizes : Free(b, n, None) /\ op'[t].new = b
    BY <1>1, AllocFacts DEF BaseInv
  <2> QED
    BY <2>1, FreeIsFresh, AddrFacts DEF BaseInv
<1>2. ASSUME Dealloc(t) PROVE op'[t].old \in DOMAIN mem /\ Users(op'[t].old) = {}
  BY <1>2, DeallocFacts DEF BaseInv
<1>3. ASSUME Realloc(t)
      PROVE  /\ op'[t].old \in DOMAIN mem /\ Users(op'[t].old) = {}
             /\ \/ op'[t].new = op'[t].old
                \/ op'[t].new \in Addrs \ DOMAIN mem /\ op'[t].old \notin DOMAIN mem'
  <2>1. PICK b \in DOMAIN mem, c \in Addrs, n \in Sizes : Reallocated(t, b, c, n)
    BY <1>3, ReallocFacts DEF BaseInv
  <2>2. b # c => c \notin DOMAIN mem
    BY <2>1, FreeIsFresh DEF BaseInv, Reallocated
  <2>3. b # c => b \notin DOMAIN mem'
    BY <2>1 DEF Reallocated, Put, Drop, Restrict
  <2> QED
    BY <2>1, <2>2, <2>3 DEF Reallocated
<1>4. ASSUME SystemDealloc(t) PROVE op[t].old \notin DOMAIN mem' /\ Holds(t, op[t].old)
  <2>1. pc[t] = "free" /\ op[t].old \notin DOMAIN mem'
    BY <1>4, SystemDeallocEffect DEF Moves, Drop, Restrict
  <2>2. Called(t) /\ op[t] \in Requests
    BY DEF BaseInv, CallInv, TypeInv
  <2>3. op[t].call = "dealloc"
    BY <2>1, <2>2 DEF Called, Idle, Inserting, Removing, RemovingUnsafe, Searching, Found, Requests
  <2> QED
    BY <2>1, <2>3 DEF Holds
<1> QED
  BY <1>1, <1>2, <1>3, <1>4

\* A block becomes loose when its insertion is done, and stays so until it is
\* freed or moved.
LEMMA LooseStep ==
    ASSUME BaseInv, NEW t \in Threads, ThreadStep(t), DOMAIN mem' \subseteq Addrs
    PROVE  /\ \A b \in Loose' :
                /\ b \in Loose \/ (InsertObj(t) /\ b = op[t].new)
                /\ b \in DOMAIN mem /\ mem'[b] = mem[b]
           /\ \A b \in Loose :
                \/ b \in Loose'
                \/ (Dealloc(t) \/ Realloc(t)) /\ Users(b) = {} /\ op'[t].old = b
<1>0. DOMAIN mem \subseteq Addrs
  BY DEF BaseInv, TypeInv
<1>1. ASSUME NEW b \in Loose'
      PROVE  /\ b \in Loose \/ (InsertObj(t) /\ b = op[t].new)
             /\ b \in DOMAIN mem /\ mem'[b] = mem[b]
  <2>1. b \in DOMAIN mem' /\ \A u \in Threads : ~ Holds(u, b)'
    BY <1>1 DEF Loose
  <2>2. op'[t].new # b
    BY <2>1 DEF Holds
  <2>3. b \in DOMAIN mem
    BY <2>1, <2>2, MemStep
  <2>4. mem'[b] = mem[b]
    BY <2>1, <2>2, <2>3, MemStep, FreshStep
  <2>5. \A u \in Threads \ {t} : ~ Holds(u, b)
    BY <2>1, HoldsAside
  <2>6. ~ Holds(t, b) \/ (InsertObj(t) /\ b = op[t].new)
    <3>1. Holds(t, b) =>
            \/ Holds(t, b)'
            \/ InsertObj(t) /\ b = op[t].new
            \/ SystemDealloc(t) /\ b = op[t].old
      BY <1>0, <2>3, HoldsStep
    <3>2. ~ (SystemDealloc(t) /\ b = op[t].old)
      BY <2>1, FreshStep
    <3> QED
      BY <2>1, <3>1, <3>2
  <2>7. b \in Loose \/ (InsertObj(t) /\ b = op[t].new)
    BY <2>3, <2>5, <2>6 DEF Loose
  <2> QED
    BY <2>3, <2>4, <2>7
<1>2. ASSUME NEW b \in Loose
      PROVE  \/ b \in Loose'
             \/ (Dealloc(t) \/ Realloc(t)) /\ Users(b) = {} /\ op'[t].old = b
  <2>1. SUFFICES ASSUME ~ ((Dealloc(t) \/ Realloc(t)) /\ op'[t].old = b)
                 PROVE  b \in Loose'
    BY FreshStep
  <2>2. b \in DOMAIN mem /\ \A u \in Threads : ~ Holds(u, b)
    BY <1>2 DEF Loose
  <2>3. b \in DOMAIN mem'
    BY <2>1, <2>2, MemStep, FreshStep
  <2>4. \A u \in Threads \ {t} : ~ Holds(u, b)'
    BY <2>2, HoldsAside
  <2>5. ~ Holds(t, b)'
    BY <1>0, <2>1, <2>2, HoldsStep, FreshStep
  <2> QED
    BY <2>3, <2>4, <2>5 DEF Loose
<1> QED
  BY <1>1, <1>2

\* Who accesses after a step did so before, or has just begun.
LEMMA AccessingStep ==
    ASSUME BaseInv, NEW t \in Threads, ThreadStep(t), NEW u \in Threads, op'[u].call = "access"
    PROVE  \/ op[u].call = "access" /\ op'[u].addr = op[u].addr
           \/ u = t /\ Access(t) /\ op'[u].addr \in Accessible
<1>0. /\ Called(t) /\ t \in DOMAIN pc /\ t \in DOMAIN op /\ op[t] \in Requests
  BY DEF BaseInv, CallInv, TypeInv
<1>1. CASE u # t
  BY <1>1, AsideOthers DEF BaseInv
<1>2. ASSUME u = t PROVE ~ Alloc(t) /\ ~ Dealloc(t) /\ ~ Realloc(t)
  <2>1. Alloc(t) => op'[t].call = "alloc"
    BY AllocFacts DEF BaseInv
  <2>2. Dealloc(t) => op'[t].call = "dealloc"
    BY DeallocFacts DEF BaseInv
  <2>3. Realloc(t) => op'[t].call = "realloc"
    BY ReallocFacts DEF BaseInv, Reallocated
  <2> QED
    BY <1>2, <2>1, <2>2, <2>3
<1>3. ASSUME u = t PROVE ~ SystemDealloc(t) /\ ~ InsertObj(t) /\ ~ AccessSafe(t) /\ ~ MarkUnsafe(t)
  BY <1>0, <1>3, SystemDeallocEffect, InsertObjEffect, AccessSafeEffect, MarkUnsafeEffect
     DEF NoOp, BaseInv, Asks
<1>4. CASE u = t /\ RemoveUnsafeObj(t)
  <2>1. pc[t] = "removing unsafe" /\ op'[t].call = op[t].call
    BY <1>0, <1>4, RemoveUnsafeObjEffect DEF Moves, Asks
  <2>2. op[t].call # "access"
    BY <1>0, <2>1 DEF Called, Searching, Found
  <2> QED
    BY <1>4, <2>1, <2>2
<1>5. CASE u = t /\ FindHeapObj(t)
  BY <1>5, FindHeapObjEffect DEF BaseInv, TypeInv
<1>6. CASE u = t /\ Access(t)
  <2>1. PICK a \in Accessible : op'[t] = AccessRequest(a)
    BY <1>0, <1>6, AccessEffect DEF Asks
  <2> QED
    BY <1>6, <2>1 DEF AccessRequest
<1>7. CASE u = t /\ op' = op
  BY <1>7
<1>8. CASE \/ LockInsert(t) \/ LockRemove(t) \/ LockRemoveUnsafe(t) \/ LockFind(t)
           \/ LockMark(t) \/ RemoveObj(t) \/ AccessUnsafe(t) \/ ClassifyObj(t)
  BY <1>1, <1>7, <1>8, LockInsertEffect, LockRemoveEffect, LockRemoveUnsafeEffect, LockFindEffect,
     LockMarkEffect, RemoveObjEffect, AccessUnsafeEffect, ClassifyObjEffect
<1> QED
  BY <1>1, <1>2, <1>3, <1>4, <1>5, <1>6, <1>8 DEF ThreadStep

\* What is accessed stays where it is until the access has ended.
LEMMA ReachStep ==
    ASSUME BaseInv, NEW t \in Threads, ThreadStep(t), DOMAIN mem' \subseteq Addrs
    PROVE  ReachInv'
<1> SUFFICES ASSUME NEW u \in Threads, op'[u].call = "access", op'[u].addr \notin NotHeap
             PROVE  \E b \in Loose' : op'[u].addr \in Bytes(b, mem'[b])
  BY DEF ReachInv, Reached
<1>1. CASE op[u].call = "access" /\ op'[u].addr = op[u].addr
  <2>1. PICK b \in Loose : op[u].addr \in Bytes(b, mem[b])
    BY <1>1 DEF BaseInv, ReachInv, Reached
  <2>2. Users(b) # {}
    BY <1>1, <2>1, UnusedBlock
  <2>3. b \in Loose' /\ mem'[b] = mem[b]
    BY <2>2, LooseStep
  <2> QED
    BY <1>1, <2>1, <2>3
<1>2. CASE u = t /\ Access(t) /\ op'[u].addr \in Accessible
  <2>1. PICK b \in Loose : op'[u].addr \in Bytes(b, mem[b])
    <3>1. PICK b \in {c \in DOMAIN mem : Changers(c) = {}} : op'[u].addr \in Bytes(b, mem[b])
      BY <1>2 DEF Accessible
    <3>2. b \in Loose
      BY <3>1, SettledLoose DEF Settled, BaseInv
    <3> QED
      BY <3>1, <3>2
  <2>2. ~ Dealloc(t) /\ ~ Realloc(t)
    BY <1>2, DeallocFacts, ReallocFacts DEF BaseInv, Reallocated
  <2>3. b \in Loose' /\ mem'[b] = mem[b]
    BY <2>2, LooseStep
  <2> QED
    BY <2>1, <2>3
<1> QED
  BY <1>1, <1>2, AccessingStep
-----------------------------------------------------------------------------
(* Classes and lookups                                                      *)

\* Classes and sizes are finitely many natural numbers.
LEMMA ClassesFacts == IsFiniteSet(Classes) /\ Classes \subseteq Nat /\ OBJ_SIZE_NUM - 1 \in Classes
<1>1. IsFiniteSet(Classes)
  BY BoundsFacts, FS_Interval DEF Classes
<1> QED
  BY <1>1, BoundsFacts DEF Classes

LEMMA SizesFacts == IsFiniteSet(Sizes) /\ Sizes \subseteq Nat \ {0}
<1>1. IsFiniteSet(Sizes)
  BY BoundsFacts, FS_Interval DEF Sizes
<1> QED
  BY <1>1, BoundsFacts DEF Sizes

\* The class of a size is the first one that it fits in, or the last.
LEMMA ClassFacts ==
    ASSUME NEW n \in Nat
    PROVE  /\ Class(n) \in Classes
           /\ Class(n) = OBJ_SIZE_NUM - 1 \/ n <= 2^Class(n)
           /\ \A c \in Classes : c < Class(n) => ~ (n <= 2^c)
<1> DEFINE S == {c \in Classes : c = OBJ_SIZE_NUM - 1 \/ n <= 2^c}
<1>1. IsFiniteSet(S)
  BY ClassesFacts, FS_Subset
<1>2. S \in SUBSET Int /\ S # {}
  <2>1. OBJ_SIZE_NUM - 1 \in S
    BY ClassesFacts, Zenon
  <2>2. Classes \in SUBSET Int
    BY ClassesFacts
  <2>3. S \in SUBSET Int
    BY <2>2, Zenon
  <2> QED
    BY <2>1, <2>3
<1>3. Class(n) = Min(S)
  BY DEF Class
<1> HIDE DEF S
<1>4. Min(S) \in S /\ \A c \in S : Min(S) <= c
  BY <1>1, <1>2, Extremes
<1>5. ASSUME NEW c \in Classes, c < Min(S), n <= 2^c
      PROVE  FALSE
  <2>1. c \in S
    BY <1>5 DEF S
  <2>2. Min(S) <= c
    BY <1>4, <2>1
  <2>3. c \in Int /\ Min(S) \in Int
    <3>1. c \in Int
      BY ClassesFacts
    <3>2. Min(S) \in Int
      BY <1>2, <1>4, Zenon
    <3> QED
      BY <3>1, <3>2
  <2> QED
    BY <1>5, <2>2, <2>3
<1> QED
  BY <1>3, <1>4, <1>5 DEF S

\* A histogram stays one.
LEMMA ClassifiedType ==
    ASSUME NEW h \in [Classes -> Nat], NEW n \in Nat
    PROVE  Classified(h, n) \in [Classes -> Nat]
BY ClassFacts DEF Classified

\* A lookup yields an entry that the address is in; it yields the only such entry.
LEMMA LookupFacts ==
    ASSUME NEW a \in Addrs, live_objs \in [DOMAIN live_objs -> Sizes], DOMAIN live_objs \subseteq Addrs
    PROVE  /\ \/ Lookup(a) = None
              \/ Lookup(a) \in DOMAIN live_objs /\ a \in Bytes(Lookup(a), live_objs[Lookup(a)])
           /\ \A b \in DOMAIN live_objs :
                a \in Bytes(b, live_objs[b])
                  /\ (\A c \in DOMAIN live_objs : c \in Bytes(b, live_objs[b]) => c = b)
                => Lookup(a) = b
<1> DEFINE below == {b \in DOMAIN live_objs : b <= a}
           top == Max(below)
<1>1. Lookup(a) = IF below # {} /\ a < top + live_objs[top] + 0 THEN top ELSE None
  BY DEF Lookup, LookupWithin
<1>2. IsFiniteSet(below)
  BY AddrFacts, FS_Subset
<1>3. below \in SUBSET Int /\ a \in Int
  BY AddrFacts
<1>4. ASSUME below # {}
      PROVE  /\ top \in below /\ \A b \in below : b <= top
             /\ top \in Int /\ live_objs[top] \in Int /\ top <= a /\ top \in DOMAIN live_objs
  <2> HIDE DEF below
  <2>1. top \in below /\ \A b \in below : b <= top
    BY <1>2, <1>3, <1>4, Extremes
  <2>2. top \in Int /\ top <= a /\ top \in DOMAIN live_objs
    BY <1>3, <2>1 DEF below
  <2>3. live_objs[top] \in Sizes
    BY <2>2
  <2>4. live_objs[top] \in Int
    BY <2>3, SizesFacts
  <2> QED
    BY <2>1, <2>2, <2>4
<1> HIDE DEF top
<1>5. Lookup(a) = None \/ (Lookup(a) \in DOMAIN live_objs /\ a \in Bytes(Lookup(a), live_objs[Lookup(a)]))
  <2>1. SUFFICES ASSUME below # {} /\ a < top + live_objs[top] + 0
                 PROVE  top \in DOMAIN live_objs /\ a \in Bytes(top, live_objs[top])
    BY <1>1
  <2> HIDE DEF below
  <2> QED
    BY <1>3, <1>4, <2>1, BytesFacts
<1>6. ASSUME NEW b \in DOMAIN live_objs, a \in Bytes(b, live_objs[b]),
             \A c \in DOMAIN live_objs : c \in Bytes(b, live_objs[b]) => c = b
      PROVE  Lookup(a) = b
  <2>1. live_objs[b] \in Int /\ b \in Int
    BY SizesFacts, AddrFacts
  <2>2. b <= a /\ a < b + live_objs[b]
    BY <1>3, <1>6, <2>1, BytesFacts
  <2>3. b \in below
    BY <2>2
  <2>4. top \in Int /\ b <= top /\ top <= a /\ top \in DOMAIN live_objs
    <3> HIDE DEF below
    <3> QED
      BY <1>4, <2>3
  <2>5. top \in Bytes(b, live_objs[b])
    BY <1>3, <2>1, <2>2, <2>4, BytesFacts
  <2>6. top = b
    BY <1>6, <2>4, <2>5
  <2> QED
    BY <1>1, <2>1, <2>2, <2>3, <2>6
<1> QED
  BY <1>5, <1>6
-----------------------------------------------------------------------------
(* The counters after a step                                                *)

\* From here to MarkCounts: the counters after each of the actions that change them.
LEMMA AllocCounts ==
    ASSUME TypeInv, NEW t \in Threads, Alloc(t)
    PROVE  /\ stats' \in Counters
           /\ stats'.total_usage = stats.total_usage + op'[t].size
           /\ stats'.total_alloc = stats.total_alloc + 1
           /\ stats'.total_realloc = stats.total_realloc
           /\ stats'.total_dealloc = stats.total_dealloc
           /\ stats'.size_histogram = stats.size_histogram
           /\ stats'.total_unsafe_objs = stats.total_unsafe_objs
           /\ stats'.unsafe_mem = stats.unsafe_mem
           /\ stats'.unsafe_size_histogram = stats.unsafe_size_histogram
<1>1. PICK b \in Addrs, n \in Sizes :
        /\ Request(t, [NoOp EXCEPT !.call = "alloc", !.new = b, !.size = n])
        /\ stats' = [stats EXCEPT !.total_usage = @ + n, !.total_alloc = @ + 1]
  BY Zenon DEF Alloc
<1>2. op'[t].size = n
  BY <1>1, AllocRecord DEF Request, AllocRequest, TypeInv
<1> DEFINE usage == stats.total_usage + n
           allocs == stats.total_alloc + 1
<1>3. stats \in Counters /\ n \in Nat
  BY SizesFacts DEF TypeInv
<1>4. usage \in Int /\ allocs \in Nat
  BY <1>3 DEF Counters
<1>5. stats' = [stats EXCEPT !.total_usage = usage, !.total_alloc = allocs]
  BY <1>1, Zenon
<1>6. usage = stats.total_usage + n /\ allocs = stats.total_alloc + 1
  OBVIOUS
<1> HIDE DEF usage, allocs
<1> QED
  BY <1>2, <1>3, <1>4, <1>5, <1>6, Zenon DEF Counters

LEMMA ClassifyCounts ==
    ASSUME TypeInv, NEW t \in Threads, ClassifyObj(t)
    PROVE  /\ stats' \in Counters
           /\ stats'.size_histogram = Classified(stats.size_histogram, op[t].size)
           /\ stats'.total_usage = stats.total_usage
           /\ stats'.total_alloc = stats.total_alloc
           /\ stats'.total_realloc = stats.total_realloc
           /\ stats'.total_dealloc = stats.total_dealloc
           /\ stats'.total_unsafe_objs = stats.total_unsafe_objs
           /\ stats'.unsafe_mem = stats.unsafe_mem
           /\ stats'.unsafe_size_histogram = stats.unsafe_size_histogram
           /\ history' = [history EXCEPT !.classified = @ + 1]
<1> DEFINE histogram == Classified(stats.size_histogram, op[t].size)
<1>1. /\ stats' = [stats EXCEPT !.size_histogram = histogram]
      /\ history' = [history EXCEPT !.classified = @ + 1]
  BY Zenon DEF ClassifyObj, Classify
<1>2. stats \in Counters /\ stats.size_histogram \in [Classes -> Nat] /\ op[t].size \in Nat
  BY DEF TypeInv, Counters, Requests
<1>3. histogram \in [Classes -> Nat]
  BY <1>2, ClassifiedType
<1>4. histogram = Classified(stats.size_histogram, op[t].size)
  OBVIOUS
<1> HIDE DEF histogram
<1> QED
  BY <1>1, <1>2, <1>3, <1>4, Zenon DEF Counters

LEMMA DeallocCounts ==
    ASSUME TypeInv, NEW t \in Threads, Dealloc(t)
    PROVE  /\ stats' \in Counters
           /\ stats'.total_dealloc = stats.total_dealloc + 1
           /\ stats'.total_usage = stats.total_usage
           /\ stats'.total_alloc = stats.total_alloc
           /\ stats'.total_realloc = stats.total_realloc
           /\ stats'.size_histogram = stats.size_histogram
           /\ stats'.total_unsafe_objs = stats.total_unsafe_objs
           /\ stats'.unsafe_mem = stats.unsafe_mem
           /\ stats'.unsafe_size_histogram = stats.unsafe_size_histogram
BY DEF Dealloc, TypeInv, Counters

LEMMA InsertCounts ==
    ASSUME TypeInv, NEW t \in Threads, InsertObj(t)
    PROVE  /\ stats' \in Counters
           /\ stats'.total_usage = stats.total_usage + op[t].growth
           /\ stats'.total_alloc = stats.total_alloc
           /\ stats'.total_realloc = stats.total_realloc
           /\ stats'.total_dealloc = stats.total_dealloc
           /\ stats'.size_histogram = stats.size_histogram
           /\ stats'.total_unsafe_objs = stats.total_unsafe_objs
           /\ stats'.unsafe_mem = stats.unsafe_mem
           /\ stats'.unsafe_size_histogram = stats.unsafe_size_histogram
<1>1. op[t].growth \in Int
  BY DEF TypeInv, Requests
<1>2. stats' = [stats EXCEPT !.total_usage = @ + op[t].growth]
  BY InsertObjEffect
<1> QED
  BY <1>1, <1>2 DEF TypeInv, Counters

LEMMA RemoveUnsafeCounts ==
    ASSUME TypeInv, NEW t \in Threads, RemoveUnsafeObj(t)
    PROVE  IF op[t].call = "dealloc" THEN stats' = stats
           ELSE /\ stats' \in Counters
                /\ stats'.total_realloc = stats.total_realloc + 1
                /\ stats'.size_histogram = stats.size_histogram
                /\ stats'.total_usage = stats.total_usage
                /\ stats'.total_alloc = stats.total_alloc
                /\ stats'.total_dealloc = stats.total_dealloc
                /\ stats'.total_unsafe_objs = stats.total_unsafe_objs
                /\ stats'.unsafe_mem = stats.unsafe_mem
                /\ stats'.unsafe_size_histogram = stats.unsafe_size_histogram
<1>1. op[t].call = "dealloc" => stats' = stats
  BY Zenon DEF RemoveUnsafeObj
<1>2. op[t].call # "dealloc" => stats' = [stats EXCEPT !.total_realloc = @ + 1]
  BY Zenon DEF RemoveUnsafeObj
<1>3. stats \in Counters
  BY DEF TypeInv
<1> QED
  BY <1>1, <1>2, <1>3 DEF Counters

LEMMA MarkCounts ==
    ASSUME TypeInv, NEW t \in Threads, MarkUnsafe(t)
    PROVE  IF op[t].found \in live_unsafe_objs THEN stats' = stats
           ELSE /\ stats' \in Counters
                /\ stats'.unsafe_mem = stats.unsafe_mem + op[t].size
                /\ stats'.total_unsafe_objs = stats.total_unsafe_objs + 1
                /\ stats'.unsafe_size_histogram
                     = Classified(stats.unsafe_size_histogram, op[t].size)
                /\ stats'.total_usage = stats.total_usage
                /\ stats'.total_alloc = stats.total_alloc
                /\ stats'.total_realloc = stats.total_realloc
                /\ stats'.total_dealloc = stats.total_dealloc
                /\ stats'.size_histogram = stats.size_histogram
<1>1. op[t].found \in live_unsafe_objs => stats' = stats
  BY Zenon DEF MarkUnsafe
<1>2. SUFFICES ASSUME op[t].found \notin live_unsafe_objs
               PROVE  /\ stats' \in Counters
                      /\ stats'.unsafe_mem = stats.unsafe_mem + op[t].size
                      /\ stats'.total_unsafe_objs = stats.total_unsafe_objs + 1
                      /\ stats'.unsafe_size_histogram
                           = Classified(stats.unsafe_size_histogram, op[t].size)
                      /\ stats'.total_usage = stats.total_usage
                      /\ stats'.total_alloc = stats.total_alloc
                      /\ stats'.total_realloc = stats.total_realloc
                      /\ stats'.total_dealloc = stats.total_dealloc
                      /\ stats'.size_histogram = stats.size_histogram
  BY <1>1
<1> DEFINE histogram == Classified(stats.unsafe_size_histogram, op[t].size)
           objs == stats.total_unsafe_objs + 1
           bytes == stats.unsafe_mem + op[t].size
<1>3. stats' = [stats EXCEPT !.unsafe_mem = bytes, !.total_unsafe_objs = objs,
                             !.unsafe_size_histogram = histogram]
  BY <1>2, Zenon DEF MarkUnsafe
<1>4. /\ stats \in Counters /\ stats.total_unsafe_objs \in Nat /\ stats.unsafe_mem \in Nat
      /\ stats.unsafe_size_histogram \in [Classes -> Nat] /\ op[t].size \in Nat
  BY DEF TypeInv, Counters, Requests
<1>5. histogram \in [Classes -> Nat]
  BY <1>4, ClassifiedType
<1>6. objs \in Nat /\ bytes \in Nat
  BY <1>4
<1>7. /\ objs = stats.total_unsafe_objs + 1 /\ bytes = stats.unsafe_mem + op[t].size
      /\ histogram = Classified(stats.unsafe_size_histogram, op[t].size)
  OBVIOUS
<1> HIDE DEF histogram, objs, bytes
<1> QED
  BY <1>3, <1>4, <1>5, <1>6, <1>7, Zenon DEF Counters
-----------------------------------------------------------------------------
(* What has been found, and the types                                       *)

\* The maps hold nothing of the stacks, so what is found is an object.
EntryInv == \A b \in DOMAIN live_objs : Bytes(b, live_objs[b]) \cap NotHeap = {}
\* What unsafe code marks has been found, and is not on a stack.
Finding(t) ==
    /\ pc[t] \in {"mark", "marking"} => op[t].found # None
    /\ pc[t] \in Found /\ op[t].found # None => op[t].addr \notin NotHeap
FindingInv == \A t \in Threads : Finding(t)
\* Objects that unsafe code has accessed are live.
TouchedInv == history.touched \subseteq DOMAIN mem

\* The inductive invariant that holds whatever the system allocator hands out.
CoreInv == BaseInv /\ EntryInv /\ FindingInv /\ TouchedInv

\* What a lookup records.
LEMMA FindFacts ==
    ASSUME BaseInv, NEW t \in Threads, FindHeapObj(t)
    PROVE  /\ op[t].call = "access" /\ op[t].addr \in Addrs /\ op'[t].addr = op[t].addr
           /\ op'[t].found = Lookup(op[t].addr)
           /\ IF op'[t].found = None THEN op'[t].size = 0
              ELSE /\ op'[t].found \in DOMAIN live_objs
                   /\ op[t].addr \in Bytes(op'[t].found, live_objs[op'[t].found])
                   /\ op'[t].size = live_objs[op'[t].found]
           /\ op'[t] \in Requests /\ pc[t] = "finding" /\ pc'[t] = "found"
<1>1. /\ Called(t) /\ op \in [Threads -> Requests] /\ op[t] \in Requests /\ t \in DOMAIN pc
      /\ live_objs \in [DOMAIN live_objs -> Sizes] /\ DOMAIN live_objs \subseteq Addrs
  BY DEF BaseInv, CallInv, TypeInv
<1>2. /\ pc[t] = "finding" /\ pc'[t] = "found"
      /\ op'[t].found = Lookup(op[t].addr) /\ op'[t].addr = op[t].addr
      /\ op'[t].size = IF op'[t].found = None THEN 0 ELSE live_objs[op'[t].found]
      /\ op'[t].found \in Addrs \cup {None} /\ op'[t].size \in Nat => op'[t] \in Requests
  BY <1>1, FindHeapObjEffect DEF Moves
<1>3. op[t].call = "access"
  BY <1>1, <1>2 DEF Called, Idle, Inserting, Removing, RemovingUnsafe, Searching, Found, Requests
<1>4. op[t].addr \in Addrs
  BY <1>1, <1>3 DEF Called
<1>5. \/ op'[t].found = None
      \/ /\ op'[t].found \in DOMAIN live_objs
         /\ op[t].addr \in Bytes(op'[t].found, live_objs[op'[t].found])
  BY <1>1, <1>2, <1>4, LookupFacts
<1>6. CASE op'[t].found = None
  BY <1>2, <1>3, <1>4, <1>6
<1>7. CASE op'[t].found # None
  <2>1. /\ op'[t].found \in DOMAIN live_objs /\ op'[t].size = live_objs[op'[t].found]
    BY <1>2, <1>5, <1>7
  <2>2. op'[t].found \in Addrs /\ op'[t].size \in Sizes
    BY <1>1, <2>1
  <2>3. op'[t].size \in Nat
    BY <2>2, SizesFacts
  <2> QED
    BY <1>2, <1>3, <1>4, <1>5, <1>7, <2>1, <2>2, <2>3
<1> QED
  BY <1>6, <1>7

\* Where a thread that has found an object was before.
LEMMA FoundStep ==
    ASSUME BaseInv, NEW t \in Threads, ThreadStep(t), pc'[t] \in Found
    PROVE  \/ FindHeapObj(t)
           \/ LockMark(t) /\ op' = op /\ mem' = mem /\ pc[t] = "mark"
           \/ AccessUnsafe(t) /\ op' = op /\ mem' = mem /\ pc[t] = "found" /\ op[t].found # None
<1> USE DEF Moves, Found
<1>0. t \in DOMAIN pc
  BY DEF BaseInv, TypeInv
<1>1. ~ Alloc(t) /\ ~ Dealloc(t) /\ ~ Realloc(t) /\ ~ SystemDealloc(t)
  <2>1. Alloc(t) => pc'[t] = "classify"
    BY AllocFacts DEF BaseInv
  <2>2. Dealloc(t) => pc'[t] = "remove"
    BY DeallocFacts DEF BaseInv
  <2>3. Realloc(t) => pc'[t] \in {"insert", "remove"}
    BY ReallocFacts DEF BaseInv, Reallocated
  <2>4. SystemDealloc(t) => pc'[t] = "app"
    BY <1>0, SystemDeallocEffect
  <2> QED
    BY <2>1, <2>2, <2>3, <2>4
<1>2. ~ LockInsert(t) /\ ~ LockRemove(t) /\ ~ LockRemoveUnsafe(t) /\ ~ LockFind(t)
  BY <1>0, LockInsertEffect, LockRemoveEffect, LockRemoveUnsafeEffect, LockFindEffect
<1>3. ~ InsertObj(t) /\ ~ RemoveObj(t) /\ ~ AccessSafe(t) /\ ~ MarkUnsafe(t)
  BY <1>0, InsertObjEffect, RemoveObjEffect, AccessSafeEffect, MarkUnsafeEffect DEF BaseInv
<1>4. ~ RemoveUnsafeObj(t)
  <2>1. op[t] \in Requests
    BY DEF BaseInv, TypeInv
  <2> QED
    BY <1>0, <2>1, RemoveUnsafeObjEffect
<1>5. ~ Access(t) /\ ~ ClassifyObj(t)
  BY <1>0, AccessEffect, ClassifyObjEffect
<1> QED
  BY <1>1, <1>2, <1>3, <1>4, <1>5, LockMarkEffect, AccessUnsafeEffect DEF ThreadStep

\* Only the thread itself changes what it has found.
LEMMA FindingStep ==
    ASSUME CoreInv, NEW t \in Threads, ThreadStep(t)
    PROVE  FindingInv'
<1>1. ASSUME NEW u \in Threads, u # t PROVE Finding(u)'
  <2>1. pc'[u] = pc[u] /\ op'[u] = op[u]
    BY <1>1, AsideOthers DEF CoreInv, BaseInv
  <2> QED
    BY <2>1 DEF CoreInv, FindingInv, Finding
<1>2. Finding(t)'
  <2>1. SUFFICES ASSUME pc'[t] \in Found PROVE Finding(t)'
    BY DEF Finding, Found
  <2>2. CASE FindHeapObj(t)
    <3>1. op'[t].found # None => op'[t].addr \notin NotHeap
      BY <2>2, FindFacts DEF CoreInv, EntryInv
    <3>2. pc'[t] = "found"
      BY <2>2, FindFacts DEF CoreInv
    <3> QED
      BY <3>1, <3>2 DEF Finding
  <2>3. CASE op' = op /\ pc[t] \in Found /\ op[t].found # None
    <3>1. op[t].addr \notin NotHeap
      BY <2>3 DEF CoreInv, FindingInv, Finding
    <3> QED
      BY <2>3, <3>1 DEF Finding
  <2>4. pc[t] = "mark" => op[t].found # None
    BY DEF CoreInv, FindingInv, Finding
  <2> QED
    BY <2>1, <2>2, <2>3, <2>4, FoundStep DEF CoreInv, Found
<1> QED
  BY <1>1, <1>2 DEF FindingInv

\* What is inserted is a block.
LEMMA InsertFacts ==
    ASSUME BaseInv, NEW t \in Threads, InsertObj(t)
    PROVE  /\ op[t].call \in {"alloc", "realloc"}
           /\ op[t].new \in DOMAIN mem /\ op[t].new \in Addrs /\ mem[op[t].new] = op[t].size
           /\ op[t].size \in Sizes
           /\ mem' = mem /\ op'[t] = NoOp /\ pc'[t] = "app"
           /\ live_objs' = Put(live_objs, op[t].new, op[t].size)
<1>1. /\ Called(t) /\ Held(t) /\ op[t] \in Requests /\ t \in DOMAIN pc /\ t \in DOMAIN op
      /\ mem \in [DOMAIN mem -> Sizes] /\ DOMAIN mem \subseteq Addrs
  BY DEF BaseInv, CallInv, HeldInv, TypeInv
<1>2. /\ pc[t] = "inserting" /\ mem' = mem /\ op'[t] = NoOp /\ pc'[t] = "app"
      /\ live_objs' = Put(live_objs, op[t].new, op[t].size)
  BY <1>1, InsertObjEffect DEF Moves, Asks, BaseInv
<1>3. op[t].call \in {"alloc", "realloc"}
  BY <1>1, <1>2 DEF Called, Idle, Inserting, Removing, RemovingUnsafe, Searching, Found, Requests
<1>4. op[t].new \in DOMAIN mem /\ mem[op[t].new] = op[t].size
  BY <1>1, <1>3 DEF Held
<1> QED
  BY <1>1, <1>2, <1>3, <1>4

MapType == live_objs \in [DOMAIN live_objs -> Sizes] /\ DOMAIN live_objs \subseteq Addrs

\* What is put into the map is a block of the heap.
LEMMA EntryStep ==
    ASSUME CoreInv, NEW t \in Threads, ThreadStep(t)
    PROVE  EntryInv' /\ MapType'
<1>0. MapType /\ EntryInv /\ BlockInv
  BY DEF CoreInv, BaseInv, TypeInv, MapType
<1>1. CASE InsertObj(t)
  <2>1. /\ op[t].new \in DOMAIN mem /\ op[t].new \in Addrs /\ mem[op[t].new] = op[t].size
        /\ op[t].size \in Sizes /\ live_objs' = Put(live_objs, op[t].new, op[t].size)
    BY <1>1, InsertFacts DEF CoreInv
  <2>2. Bytes(op[t].new, op[t].size) \cap NotHeap = {}
    BY <1>0, <2>1 DEF BlockInv
  <2>3. EntryInv'
    BY <1>0, <2>1, <2>2 DEF Put, EntryInv
  <2>4. MapType'
    BY <1>0, <2>1, PutType DEF Put, MapType
  <2> QED
    BY <2>3, <2>4
<1>2. CASE RemoveObj(t)
  <2>1. live_objs' = Drop(live_objs, op[t].old)
    BY <1>2 DEF RemoveObj
  <2> QED
    BY <1>0, <2>1 DEF Drop, Restrict, EntryInv, MapType
<1>3. CASE live_objs' = live_objs
  BY <1>0, <1>3 DEF EntryInv, MapType
<1> QED
  BY <1>1, <1>2, <1>3, MapFrame

\* An address that is accessed, if it is on the heap, is one of a loose block.
LEMMA ObjectFacts ==
    ASSUME BaseInv, NEW t \in Threads, op[t].call = "access"
    PROVE  IF op[t].addr \in NotHeap THEN Object(op[t].addr) = None
           ELSE /\ Object(op[t].addr) \in Loose
                /\ op[t].addr \in Bytes(Object(op[t].addr), mem[Object(op[t].addr)])
<1>1. CASE op[t].addr \in NotHeap
  BY <1>1 DEF Object
<1>2. CASE op[t].addr \notin NotHeap
  <2>1. PICK b \in Loose : op[t].addr \in Bytes(b, mem[b])
    BY <1>2 DEF BaseInv, ReachInv, Reached
  <2>2. b \in DOMAIN mem
    BY DEF Loose
  <2>3. \A c \in DOMAIN mem : op[t].addr \in Bytes(c, mem[c]) => c = b
    BY <2>1, <2>2 DEF BaseInv, BlockInv
  <2>4. Object(op[t].addr) = CHOOSE c \in DOMAIN mem : op[t].addr \in Bytes(c, mem[c])
    BY <1>2 DEF Object
  <2>5. Object(op[t].addr) = b
    BY <2>1, <2>2, <2>3, <2>4
  <2> QED
    BY <1>2, <2>1, <2>5
<1> QED
  BY <1>1, <1>2

\* Unsafe code marks a loose block.
LEMMA MarkFacts ==
    ASSUME CoreInv, NEW t \in Threads, MarkUnsafe(t)
    PROVE  /\ pc[t] = "marking" /\ op[t].call = "access" /\ op[t].found \in Addrs
           /\ Object(op[t].addr) \in Loose /\ mem[Object(op[t].addr)] \in Sizes
           /\ op[t].addr \in Bytes(Object(op[t].addr), mem[Object(op[t].addr)])
           /\ live_unsafe_objs' = live_unsafe_objs \cup {op[t].found}
           /\ Touch(Object(op[t].addr))
           /\ mem' = mem
<1>1. /\ Called(t) /\ op[t] \in Requests /\ mem \in [DOMAIN mem -> Sizes] /\ Finding(t)
  BY DEF CoreInv, BaseInv, CallInv, TypeInv, FindingInv
<1>2. pc[t] = "marking"
  BY DEF MarkUnsafe, At
<1>3. op[t].call = "access"
  BY <1>1, <1>2 DEF Called, Idle, Inserting, Removing, RemovingUnsafe, Searching, Found, Requests
<1>4. op[t].found # None /\ op[t].addr \notin NotHeap
  BY <1>1, <1>2 DEF Finding, Found
<1>5. op[t].found \in Addrs
  BY <1>1, <1>4 DEF Requests
<1>6. /\ Object(op[t].addr) \in Loose
      /\ op[t].addr \in Bytes(Object(op[t].addr), mem[Object(op[t].addr)])
  BY <1>3, <1>4, ObjectFacts DEF CoreInv
<1>7. mem[Object(op[t].addr)] \in Sizes
  BY <1>1, <1>6 DEF Loose
<1>8. /\ live_unsafe_objs' = live_unsafe_objs \cup {op[t].found}
      /\ Touch(Object(op[t].addr)) /\ mem' = mem
  BY Zenon DEF MarkUnsafe
<1> QED
  BY <1>2, <1>3, <1>5, <1>6, <1>7, <1>8

\* The history when an object is accessed for the first time.
LEMMA TouchFacts ==
    ASSUME NEW o, history \in Histories, o \in Addrs, mem[o] \in Sizes, Touch(o)
    PROVE  IF o \in history.touched THEN history' = history
           ELSE /\ history'.touched = history.touched \cup {o}
                /\ history'.firsts = [history.firsts EXCEPT ![mem[o]] = @ + 1]
                /\ history'.firsts[mem[o]] = history.firsts[mem[o]] + 1
                /\ history'.freed = history.freed /\ history'.reallocs = history.reallocs
                /\ history'.untracked = history.untracked
                /\ history'.classified = history.classified
                /\ history' \in Histories
<1>1. o \in history.touched => history' = history
  BY Zenon DEF Touch
<1>2. ASSUME o \notin history.touched
      PROVE  /\ history'.touched = history.touched \cup {o}
             /\ history'.firsts = [history.firsts EXCEPT ![mem[o]] = @ + 1]
             /\ history'.firsts[mem[o]] = history.firsts[mem[o]] + 1
             /\ history'.freed = history.freed /\ history'.reallocs = history.reallocs
             /\ history'.untracked = history.untracked
             /\ history'.classified = history.classified
             /\ history' \in Histories
  <2> DEFINE firsts == [history.firsts EXCEPT ![mem[o]] = @ + 1]
             touched == history.touched \cup {o}
  <2>1. history' = [history EXCEPT !.touched = touched, !.firsts = firsts]
    BY <1>2, Zenon DEF Touch
  <2>2. history.touched \in SUBSET Addrs /\ history.firsts \in [Sizes -> Nat]
    BY DEF Histories
  <2>3. touched \in SUBSET Addrs
    BY <2>2
  <2>4. firsts \in [Sizes -> Nat] /\ firsts[mem[o]] = history.firsts[mem[o]] + 1
    BY <2>2
  <2>5. touched = history.touched \cup {o} /\ firsts = [history.firsts EXCEPT ![mem[o]] = @ + 1]
    OBVIOUS
  <2> HIDE DEF firsts, touched
  <2>6. history'.touched = touched /\ history'.firsts = firsts
    BY <2>1, Zenon DEF Histories
  <2>7. /\ history'.freed = history.freed /\ history'.reallocs = history.reallocs
        /\ history'.untracked = history.untracked
        /\ history'.classified = history.classified /\ history' \in Histories
    BY <2>1, <2>3, <2>4, Zenon DEF Histories
  <2> QED
    BY <2>4, <2>5, <2>6, <2>7
<1> QED
  BY <1>1, <1>2

\* The history after the actions that change it.
LEMMA ReallocHistory ==
    ASSUME TypeInv, NEW t \in Threads, Realloc(t)
    PROVE  /\ history' \in Histories /\ history'.freed = history.freed
           /\ history'.firsts = history.firsts /\ history'.untracked = history.untracked
           /\ history'.classified = history.classified
           /\ history'.touched = IF op'[t].new = op'[t].old THEN history.touched
                                 ELSE history.touched \ {op'[t].old}
<1>1. PICK b \in DOMAIN mem, c \in Addrs, n \in Sizes : Reallocated(t, b, c, n)
  BY ReallocFacts
<1> DEFINE touched == IF c = b THEN history.touched ELSE history.touched \ {b}
           reallocs == history.reallocs + 1
<1>2. history' = [history EXCEPT !.reallocs = reallocs, !.touched = touched]
  BY <1>1, Zenon DEF Reallocated
<1>3. history \in Histories
  BY DEF TypeInv
<1>4. touched \in SUBSET Addrs /\ reallocs \in Nat
  BY <1>3 DEF Histories
<1>5. touched = IF op'[t].new = op'[t].old THEN history.touched
                ELSE history.touched \ {op'[t].old}
  BY <1>1 DEF Reallocated
<1> HIDE DEF touched, reallocs
<1>6. /\ history' \in Histories /\ history'.freed = history.freed
      /\ history'.firsts = history.firsts /\ history'.touched = touched
      /\ history'.untracked = history.untracked /\ history'.classified = history.classified
  BY <1>2, <1>3, <1>4, Zenon DEF Histories
<1> QED
  BY <1>5, <1>6

LEMMA SystemDeallocHistory ==
    ASSUME BaseInv, NEW t \in Threads, SystemDealloc(t)
    PROVE  /\ history' \in Histories /\ history'.freed = history.freed + mem[op[t].old]
           /\ history'.firsts = history.firsts /\ history'.untracked = history.untracked
           /\ history'.classified = history.classified
           /\ history'.touched = history.touched \ {op[t].old}
           /\ op[t].old \in DOMAIN mem /\ op[t].call = "dealloc" /\ op'[t] = NoOp
           /\ mem' = Drop(mem, op[t].old) /\ pc[t] = "free" /\ pc'[t] = "app"
<1>0. /\ Called(t) /\ Held(t) /\ op[t] \in Requests /\ mem \in [DOMAIN mem -> Sizes]
      /\ history \in Histories /\ t \in DOMAIN pc /\ t \in DOMAIN op
  BY DEF BaseInv, CallInv, HeldInv, TypeInv
<1>1. /\ pc[t] = "free" /\ pc'[t] = "app" /\ op'[t] = NoOp /\ mem' = Drop(mem, op[t].old)
  BY <1>0, SystemDeallocEffect DEF Moves, Asks
<1>2. op[t].call = "dealloc"
  BY <1>0, <1>1 DEF Called, Idle, Inserting, Removing, RemovingUnsafe, Searching, Found, Requests
<1>3. op[t].old \in DOMAIN mem
  BY <1>0, <1>2 DEF Held
<1> DEFINE touched == history.touched \ {op[t].old}
           freed == history.freed + mem[op[t].old]
<1>4. history' = [history EXCEPT !.touched = touched, !.freed = freed]
  BY Zenon DEF SystemDealloc
<1>5. mem[op[t].old] \in Nat
  BY <1>0, <1>3, SizesFacts
<1>6. touched \in SUBSET Addrs /\ freed \in Nat
  BY <1>0, <1>5 DEF Histories
<1>7. touched = history.touched \ {op[t].old} /\ freed = history.freed + mem[op[t].old]
  OBVIOUS
<1> HIDE DEF touched, freed
<1>8. /\ history' \in Histories /\ history'.freed = freed
      /\ history'.firsts = history.firsts /\ history'.touched = touched
      /\ history'.untracked = history.untracked /\ history'.classified = history.classified
  BY <1>0, <1>4, <1>6, Zenon DEF Histories
<1> QED
  BY <1>1, <1>2, <1>3, <1>7, <1>8

LEMMA HistoryStep ==
    ASSUME CoreInv, NEW t \in Threads, ThreadStep(t)
    PROVE  history' \in Histories /\ TouchedInv'
<1>0. /\ history \in Histories /\ history.touched \subseteq DOMAIN mem
      /\ DOMAIN mem \subseteq Addrs
  BY DEF CoreInv, BaseInv, TypeInv, TouchedInv
<1>1. CASE Realloc(t)
  <2>1. /\ history' \in Histories
        /\ history'.touched = IF op'[t].new = op'[t].old THEN history.touched
                              ELSE history.touched \ {op'[t].old}
    BY <1>1, ReallocHistory DEF CoreInv, BaseInv
  <2>2. PICK b \in DOMAIN mem, c \in Addrs, n \in Sizes : Reallocated(t, b, c, n)
    BY <1>1, ReallocFacts DEF CoreInv, BaseInv
  <2>3. DOMAIN mem' = (DOMAIN mem \ {b}) \cup {c} /\ op'[t].old = b /\ op'[t].new = c
    BY <2>2 DEF Reallocated, Put, Drop, Restrict
  <2> QED
    BY <1>0, <2>1, <2>3 DEF TouchedInv
<1>2. CASE SystemDealloc(t)
  <2>1. DOMAIN mem' = DOMAIN mem \ {op[t].old}
    BY <1>2, SystemDeallocEffect, DropFacts
  <2> QED
    BY <1>0, <1>2, <2>1, SystemDeallocHistory DEF CoreInv, TouchedInv
<1>3. CASE MarkUnsafe(t)
  <2> DEFINE o == Object(op[t].addr)
  <2>1. o \in DOMAIN mem /\ mem[o] \in Sizes /\ Touch(o) /\ mem' = mem
    BY <1>3, MarkFacts DEF Loose
  <2> HIDE DEF o
  <2>2. o \in Addrs
    BY <1>0, <2>1
  <2>3. IF o \in history.touched THEN history' = history
        ELSE history' \in Histories /\ history'.touched = history.touched \cup {o}
    BY <1>0, <2>1, <2>2, TouchFacts
  <2> QED
    BY <1>0, <2>1, <2>3 DEF TouchedInv
<1>4. CASE history' = history
  <2>1. ~ Realloc(t) /\ ~ SystemDealloc(t) => \A b \in DOMAIN mem : b \in DOMAIN mem'
    BY MemStep DEF CoreInv
  <2> QED
    BY <1>0, <1>1, <1>2, <1>4, <2>1 DEF TouchedInv
<1>5. CASE ClassifyObj(t)
  <2>1. history' = [history EXCEPT !.classified = @ + 1] /\ mem' = mem
    BY <1>5, ClassifyCounts, ClassifyObjEffect DEF CoreInv, BaseInv
  <2>2. history' \in Histories /\ history'.touched = history.touched
    BY <1>0, <2>1 DEF Histories
  <2> QED
    BY <1>0, <2>1, <2>2 DEF TouchedInv
<1> QED
  BY <1>1, <1>2, <1>3, <1>4, <1>5, HistoryFrame

\* A thread that is not in its destructor does not get there by a call.
LEMMA PlaceStep ==
    ASSUME BaseInv, NEW t \in Threads, ThreadStep(t)
    PROVE  /\ pc' \in [Threads -> Locations]
           /\ pc'[t] \notin {"counters", "read", "exited"}
<1> USE DEF Moves
<1>0. pc \in [Threads -> Locations] /\ op[t] \in Requests /\ t \in DOMAIN pc
  BY DEF BaseInv, TypeInv
<1>1. PICK place : pc' = [pc EXCEPT ![t] = place]
  BY Aside DEF BaseInv
<1>2. Alloc(t) \/ Dealloc(t) \/ Realloc(t) => pc'[t] \in {"classify", "insert", "remove"}
  BY AllocFacts, DeallocFacts, ReallocFacts DEF BaseInv, Reallocated
<1>3. SystemDealloc(t) \/ InsertObj(t) \/ AccessSafe(t) \/ MarkUnsafe(t) => pc'[t] = "app"
  BY <1>0, SystemDeallocEffect, InsertObjEffect, AccessSafeEffect, MarkUnsafeEffect DEF BaseInv
<1>4. LockInsert(t) \/ LockRemove(t) \/ LockRemoveUnsafe(t) \/ LockFind(t) \/ LockMark(t) =>
        pc'[t] \in {"inserting", "removing", "removing unsafe", "finding", "marking"}
  BY <1>0, LockInsertEffect, LockRemoveEffect, LockRemoveUnsafeEffect, LockFindEffect,
     LockMarkEffect
<1>5. RemoveObj(t) \/ RemoveUnsafeObj(t) => pc'[t] \in {"remove unsafe", "free", "classify"}
  BY <1>0, RemoveObjEffect, RemoveUnsafeObjEffect
<1>6. Access(t) \/ FindHeapObj(t) \/ AccessUnsafe(t) => pc'[t] \in {"find", "found", "mark"}
  BY <1>0, AccessEffect, FindFacts, AccessUnsafeEffect DEF BaseInv
<1>7. pc'[t] \in Locations \ {"counters", "read", "exited"}
  BY <1>0, <1>2, <1>3, <1>4, <1>5, <1>6, ClassifyObjEffect
     DEF ThreadStep, Locations, Idle, Inserting, Removing, RemovingUnsafe, Searching, Found
<1> QED
  BY <1>0, <1>1, <1>7

\* The types of all variables after a step.
LEMMA RequestStep ==
    ASSUME BaseInv, NEW t \in Threads, ThreadStep(t)
    PROVE  op' \in [Threads -> Requests]
<1> USE DEF Asks
<1>0. op \in [Threads -> Requests] /\ op[t] \in Requests /\ t \in DOMAIN op
  BY DEF BaseInv, TypeInv
<1>1. PICK r : op' = [op EXCEPT ![t] = r]
  BY Aside DEF BaseInv
<1>2. ASSUME Alloc(t) PROVE op'[t] \in Requests
  <2>1. PICK b \in Addrs, n \in Sizes : op'[t] = [NoOp EXCEPT !.call = "alloc", !.new = b, !.size = n]
    BY <1>0, <1>2, Zenon DEF Alloc, Request
  <2>2. n \in Nat
    BY SizesFacts
  <2>3. [NoOp EXCEPT !.call = "alloc", !.new = b, !.size = n] \in Requests
    BY <2>2, AllocType
  <2> QED
    BY <2>1, <2>3, Zenon
<1>3. ASSUME Dealloc(t) PROVE op'[t] \in Requests
  <2>1. PICK b \in DOMAIN mem : op'[t] = [NoOp EXCEPT !.call = "dealloc", !.old = b]
    BY <1>0, <1>3, Zenon DEF Dealloc, Request
  <2>2. b \in Addrs
    BY DEF BaseInv, TypeInv
  <2>3. [NoOp EXCEPT !.call = "dealloc", !.old = b] \in Requests
    BY <2>2, DeallocType
  <2> QED
    BY <2>1, <2>3, Zenon
<1>4. ASSUME Realloc(t) PROVE op'[t] \in Requests
  <2>0. PICK b \in DOMAIN mem, c \in Addrs, n \in Sizes :
          /\ Users(b) = {}
          /\ Free(c, n, b)
          /\ c # b => ~ Overlap(b, mem[b], c, n)
          /\ mem' = Put(Drop(mem, b), c, n)
          /\ Request(t, [NoOp EXCEPT !.call = "realloc", !.old = b, !.new = c, !.size = n,
                                     !.growth = Growth(mem[b], n),
                                     !.freed = IF c = b THEN {} ELSE Bytes(b, mem[b])])
          /\ history' = [history EXCEPT !.reallocs = @ + 1,
                                        !.touched = IF c = b THEN @ ELSE @ \ {b}]
          /\ Move(t, IF c = b THEN "insert" ELSE "remove")
    BY <1>4, Zenon DEF Realloc
  <2>1. op'[t] = [NoOp EXCEPT !.call = "realloc", !.old = b, !.new = c, !.size = n,
                              !.growth = Growth(mem[b], n),
                              !.freed = IF c = b THEN {} ELSE Bytes(b, mem[b])]
    BY <1>0, <2>0, Zenon DEF Request
  <2> DEFINE freed == IF c = b THEN {} ELSE Bytes(b, mem[b])
  <2>2. b \in Addrs /\ mem[b] \in Sizes /\ Bytes(b, mem[b]) \subseteq Addrs
    BY DEF BaseInv, TypeInv, BlockInv
  <2>3. n \in Nat /\ Growth(mem[b], n) \in Int
    <3>1. Sizes \subseteq Nat
      BY SizesFacts
    <3>2. mem[b] \in Nat /\ n \in Nat
      BY <2>2, <3>1, Zenon
    <3> QED
      BY <3>2 DEF Growth
  <2>4. freed \in SUBSET Addrs
    BY <2>2
  <2>5. [NoOp EXCEPT !.call = "realloc", !.old = b, !.new = c, !.size = n,
                     !.growth = Growth(mem[b], n), !.freed = freed] \in Requests
    BY <2>2, <2>3, <2>4, ReallocType
  <2> QED
    BY <2>1, <2>5, Zenon
<1>5. SystemDealloc(t) \/ InsertObj(t) \/ AccessSafe(t) \/ MarkUnsafe(t) => op'[t] \in Requests
  BY <1>0, SystemDeallocEffect, InsertObjEffect, AccessSafeEffect, MarkUnsafeEffect, NoOpType
     DEF BaseInv
<1>6. op' = op => op'[t] \in Requests
  BY <1>0
<1>7. LockInsert(t) \/ LockRemove(t) \/ LockRemoveUnsafe(t) \/ LockFind(t) \/ LockMark(t)
        \/ RemoveObj(t) \/ AccessUnsafe(t) \/ ClassifyObj(t) => op' = op
  BY LockInsertEffect, LockRemoveEffect, LockRemoveUnsafeEffect, LockFindEffect,
     LockMarkEffect, RemoveObjEffect, AccessUnsafeEffect, ClassifyObjEffect
<1>8. RemoveUnsafeObj(t) => op'[t] \in Requests
  BY <1>0, RemoveUnsafeObjEffect
<1>9. ASSUME Access(t) PROVE op'[t] \in Requests
  <2>1. PICK a \in Accessible : op'[t] = [NoOp EXCEPT !.call = "access", !.addr = a]
    BY <1>0, <1>9, Zenon DEF Access, Request
  <2>2. a \in Addrs
    BY AccessibleAddrs DEF BaseInv
  <2>3. [NoOp EXCEPT !.call = "access", !.addr = a] \in Requests
    BY <2>2, AccessType
  <2> QED
    BY <2>1, <2>3, Zenon
<1>10. FindHeapObj(t) => op'[t] \in Requests
  BY FindFacts
<1>11. op'[t] \in Requests
  BY <1>2, <1>3, <1>4, <1>5, <1>6, <1>7, <1>8, <1>9, <1>10 DEF ThreadStep
<1> QED
  BY <1>0, <1>1, <1>11

LEMMA CountersStep ==
    ASSUME BaseInv, NEW t \in Threads, ThreadStep(t)
    PROVE  stats' \in Counters
<1>1. stats \in Counters /\ TypeInv /\ FlagInv
  BY DEF BaseInv, TypeInv
<1>2. Alloc(t) => stats' \in Counters
  BY <1>1, AllocCounts
<1>3. Dealloc(t) => stats' \in Counters
  BY <1>1, DeallocCounts
<1>4. InsertObj(t) => stats' \in Counters
  BY <1>1, InsertCounts
<1>5. RemoveUnsafeObj(t) => stats' \in Counters
  BY <1>1, RemoveUnsafeCounts
<1>6. MarkUnsafe(t) => stats' \in Counters
  BY <1>1, MarkCounts
<1>7. ClassifyObj(t) => stats' \in Counters
  BY <1>1, ClassifyCounts
<1> QED
  BY <1>1, <1>2, <1>3, <1>4, <1>5, <1>6, <1>7, StatsFrame

LEMMA MemoryStep ==
    ASSUME BaseInv, NEW t \in Threads, ThreadStep(t)
    PROVE  MemType' /\ BlockInv'
<1>1. TypeInv /\ BlockInv
  BY DEF BaseInv
<1>2. mem' = mem => MemType' /\ BlockInv'
  BY <1>1 DEF MemType, BlockInv, TypeInv
<1> QED
  BY <1>1, <1>2, MemFrame, AllocBlocks, ReallocBlocks, SystemDeallocBlocks

LEMMA UnsafeObjsStep ==
    ASSUME CoreInv, NEW t \in Threads, ThreadStep(t)
    PROVE  live_unsafe_objs' \subseteq Addrs
<1>1. live_unsafe_objs \subseteq Addrs
  BY DEF CoreInv, BaseInv, TypeInv
<1>2. RemoveUnsafeObj(t) => live_unsafe_objs' = live_unsafe_objs \ {op[t].old}
  BY Zenon DEF RemoveUnsafeObj
<1> QED
  BY <1>1, <1>2, UnsafeFrame, MarkFacts

\* No thread takes a step once the report is written.
LEMMA NotExited == ASSUME NEW t \in Threads, ThreadStep(t) PROVE pc[Main] # "exited"
BY Zenon DEF ThreadStep, Alloc, ClassifyObj, Classify, Dealloc, Realloc, SystemDealloc, LockInsert,
   LockRemove, LockRemoveUnsafe, LockFind, LockMark, Lock, Take, InsertObj, Insert, RemoveObj,
   RemoveUnsafeObj, Access, FindHeapObj, AccessSafe, AccessUnsafe, MarkUnsafe, At

\* Nor is there one of a thread that makes the report.
LEMMA NotReading == ASSUME NEW t \in Threads, ThreadStep(t) PROVE pc[t] \notin {"counters", "read"}
<1> USE DEF At
<1>1. Alloc(t) \/ ClassifyObj(t) \/ Dealloc(t) \/ Realloc(t) \/ SystemDealloc(t)
        => pc[t] \in {"app", "classify", "free"}
  BY DEF Alloc, ClassifyObj, Classify, Dealloc, Realloc, SystemDealloc
<1>2. LockInsert(t) \/ LockRemove(t) \/ LockRemoveUnsafe(t) \/ LockFind(t) \/ LockMark(t)
        => pc[t] \in {"insert", "remove", "remove unsafe", "find", "mark"}
  BY DEF LockInsert, LockRemove, LockRemoveUnsafe, LockFind, LockMark, Lock, Take
<1>3. InsertObj(t) \/ RemoveObj(t) \/ RemoveUnsafeObj(t)
        => pc[t] \in {"inserting", "removing", "removing unsafe"}
  BY DEF InsertObj, Insert, RemoveObj, RemoveUnsafeObj
<1>4. Access(t) \/ FindHeapObj(t) \/ AccessSafe(t) \/ AccessUnsafe(t) \/ MarkUnsafe(t)
        => pc[t] \in {"app", "finding", "found", "marking"}
  BY DEF Access, FindHeapObj, AccessSafe, AccessUnsafe, MarkUnsafe
<1> QED
  BY <1>1, <1>2, <1>3, <1>4 DEF ThreadStep

LEMMA TypeStep ==
    ASSUME CoreInv, NEW t \in Threads, ThreadStep(t)
    PROVE  TypeInv'
<1>0. BaseInv /\ TypeInv
  BY DEF CoreInv, BaseInv
<1>1. MemType' /\ MapType' /\ live_unsafe_objs' \subseteq Addrs
  BY <1>0, MemoryStep, EntryStep, UnsafeObjsStep
<1>2. mutex' \in [{"objs", "unsafe"} -> Threads \cup {Nobody}]
  BY <1>0, MutexFrame DEF TypeInv
<1>3. SKIP_TRACKING' \in [Threads -> BOOLEAN]
  BY <1>0, FlagFrame DEF TypeInv
<1>4. pc' \in [Threads -> Locations] /\ op' \in [Threads -> Requests] /\ stats' \in Counters
  BY <1>0, PlaceStep, RequestStep, CountersStep
<1>5. report' = report
  BY ReportFrame
<1>6. report' \in Reports /\ report'.class \in Classes
  BY <1>0, <1>5, NotExited DEF TypeInv
<1>7. history' \in Histories
  BY HistoryStep
<1> QED
  BY <1>1, <1>2, <1>3, <1>4, <1>5, <1>6, <1>7 DEF TypeInv, MemType, MapType

\* The flag is set while its thread is in one of the maps, and from the report on.
LEMMA FlagStep ==
    ASSUME BaseInv, NEW t \in Threads, ThreadStep(t)
    PROVE  FlagInv'
<1> USE DEF Moves, Flagged
<1>0. /\ t \in DOMAIN pc /\ TypeInv /\ FlagInv /\ op[t] \in Requests
      /\ SKIP_TRACKING \in [Threads -> BOOLEAN]
  BY DEF BaseInv, TypeInv
<1>1. ASSUME NEW u \in Threads \ {t}, pc'[u] \in Flagged
      PROVE  SKIP_TRACKING'[u]
  <2>1. pc'[u] = pc[u]
    BY <1>0, AsideOthers
  <2>2. SKIP_TRACKING[u]
    BY <1>0, <1>1, <2>1 DEF FlagInv
  <2>3. SKIP_TRACKING'[u] = SKIP_TRACKING[u]
    BY <1>0, FlagFrame
  <2> QED
    BY <2>2, <2>3
<1>2. ASSUME pc'[t] \in Flagged
      PROVE  LockInsert(t) \/ LockRemove(t) \/ LockMark(t) \/ LockRemoveUnsafe(t) \/ RemoveObj(t)
  <2>1. ~ Alloc(t) /\ ~ Dealloc(t) /\ ~ Realloc(t) /\ ~ ClassifyObj(t)
    <3>1. ~ Alloc(t)
      BY <1>0, <1>2, AllocFacts
    <3>2. ~ Dealloc(t)
      BY <1>0, <1>2, DeallocFacts
    <3>3. ~ Realloc(t)
      BY <1>0, <1>2, ReallocFacts DEF Reallocated
    <3>4. ~ ClassifyObj(t)
      BY <1>0, <1>2, ClassifyObjEffect
    <3> QED
      BY <3>1, <3>2, <3>3, <3>4
  <2>2. ~ (SystemDealloc(t) \/ InsertObj(t) \/ AccessSafe(t) \/ MarkUnsafe(t))
    BY <1>0, <1>2, SystemDeallocEffect, InsertObjEffect, AccessSafeEffect, MarkUnsafeEffect
  <2>3. ~ (LockFind(t) \/ RemoveUnsafeObj(t))
    BY <1>0, <1>2, LockFindEffect, RemoveUnsafeObjEffect
  <2>4. ~ (Access(t) \/ FindHeapObj(t) \/ AccessUnsafe(t))
    BY <1>0, <1>2, AccessEffect, FindFacts, AccessUnsafeEffect DEF BaseInv
  <2> QED
    BY <2>1, <2>2, <2>3, <2>4 DEF ThreadStep
<1>3. LockInsert(t) \/ LockRemove(t) \/ LockMark(t) => SKIP_TRACKING'[t]
  <2>1. LockInsert(t) \/ LockRemove(t) \/ LockMark(t)
          => SKIP_TRACKING' = [SKIP_TRACKING EXCEPT ![t] = TRUE]
    BY Zenon DEF LockInsert, LockRemove, LockMark, Lock
  <2> QED
    BY <1>0, <2>1
<1>4. LockRemoveUnsafe(t) \/ RemoveObj(t) => SKIP_TRACKING'[t]
  <2>1. LockRemoveUnsafe(t) \/ RemoveObj(t) => SKIP_TRACKING' = SKIP_TRACKING
    BY Zenon DEF LockRemoveUnsafe, RemoveObj
  <2>2. LockRemoveUnsafe(t) \/ RemoveObj(t) => pc[t] \in Flagged
    BY LockRemoveUnsafeEffect, RemoveObjEffect
  <2> QED
    BY <1>0, <2>1, <2>2 DEF FlagInv
<1> QED
  BY <1>1, <1>2, <1>3, <1>4 DEF FlagInv

\* Every step of a thread keeps the invariant.
LEMMA CoreStep ==
    ASSUME CoreInv, NEW t \in Threads, ThreadStep(t)
    PROVE  CoreInv'
<1>0. BaseInv /\ TypeInv /\ CallInv /\ FlagInv /\ BlockInv
  BY DEF CoreInv, BaseInv
<1>1. MemType' /\ BlockInv' /\ DOMAIN mem' \subseteq Addrs
  BY <1>0, MemoryStep DEF MemType
<1>2. TypeInv' /\ CallInv' /\ FlagInv' /\ HeldInv'
  BY <1>0, TypeStep, CallStep, FlagStep, HeldStep
<1>3. AloneInv' /\ ReachInv'
  BY <1>0, <1>1, AloneStep, ReachStep
<1>4. EntryInv' /\ FindingInv' /\ TouchedInv'
  BY EntryStep, FindingStep, HistoryStep
<1> QED
  BY <1>1, <1>2, <1>3, <1>4 DEF CoreInv, BaseInv

\* The destructor moves the main thread from one idle place to another.
LEMMA DumpPlaces ==
    ASSUME TypeInv, DumpStep
    PROVE  /\ pc[Main] \in Idle /\ pc'[Main] \in Idle /\ pc' \in [Threads -> Locations]
           /\ \A t \in Threads \ {Main} : pc'[t] = pc[t]
<1>1. Main \in Threads /\ pc \in [Threads -> Locations]
  BY ThreadsFacts DEF TypeInv
<1>2. CASE pc' = pc /\ pc[Main] = "read"
  BY <1>1, <1>2 DEF Idle
<1>3. CASE \E from, to \in Idle : Moves(Main, from, to)
  <2>1. PICK from \in Idle, to \in Idle : Moves(Main, from, to)
    BY <1>3
  <2>2. to \in Locations
    BY DEF Locations
  <2> QED
    BY <1>1, <2>1, <2>2 DEF Moves
<1> QED
  BY <1>2, <1>3, DumpStatsEffect, SetFlagEffect, ReadClassEffect DEF DumpStep, Idle

\* The types after a step of the destructor.
LEMMA DumpReport ==
    ASSUME TypeInv, DumpStep
    PROVE  /\ report' \in Reports
           /\ pc'[Main] = "exited" \/ report'.class \in Classes
<1>1. /\ stats \in Counters /\ report \in Reports /\ Main \in DOMAIN pc
      /\ pc[Main] = "exited" \/ report.class \in Classes
  BY ThreadsFacts DEF TypeInv
<1>2. CASE DumpStats \/ SetFlag
  <2>1. pc[Main] # "exited"
    BY <1>2, DumpStatsEffect, SetFlagEffect DEF Moves
  <2>2. \/ report' = [report EXCEPT !.allocs = stats.total_alloc]
        \/ report' = [report EXCEPT !.reallocs = stats.total_realloc]
    BY <1>2, Zenon DEF DumpStats, SetFlag, PrepareFormat
  <2> QED
    BY <1>1, <2>1, <2>2 DEF Counters, Reports
<1>3. CASE ReadClass
  <2>1. pc[Main] = "read" /\ report.class \in Classes
    BY <1>1, <1>3, ReadClassEffect
  <2>2. report' = [report EXCEPT !.sizes = @ + stats.size_histogram[report.class], !.class = @ + 1]
    BY <1>3, Zenon DEF ReadClass
  <2>3. stats.size_histogram[report.class] \in Nat
    BY <1>1, <2>1 DEF Counters
  <2>4. report' \in Reports /\ report'.class = report.class + 1
    <3> DEFINE sizes == report.sizes + stats.size_histogram[report.class]
               class == report.class + 1
    <3>1. sizes \in Nat /\ class \in Nat
      BY <1>1, <2>3 DEF Reports
    <3>2. report' = [report EXCEPT !.sizes = sizes, !.class = class]
      BY <2>2, Zenon
    <3>3. class = report.class + 1
      OBVIOUS
    <3> HIDE DEF sizes, class
    <3> QED
      BY <1>1, <3>1, <3>2, <3>3, Zenon DEF Reports
  <2>5. pc'[Main] = "exited" \/ report.class + 1 \in Classes
    BY <1>1, <1>3, ReadClassEffect DEF Moves
  <2> QED
    BY <2>4, <2>5
<1> QED
  BY <1>2, <1>3 DEF DumpStep

LEMMA DumpFlags ==
    ASSUME TypeInv, FlagInv, DumpStep
    PROVE  SKIP_TRACKING' \in [Threads -> BOOLEAN] /\ FlagInv'
<1>1. /\ Main \in Threads /\ SKIP_TRACKING \in [Threads -> BOOLEAN] /\ Main \in DOMAIN pc
      /\ \A t \in Threads \ {Main} : pc'[t] = pc[t]
  BY ThreadsFacts, DumpPlaces DEF TypeInv
<1>2. CASE SetFlag
  <2>1. SKIP_TRACKING' = [SKIP_TRACKING EXCEPT ![Main] = TRUE]
    BY <1>2, Zenon DEF SetFlag, PrepareFormat
  <2> QED
    BY <1>1, <2>1 DEF FlagInv
<1>3. CASE DumpStats \/ ReadClass
  <2>1. SKIP_TRACKING' = SKIP_TRACKING
    BY <1>3, Zenon DEF DumpStats, ReadClass
  <2>2. pc'[Main] \in Flagged => SKIP_TRACKING[Main]
    BY <1>1, <1>3, DumpStatsEffect, ReadClassEffect DEF Moves, FlagInv, Flagged
  <2> QED
    BY <1>1, <2>1, <2>2 DEF FlagInv
<1> QED
  BY <1>2, <1>3 DEF DumpStep

\* Every step of the destructor keeps the invariant, and so does a stuttering step.
LEMMA CoreDump == ASSUME CoreInv, DumpStep PROVE CoreInv'
<1>0. /\ BaseInv /\ TypeInv /\ CallInv /\ FlagInv /\ BlockInv
      /\ HeldInv /\ AloneInv /\ ReachInv
  BY DEF CoreInv, BaseInv
<1>1. /\ mem' = mem /\ live_objs' = live_objs /\ live_unsafe_objs' = live_unsafe_objs
      /\ mutex' = mutex /\ op' = op
  BY DumpFrame
<1>2. stats' \in Counters /\ history' \in Histories /\ history'.touched = history.touched
  BY <1>0, DumpKeeps
<1>3. pc[Main] \in Idle /\ pc'[Main] \in Idle /\ pc' \in [Threads -> Locations]
      /\ \A t \in Threads \ {Main} : pc'[t] = pc[t]
  BY <1>0, DumpPlaces
<1>4. report' \in Reports /\ (pc'[Main] = "exited" \/ report'.class \in Classes)
  BY <1>0, DumpReport
<1>5. SKIP_TRACKING' \in [Threads -> BOOLEAN] /\ FlagInv'
  BY <1>0, DumpFlags
<1>6. TypeInv'
  BY <1>0, <1>1, <1>2, <1>3, <1>4, <1>5 DEF TypeInv
<1>7. CallInv'
  <2>1. ASSUME NEW t \in Threads PROVE Called(t)'
    <3>1. Called(t)
      BY <1>0 DEF CallInv
    <3>2. CASE t = Main
      <4>1. op[t].call = "none"
        BY <1>3, <3>1, <3>2 DEF Called
      <4> QED
        BY <1>1, <1>3, <3>1, <3>2, <4>1 DEF Called
    <3>3. CASE t # Main
      BY <1>1, <1>3, <3>1, <3>3 DEF Called
    <3> QED
      BY <3>2, <3>3
  <2> QED
    BY <2>1 DEF CallInv
<1>8. BlockInv' /\ HeldInv' /\ AloneInv'
  BY <1>0, <1>1 DEF BlockInv, HeldInv, Held, AloneInv, Holds
<1>9. ReachInv'
  BY <1>0, <1>1 DEF ReachInv, Reached, Loose, Holds
<1>10. EntryInv' /\ TouchedInv'
  BY <1>1, <1>2 DEF CoreInv, EntryInv, TouchedInv
<1>11. FindingInv'
  <2>1. ASSUME NEW t \in Threads PROVE Finding(t)'
    <3>1. Finding(t)
      BY DEF CoreInv, FindingInv
    <3>2. CASE t = Main
      BY <1>3, <3>2 DEF Finding, Idle, Found
    <3>3. CASE t # Main
      BY <1>1, <1>3, <3>1, <3>3 DEF Finding
    <3> QED
      BY <3>2, <3>3
  <2> QED
    BY <2>1 DEF FindingInv
<1> QED
  BY <1>5, <1>6, <1>7, <1>8, <1>9, <1>10, <1>11 DEF CoreInv, BaseInv

LEMMA CoreStutter == ASSUME CoreInv, UNCHANGED vars PROVE CoreInv'
<1>1. /\ mem' = mem /\ live_objs' = live_objs /\ live_unsafe_objs' = live_unsafe_objs
      /\ mutex' = mutex /\ op' = op /\ history' = history /\ SKIP_TRACKING' = SKIP_TRACKING
      /\ pc' = pc /\ stats' = stats /\ report' = report
  BY StutterFrame
<1> QED
  BY <1>1 DEF CoreInv, BaseInv, TypeInv, CallInv, Called, FlagInv, BlockInv, HeldInv, Held,
     AloneInv,
     Holds, ReachInv, Reached, Loose, EntryInv, FindingInv, Finding, TouchedInv

\* The invariant is inductive.
LEMMA CoreNext == ASSUME CoreInv, [Next]_vars PROVE CoreInv'
BY NextSteps, CoreStep, CoreDump, CoreStutter DEF CoreInv, BaseInv

LEMMA CoreInit == ASSUME Init PROVE CoreInv
<1>1. /\ pc = [t \in Threads |-> "app"] /\ op = [t \in Threads |-> NoOp]
      /\ SKIP_TRACKING = [t \in Threads |-> FALSE]
      /\ mutex = [m \in {"objs", "unsafe"} |-> Nobody]
  BY DEF Init
<1>2. /\ mem = << >> /\ DOMAIN mem = {} /\ live_objs = << >> /\ DOMAIN live_objs = {}
      /\ live_unsafe_objs = {}
  BY DEF Init
<1>3. stats \in Counters /\ report \in Reports /\ history \in Histories /\ report.class \in Classes
  BY BoundsFacts DEF Init, Counters, Reports, Histories, Classes
<1>4. TypeInv
  <2>1. /\ mem \in [DOMAIN mem -> Sizes] /\ DOMAIN mem \subseteq Addrs
        /\ live_objs \in [DOMAIN live_objs -> Sizes] /\ DOMAIN live_objs \subseteq Addrs
    BY <1>2
  <2>2. live_unsafe_objs \subseteq Addrs
    BY <1>2, Zenon
  <2>3. /\ pc \in [Threads -> Locations] /\ op \in [Threads -> Requests]
        /\ mutex \in [{"objs", "unsafe"} -> Threads \cup {Nobody}]
    BY <1>1, NoOpType DEF Locations, Idle
  <2>4. SKIP_TRACKING \in [Threads -> BOOLEAN]
    BY <1>1, Zenon
  <2> QED
    BY <1>3, <2>1, <2>2, <2>3, <2>4 DEF TypeInv
<1>5. CallInv
  BY <1>1 DEF CallInv, Called, NoOp, Idle
<1>6. FlagInv /\ FindingInv
  BY <1>1 DEF FlagInv, Flagged, FindingInv, Finding, Found
<1>7. HeldInv /\ ReachInv
  BY <1>1 DEF HeldInv, Held, NoOp, ReachInv, Reached
<1>8. BlockInv /\ AloneInv /\ EntryInv
  BY <1>2 DEF BlockInv, AloneInv, EntryInv
<1>9. TouchedInv
  BY DEF Init, TouchedInv
<1> QED
  BY <1>4, <1>5, <1>6, <1>7, <1>8, <1>9 DEF CoreInv, BaseInv

\* The calls of alloc, dealloc, realloc and the hooks stay in step with the blocks of
\* the system allocator, whatever it hands out.
THEOREM CoreInvariant == Spec => []CoreInv
BY CoreInit, CoreNext, PTL DEF Spec

-----------------------------------------------------------------------------
(* The mutexes                                                              *)

\* Who holds a mutex is in one of the operations under it.
MutexInv == \A t \in Threads :
    /\ mutex["objs"] = t => pc[t] \in {"inserting", "removing", "finding"}
    /\ mutex["unsafe"] = t => pc[t] \in {"removing unsafe", "marking"}

\* A mutex is taken on the way into an operation, and returned on the way out.
LEMMA MutexTaken ==
    ASSUME CoreInv, MutexInv, NEW t \in Threads, NEW name \in {"objs", "unsafe"}, NEW from, NEW to,
           Take(t, from, name, to),
           from \in {"insert", "remove", "find", "remove unsafe", "mark"},
           name = "objs" => to \in {"inserting", "removing", "finding"},
           name = "unsafe" => to \in {"removing unsafe", "marking"}
    PROVE  MutexInv'
<1>1. /\ pc[t] = from /\ pc' = [pc EXCEPT ![t] = to] /\ mutex' = [mutex EXCEPT ![name] = t]
  BY DEF Take, At, Move
<1>2. /\ pc \in [Threads -> Locations] /\ mutex \in [{"objs", "unsafe"} -> Threads \cup {Nobody}]
  BY DEF CoreInv, BaseInv, TypeInv
<1>3. mutex["objs"] # t /\ mutex["unsafe"] # t
  BY <1>1 DEF MutexInv
<1>4. /\ mutex'[name] = t /\ pc'[t] = to
      /\ \A m \in {"objs", "unsafe"} \ {name} : mutex'[m] = mutex[m]
      /\ \A u \in Threads \ {t} : pc'[u] = pc[u]
  BY <1>1, <1>2
<1> QED
  BY <1>3, <1>4 DEF MutexInv

LEMMA MutexReturned ==
    ASSUME CoreInv, MutexInv, NEW t \in Threads, NEW name \in {"objs", "unsafe"}, NEW from, NEW to,
           Moves(t, from, to), Unlock(name),
           name = "objs" => from \in {"inserting", "removing", "finding"},
           name = "unsafe" => from \in {"removing unsafe", "marking"}
    PROVE  MutexInv'
<1>1. /\ pc[t] = from /\ pc' = [pc EXCEPT ![t] = to] /\ mutex' = [mutex EXCEPT ![name] = Nobody]
  BY DEF Moves, Unlock
<1>2. /\ pc \in [Threads -> Locations] /\ mutex \in [{"objs", "unsafe"} -> Threads \cup {Nobody}]
      /\ Nobody \notin Threads
  BY ThreadsFacts DEF CoreInv, BaseInv, TypeInv
<1>3. \A m \in {"objs", "unsafe"} \ {name} : mutex[m] # t
  BY <1>1 DEF MutexInv
<1>4. /\ mutex'[name] = Nobody
      /\ \A m \in {"objs", "unsafe"} \ {name} : mutex'[m] = mutex[m]
      /\ \A u \in Threads \ {t} : pc'[u] = pc[u]
  BY <1>1, <1>2
<1>5. ASSUME NEW u \in Threads, NEW m \in {"objs", "unsafe"}, mutex'[m] = u
      PROVE  mutex[m] = u /\ pc'[u] = pc[u]
  <2>1. m # name
    BY <1>2, <1>4, <1>5
  <2>2. mutex[m] = u
    BY <1>4, <1>5, <2>1
  <2>3. u # t
    BY <1>3, <2>1, <2>2
  <2> QED
    BY <1>4, <2>2, <2>3
<1> QED
  BY <1>5 DEF MutexInv

\* Other steps are taken by a thread that has none.
LEMMA MutexAside ==
    ASSUME CoreInv, MutexInv, NEW t \in Threads, NEW from, NEW to,
           Moves(t, from, to), mutex' = mutex,
           from \notin {"inserting", "removing", "finding", "removing unsafe", "marking"}
    PROVE  MutexInv'
<1>1. pc[t] = from /\ pc' = [pc EXCEPT ![t] = to]
  BY DEF Moves
<1>2. pc \in [Threads -> Locations]
  BY DEF CoreInv, BaseInv, TypeInv
<1>3. mutex["objs"] # t /\ mutex["unsafe"] # t
  BY <1>1 DEF MutexInv
<1>4. \A u \in Threads \ {t} : pc'[u] = pc[u]
  BY <1>1, <1>2
<1> QED
  BY <1>3, <1>4 DEF MutexInv

LEMMA MutexStep ==
    ASSUME CoreInv, MutexInv, NEW t \in Threads, ThreadStep(t)
    PROVE  MutexInv'
<1>0. op \in [Threads -> Requests] /\ op[t] \in Requests
  BY DEF CoreInv, BaseInv, TypeInv
<1>1. CASE LockInsert(t)
  <2>1. Take(t, "insert", "objs", "inserting")
    BY <1>1 DEF LockInsert, Lock
  <2> QED
    BY <2>1, MutexTaken
<1>2. CASE LockRemove(t)
  <2>1. Take(t, "remove", "objs", "removing")
    BY <1>2 DEF LockRemove, Lock
  <2> QED
    BY <2>1, MutexTaken
<1>3. CASE LockRemoveUnsafe(t)
  <2>1. Take(t, "remove unsafe", "unsafe", "removing unsafe")
    BY <1>3 DEF LockRemoveUnsafe
  <2> QED
    BY <2>1, MutexTaken
<1>4. CASE LockFind(t)
  <2>1. Take(t, "find", "objs", "finding")
    BY <1>4 DEF LockFind, Lock
  <2> QED
    BY <2>1, MutexTaken
<1>5. CASE LockMark(t)
  <2>1. Take(t, "mark", "unsafe", "marking")
    BY <1>5 DEF LockMark, Lock
  <2> QED
    BY <2>1, MutexTaken
<1>6. CASE InsertObj(t)
  <2>1. Moves(t, "inserting", "app") /\ Unlock("objs")
    BY <1>6, InsertObjEffect DEF InsertObj, Insert
  <2> QED
    BY <2>1, MutexReturned
<1>7. CASE RemoveObj(t)
  <2>1. Moves(t, "removing", "remove unsafe") /\ Unlock("objs")
    BY <1>7, RemoveObjEffect DEF RemoveObj
  <2> QED
    BY <2>1, MutexReturned
<1>8. CASE RemoveUnsafeObj(t)
  <2>1. \E to : Moves(t, "removing unsafe", to)
    BY <1>0, <1>8, RemoveUnsafeObjEffect
  <2>2. PICK to : Moves(t, "removing unsafe", to)
    BY <2>1
  <2>3. Unlock("unsafe")
    BY <1>8 DEF RemoveUnsafeObj
  <2> QED
    BY <2>2, <2>3, MutexReturned
<1>9. CASE FindHeapObj(t)
  <2>1. Moves(t, "finding", "found") /\ Unlock("objs")
    BY <1>0, <1>9, FindHeapObjEffect DEF FindHeapObj
  <2> QED
    BY <2>1, MutexReturned
<1>10. CASE MarkUnsafe(t)
  <2>1. Moves(t, "marking", "app") /\ Unlock("unsafe")
    BY <1>10, MarkUnsafeEffect DEF MarkUnsafe
  <2> QED
    BY <2>1, MutexReturned
<1>11. CASE \/ Alloc(t) \/ ClassifyObj(t) \/ Dealloc(t) \/ Realloc(t) \/ SystemDealloc(t)
            \/ Access(t) \/ AccessSafe(t) \/ AccessUnsafe(t)
  <2>1. mutex' = mutex
    BY <1>11, Zenon DEF Alloc, ClassifyObj, Classify, Dealloc, Realloc, SystemDealloc, Access,
       AccessSafe, AccessUnsafe
  <2>2. \E from \in {"app", "classify", "free", "found"} : \E to : Moves(t, from, to)
    BY <1>11, AllocEffect, ClassifyObjEffect, DeallocEffect, ReallocEffect, SystemDeallocEffect,
       AccessEffect, AccessSafeEffect, AccessUnsafeEffect
  <2> QED
    BY <2>1, <2>2, MutexAside
<1> QED
  BY <1>1, <1>2, <1>3, <1>4, <1>5, <1>6, <1>7, <1>8, <1>9, <1>10, <1>11 DEF ThreadStep

LEMMA MutexNext == ASSUME CoreInv, MutexInv, [Next]_vars PROVE MutexInv'
<1>1. CASE \E t \in Threads : ThreadStep(t)
  BY <1>1, MutexStep
<1>2. CASE DumpStep
  <2>1. mutex' = mutex /\ pc[Main] \in Idle /\ \A t \in Threads \ {Main} : pc'[t] = pc[t]
    BY <1>2, DumpFrame, DumpPlaces DEF CoreInv, BaseInv
  <2> QED
    BY <2>1 DEF MutexInv, Idle
<1>3. CASE UNCHANGED vars
  BY <1>3, StutterFrame DEF MutexInv
<1> QED
  BY <1>1, <1>2, <1>3, NextSteps DEF CoreInv, BaseInv

\* "This prevents deadlock due to reentrant locking": who holds a mutex has the flag set, so
\* that its tree's requests to the allocator pass, and it asks for no other mutex: nobody waits
\* for itself, and no two threads wait for each other.
THEOREM NoDeadlock == Spec => []NoCircularWait
<1>1. Init => MutexInv
  BY ThreadsFacts DEF Init, MutexInv
<1>2. MutexInv => NoCircularWait
  <2> SUFFICES ASSUME MutexInv, NEW t \in Threads, NEW u \in Threads,
                      WaitsFor(t, u), WaitsFor(u, t)
               PROVE  FALSE
    BY DEF NoCircularWait
  <2>1. PICK m \in {"objs", "unsafe"} : mutex[m] = u
    BY DEF WaitsFor, Wants
  <2>2. pc[u] \in {"inserting", "removing", "finding", "removing unsafe", "marking"}
    BY <2>1 DEF MutexInv
  <2>3. Wants(u) = {}
    BY <2>2 DEF Wants
  <2> QED
    BY <2>3 DEF WaitsFor
<1>3. CoreInv /\ MutexInv /\ [Next]_vars => MutexInv'
  BY MutexNext
<1> QED
  BY <1>1, <1>2, <1>3, CoreInvariant, PTL DEF Spec
-----------------------------------------------------------------------------
(* The bytes in use                                                         *)

\* What reallocations have changed in size and not yet counted.
Growths == [t \in Threads |-> op[t].growth]
\* total_usage, with what is not yet counted, is what is allocated and has been freed,
\* and by how much strings of the report have grown.
UsageInv ==
    stats.total_usage + SumFunction(Growths) = SumFunction(mem) + history.freed + history.untracked

\* The sums of the invariant are integers.
LEMMA GrowthsFacts ==
    ASSUME TypeInv
    PROVE  /\ SumFunction(Growths) = SumFunctionOnSet(Growths, Threads)
           /\ SumFunction(Growths) \in Int /\ Growths \in [Threads -> Int]
<1>1. Growths \in [Threads -> Int]
  BY DEF Growths, TypeInv, Requests
<1>2. SumFunction(Growths) = SumFunctionOnSet(Growths, Threads)
  BY <1>1, SumOnDomain
<1>3. \A t \in Threads : Growths[t] \in Int
  BY <1>1
<1>4. SumFunctionOnSet(Growths, Threads) \in Int
  BY <1>3, ThreadsFacts, SumType
<1> QED
  BY <1>1, <1>2, <1>4

\* The bytes of a map are counted over its addresses.
LEMMA BytesSum ==
    ASSUME NEW f, f \in [DOMAIN f -> Sizes], DOMAIN f \subseteq Addrs
    PROVE  /\ IsFiniteSet(DOMAIN f) /\ \A b \in DOMAIN f : f[b] \in Nat
           /\ SumFunction(f) = SumFunctionOnSet(f, DOMAIN f) /\ SumFunction(f) \in Nat
<1>1. IsFiniteSet(DOMAIN f)
  BY AddrFacts, FS_Subset
<1>2. \A b \in DOMAIN f : f[b] \in Nat
  BY SizesFacts
<1>3. SumFunction(f) = SumFunctionOnSet(f, DOMAIN f)
  BY DEF SumFunction
<1>4. SumFunctionOnSet(f, DOMAIN f) \in Nat
  BY <1>1, <1>2, SumNat
<1> QED
  BY <1>1, <1>2, <1>3, <1>4

\* A block that goes, and a block that comes, is one term of the sum.
LEMMA DropSum ==
    ASSUME NEW f, f \in [DOMAIN f -> Sizes], DOMAIN f \subseteq Addrs, NEW b \in DOMAIN f
    PROVE  SumFunction(Drop(f, b)) = SumFunction(f) - f[b] /\ SumFunction(Drop(f, b)) \in Nat
<1> DEFINE g == Drop(f, b)
<1>1. DOMAIN g = DOMAIN f \ {b} /\ \A c \in DOMAIN g : g[c] = f[c]
  BY DEF Drop, Restrict
<1>2. g \in [DOMAIN g -> Sizes] /\ DOMAIN g \subseteq Addrs
  BY <1>1, DropType
<1> HIDE DEF g
<1>3. /\ IsFiniteSet(DOMAIN f) /\ \A c \in DOMAIN f : f[c] \in Int
      /\ SumFunction(f) = SumFunctionOnSet(f, DOMAIN f) /\ SumFunction(f) \in Nat
      /\ f[b] \in Int
  BY BytesSum
<1>4. /\ IsFiniteSet(DOMAIN g) /\ \A c \in DOMAIN g : g[c] \in Int
      /\ SumFunction(g) = SumFunctionOnSet(g, DOMAIN g) /\ SumFunction(g) \in Nat
  BY <1>2, BytesSum
<1>5. SumFunctionOnSet(f, DOMAIN f) = f[b] + SumFunctionOnSet(f, DOMAIN f \ {b})
  BY <1>3, SumSplit
<1>6. SumFunctionOnSet(g, DOMAIN g) = SumFunctionOnSet(f, DOMAIN g)
  BY <1>1, <1>4, SumEqual
<1>7. SumFunction(g) = SumFunction(f) - f[b]
  BY <1>1, <1>3, <1>4, <1>5, <1>6
<1> QED
  BY <1>4, <1>7 DEF g

LEMMA PutSum ==
    ASSUME NEW f, f \in [DOMAIN f -> Sizes], DOMAIN f \subseteq Addrs,
           NEW b \in Addrs \ DOMAIN f, NEW n \in Sizes
    PROVE  SumFunction(Put(f, b, n)) = SumFunction(f) + n
<1> DEFINE g == Put(f, b, n)
<1>1. /\ DOMAIN g = DOMAIN f \cup {b} /\ g[b] = n /\ DOMAIN g \ {b} = DOMAIN f
      /\ \A c \in DOMAIN f : g[c] = f[c]
  BY DEF Put
<1>2. g \in [DOMAIN g -> Sizes] /\ DOMAIN g \subseteq Addrs
  BY <1>1, PutType
<1> HIDE DEF g
<1>3. /\ IsFiniteSet(DOMAIN f) /\ \A c \in DOMAIN f : f[c] \in Int
      /\ SumFunction(f) = SumFunctionOnSet(f, DOMAIN f) /\ SumFunction(f) \in Nat
  BY BytesSum
<1>4. /\ IsFiniteSet(DOMAIN g) /\ \A c \in DOMAIN g : g[c] \in Int
      /\ SumFunction(g) = SumFunctionOnSet(g, DOMAIN g) /\ SumFunction(g) \in Nat
      /\ b \in DOMAIN g /\ n \in Int
  BY <1>1, <1>2, BytesSum
<1>5. SumFunctionOnSet(g, DOMAIN g) = g[b] + SumFunctionOnSet(g, DOMAIN g \ {b})
  BY <1>4, SumSplit
<1>6. SumFunctionOnSet(g, DOMAIN f) = SumFunctionOnSet(f, DOMAIN f)
  <2>1. \A c \in DOMAIN f : g[c] \in Int /\ g[c] = f[c]
    BY <1>1, <1>3
  <2> QED
    BY <1>3, <2>1, SumEqual
<1>7. SumFunction(g) = SumFunction(f) + n
  BY <1>1, <1>3, <1>4, <1>5, <1>6
<1> QED
  BY <1>7 DEF g

\* A reallocation under way is the only call with a growth.
LEMMA GrowthStep ==
    ASSUME BaseInv, NEW t \in Threads, ThreadStep(t)
    PROVE  /\ Realloc(t) => op[t].growth = 0
           /\ InsertObj(t) => op'[t].growth = 0
           /\ ~ Realloc(t) /\ ~ InsertObj(t) => op'[t].growth = op[t].growth
<1> USE DEF Moves, Asks
<1>0. Called(t) /\ op[t] \in Requests /\ t \in DOMAIN op /\ t \in DOMAIN pc
  BY DEF BaseInv, CallInv, TypeInv
<1>1. op[t].call # "realloc" => op[t].growth = 0
  BY <1>0 DEF Called
<1>2. pc[t] \in Idle \cup {"free"} \cup Searching \cup Found => op[t].growth = 0
  BY <1>0, <1>1 DEF Called, Idle, Inserting, Removing, RemovingUnsafe, Searching, Found
<1>3. ASSUME Realloc(t) PROVE op[t].growth = 0
  BY <1>2, <1>3, ReallocFacts DEF BaseInv, Reallocated, Idle
<1>4. ASSUME InsertObj(t) PROVE op'[t].growth = 0
  BY <1>4, InsertFacts DEF NoOp
<1>5. ASSUME Alloc(t) \/ Dealloc(t) PROVE op'[t].growth = op[t].growth
  BY <1>2, <1>5, AllocFacts, DeallocFacts DEF BaseInv, Idle
<1>6. ASSUME SystemDealloc(t) PROVE op'[t].growth = op[t].growth
  <2>1. pc[t] = "free" /\ op'[t] = NoOp
    BY <1>0, <1>6, SystemDeallocEffect
  <2> QED
    BY <1>2, <2>1 DEF NoOp
<1>7. ASSUME AccessSafe(t) \/ MarkUnsafe(t) PROVE op'[t].growth = op[t].growth
  <2>1. pc[t] \in Found /\ op'[t] = NoOp
    BY <1>0, <1>7, AccessSafeEffect, MarkUnsafeEffect DEF Found
  <2> QED
    BY <1>2, <2>1 DEF NoOp
<1>8. ASSUME RemoveUnsafeObj(t) PROVE op'[t].growth = op[t].growth
  BY <1>0, <1>8, RemoveUnsafeObjEffect
<1>9. ASSUME Access(t) PROVE op'[t].growth = op[t].growth
  <2>1. PICK a : op'[t] = AccessRequest(a) /\ pc[t] = "app"
    BY <1>0, <1>9, AccessEffect
  <2> QED
    BY <1>2, <2>1 DEF AccessRequest, Idle
<1>10. ASSUME FindHeapObj(t) PROVE op'[t].growth = op[t].growth
  BY <1>10, FindHeapObjEffect DEF BaseInv, TypeInv
<1>11. LockInsert(t) \/ LockRemove(t) \/ LockRemoveUnsafe(t) \/ LockFind(t) \/ LockMark(t)
        \/ RemoveObj(t) \/ AccessUnsafe(t) \/ ClassifyObj(t) => op' = op
  BY LockInsertEffect, LockRemoveEffect, LockRemoveUnsafeEffect, LockFindEffect,
     LockMarkEffect, RemoveObjEffect, AccessUnsafeEffect, ClassifyObjEffect
<1> QED
  BY <1>3, <1>4, <1>5, <1>6, <1>7, <1>8, <1>9, <1>10, <1>11 DEF ThreadStep

\* So it changes one term of the sum of the growths.
LEMMA GrowthsStep ==
    ASSUME CoreInv, CoreInv', NEW t \in Threads, ThreadStep(t)
    PROVE  /\ SumFunction(Growths)' = SumFunction(Growths) - op[t].growth + op'[t].growth
           /\ op[t].growth \in Int /\ op'[t].growth \in Int
<1>1. Growths \in [Threads -> Int] /\ SumFunction(Growths) = SumFunctionOnSet(Growths, Threads)
  BY GrowthsFacts DEF CoreInv, BaseInv
<1>2. /\ Growths' \in [Threads -> Int]
      /\ SumFunction(Growths)' = SumFunctionOnSet(Growths', Threads)
  <2>1. Growths' \in [Threads -> Int]
    BY DEF CoreInv, BaseInv, TypeInv, Growths, Requests
  <2> QED
    BY <2>1, SumOnDomain
<1>3. /\ Growths[t] = op[t].growth /\ Growths'[t] = op'[t].growth
      /\ \A u \in Threads \ {t} : Growths'[u] = Growths[u]
  BY AsideOthers DEF Growths, CoreInv, BaseInv
<1> HIDE DEF Growths
<1>4. \A u \in Threads : Growths[u] \in Int /\ Growths'[u] \in Int
  BY <1>1, <1>2
<1>5. SumFunctionOnSet(Growths', Threads)
        = SumFunctionOnSet(Growths, Threads) - Growths[t] + Growths'[t]
  BY <1>3, <1>4, ThreadsFacts, SumChange
<1> QED
  BY <1>1, <1>2, <1>3, <1>4, <1>5

\* What a step does to the counter, the memory and what has been freed.
LEMMA UsageParts ==
    ASSUME CoreInv, NEW t \in Threads, ThreadStep(t)
    PROVE  stats'.total_usage - stats.total_usage + op'[t].growth - op[t].growth
             = SumFunction(mem') - SumFunction(mem) + history'.freed - history.freed
<1>0. /\ BaseInv /\ TypeInv /\ FlagInv /\ BlockInv
      /\ mem \in [DOMAIN mem -> Sizes] /\ DOMAIN mem \subseteq Addrs
  BY DEF CoreInv, BaseInv, TypeInv
<1>1. /\ stats.total_usage \in Int /\ history.freed \in Int /\ SumFunction(mem) \in Int
      /\ op[t].growth \in Int
  BY <1>0, BytesSum DEF TypeInv, Counters, Histories, Requests
<1>2. CASE Alloc(t)
  <2>1. PICK b \in Addrs, n \in Sizes :
          /\ op'[t].size = n /\ op'[t].growth = 0
          /\ Free(b, n, None) /\ mem' = Put(mem, b, n) /\ pc[t] = "app"
    BY <1>0, <1>2, AllocFacts
  <2>2. b \notin DOMAIN mem
    BY <1>0, <2>1, FreeIsFresh, AddrFacts
  <2>3. SumFunction(mem') = SumFunction(mem) + n
    BY <1>0, <2>1, <2>2, PutSum
  <2>4. stats'.total_usage = stats.total_usage + n
    BY <1>0, <1>2, <2>1, AllocCounts
  <2>5. history' = history
    BY <1>2, Zenon DEF Alloc
  <2>6. op'[t].growth = op[t].growth /\ n \in Int
    <3>1. ~ Realloc(t) /\ ~ InsertObj(t)
      <4>1. op'[t].call = "alloc"
        BY <1>0, <1>2, AllocFacts
      <4>2. Realloc(t) => op'[t].call = "realloc"
        BY <1>0, ReallocFacts DEF Reallocated
      <4>3. InsertObj(t) => op'[t].call = "none"
        BY <1>0, InsertFacts DEF NoOp
      <4> QED
        BY <4>1, <4>2, <4>3
    <3> QED
      BY <1>0, <3>1, GrowthStep, SizesFacts
  <2> QED
    BY <1>1, <2>3, <2>4, <2>5, <2>6
<1>3. CASE Realloc(t)
  <2>1. PICK b \in DOMAIN mem, c \in Addrs, n \in Sizes : Reallocated(t, b, c, n)
    BY <1>0, <1>3, ReallocFacts
  <2> DEFINE f == Drop(mem, b)
  <2>2. f \in [DOMAIN f -> Sizes] /\ DOMAIN f = DOMAIN mem \ {b}
    BY <1>0, DropType, DropFacts
  <2>3. c \notin DOMAIN f
    BY <1>0, <2>1, <2>2, FreeIsFresh DEF Reallocated
  <2>4. mem' = Put(f, c, n) /\ op'[t].growth = n - mem[b]
    BY <2>1 DEF Reallocated
  <2>5. SumFunction(f) = SumFunction(mem) - mem[b] /\ SumFunction(f) \in Nat
    BY <1>0, DropSum
  <2> HIDE DEF f
  <2>6. SumFunction(mem') = SumFunction(f) + n
    BY <1>0, <2>2, <2>3, <2>4, PutSum
  <2>7. history'.freed = history.freed
    BY <1>0, <1>3, ReallocHistory
  <2>8. stats' = stats
    BY <1>3, Zenon DEF Realloc
  <2>9. op[t].growth = 0
    BY <1>0, <1>3, GrowthStep
  <2>10. mem[b] \in Int /\ n \in Int
    <3>1. mem[b] \in Sizes /\ n \in Sizes
      BY <1>0
    <3>2. Sizes \subseteq Int
      BY SizesFacts
    <3> QED
      BY <3>1, <3>2, Zenon
  <2> QED
    BY <1>1, <2>4, <2>5, <2>6, <2>7, <2>8, <2>9, <2>10
<1>4. CASE SystemDealloc(t)
  <2>1. /\ history'.freed = history.freed + mem[op[t].old] /\ mem' = Drop(mem, op[t].old)
        /\ op[t].old \in DOMAIN mem /\ op'[t] = NoOp /\ op[t].call = "dealloc"
    BY <1>0, <1>4, SystemDeallocHistory
  <2>2. SumFunction(mem') = SumFunction(mem) - mem[op[t].old]
    BY <1>0, <2>1, DropSum
  <2>3. stats' = stats
    BY <1>4, Zenon DEF SystemDealloc
  <2>4. op'[t].growth = 0 /\ op[t].growth = 0
    BY <1>0, <2>1 DEF NoOp, CallInv, Called, CoreInv, BaseInv
  <2>5. mem[op[t].old] \in Int
    BY <1>0, <2>1, SizesFacts
  <2> QED
    BY <1>1, <2>1, <2>2, <2>3, <2>4, <2>5
<1>5. CASE InsertObj(t)
  <2>1. stats'.total_usage = stats.total_usage + op[t].growth
    BY <1>0, <1>5, InsertCounts
  <2>2. mem' = mem /\ op'[t].growth = 0
    BY <1>0, <1>5, InsertFacts, GrowthStep
  <2>3. history' = history
    BY <1>5, Zenon DEF InsertObj, Insert
  <2> QED
    BY <1>1, <2>1, <2>2, <2>3
<1>6. CASE ~ (Alloc(t) \/ Realloc(t) \/ SystemDealloc(t) \/ InsertObj(t))
  <2>1. mem' = mem
    BY <1>6, MemFrame
  <2>2. op'[t].growth = op[t].growth
    BY <1>0, <1>6, GrowthStep
  <2>3. stats'.total_usage = stats.total_usage
    BY <1>0, <1>6, StatsFrame, DeallocCounts, RemoveUnsafeCounts, MarkCounts, ClassifyCounts
  <2>4. history'.freed = history.freed
    <3>1. ASSUME MarkUnsafe(t) PROVE history'.freed = history.freed
      <4> DEFINE o == Object(op[t].addr)
      <4>1. o \in DOMAIN mem /\ mem[o] \in Sizes /\ Touch(o)
        BY <3>1, MarkFacts DEF Loose
      <4> HIDE DEF o
      <4>2. o \in Addrs /\ history \in Histories
        BY <1>0, <4>1 DEF TypeInv
      <4> QED
        BY <4>1, <4>2, TouchFacts
    <3>2. ASSUME ClassifyObj(t) PROVE history'.freed = history.freed
      BY <1>0, <3>2, ClassifyCounts DEF TypeInv, Histories
    <3> QED
      BY <1>6, <3>1, <3>2, HistoryFrame
  <2> QED
    BY <1>1, <2>1, <2>2, <2>3, <2>4
<1> QED
  BY <1>2, <1>3, <1>4, <1>5, <1>6

\* No thread adds to what only the report adds to.
LEMMA UntrackedStep ==
    ASSUME CoreInv, NEW t \in Threads, ThreadStep(t)
    PROVE  history'.untracked = history.untracked
<1>0. /\ BaseInv /\ TypeInv /\ history \in Histories
      /\ mem \in [DOMAIN mem -> Sizes] /\ DOMAIN mem \subseteq Addrs
  BY DEF CoreInv, BaseInv, TypeInv
<1>1. CASE MarkUnsafe(t)
  <2> DEFINE o == Object(op[t].addr)
  <2>1. o \in DOMAIN mem /\ mem[o] \in Sizes /\ Touch(o)
    BY <1>1, MarkFacts DEF Loose
  <2> HIDE DEF o
  <2>2. o \in Addrs
    BY <1>0, <2>1
  <2> QED
    BY <1>0, <2>1, <2>2, TouchFacts
<1>2. CASE ClassifyObj(t)
  BY <1>0, <1>2, ClassifyCounts DEF Histories
<1> QED
  BY <1>0, <1>1, <1>2, HistoryFrame, ReallocHistory, SystemDeallocHistory

\* Each step moves bytes from one part of the balance to another.
LEMMA UsageStep ==
    ASSUME CoreInv, CoreInv', UsageInv, NEW t \in Threads, ThreadStep(t)
    PROVE  UsageInv'
<1>1. /\ stats.total_usage \in Int /\ history.freed \in Int /\ SumFunction(mem) \in Int
      /\ SumFunction(Growths) \in Int
  BY BytesSum, GrowthsFacts DEF CoreInv, BaseInv, TypeInv, Counters, Histories
<1>2. /\ stats'.total_usage \in Int /\ history'.freed \in Int
  BY DEF CoreInv, BaseInv, TypeInv, Counters, Histories
<1>3. SumFunction(mem') \in Int
  <2>1. mem' \in [DOMAIN mem' -> Sizes] /\ DOMAIN mem' \subseteq Addrs
    BY DEF CoreInv, BaseInv, TypeInv
  <2> QED
    BY <2>1, BytesSum
<1>4. /\ SumFunction(Growths)' = SumFunction(Growths) - op[t].growth + op'[t].growth
      /\ op[t].growth \in Int /\ op'[t].growth \in Int
  BY GrowthsStep
<1>5. stats'.total_usage - stats.total_usage + op'[t].growth - op[t].growth
        = SumFunction(mem') - SumFunction(mem) + history'.freed - history.freed
  BY UsageParts
<1>6. stats.total_usage + SumFunction(Growths)
        = SumFunction(mem) + history.freed + history.untracked
  BY DEF UsageInv
<1>7. history'.untracked = history.untracked /\ history.untracked \in Int
  BY UntrackedStep DEF CoreInv, BaseInv, TypeInv, Histories
<1>8. stats'.total_usage + SumFunction(Growths)'
        = SumFunction(mem') + history'.freed + history.untracked
  <2> DEFINE before == stats.total_usage + SumFunction(Growths)
             after == stats'.total_usage + SumFunction(Growths)'
             held == SumFunction(mem) + history.freed
             holds == SumFunction(mem') + history'.freed
  <2>1. after - before = holds - held
    BY <1>1, <1>2, <1>3, <1>4, <1>5
  <2>2. before = held + history.untracked
    BY <1>6
  <2>3. before \in Int /\ after \in Int /\ held \in Int /\ holds \in Int
    BY <1>1, <1>2, <1>3, <1>4
  <2> HIDE DEF before, after, held, holds
  <2>4. after = holds + history.untracked
    BY <1>7, <2>1, <2>2, <2>3
  <2> QED
    BY <2>4 DEF after, holds
<1> QED
  BY <1>7, <1>8 DEF UsageInv

\* There is nothing to balance at the start.
LEMMA UsageInit == ASSUME Init PROVE UsageInv
<1>1. Growths \in [Threads -> Int] /\ \A t \in Threads : Growths[t] = 0
  BY DEF Init, Growths, NoOp
<1>2. SumFunction(Growths) = 0
  BY <1>1, ThreadsFacts, SumOnDomain, SumZero
<1>3. SumFunction(mem) = 0
  <2>1. SumFunction(mem) = SumFunctionOnSet(mem, {})
    BY DEF Init, SumFunction
  <2> QED
    BY <2>1, SumEmpty
<1> QED
  BY <1>2, <1>3 DEF Init, UsageInv

\* What the reallocations under way are yet to add is less than what they have
\* allocated, each in a block of its own.
LEMMA UsageNat == ASSUME CoreInv, UsageInv PROVE stats.total_usage \in Nat
<1> DEFINE own == [t \in Threads |-> op[t].new]
<1>1. /\ BaseInv /\ TypeInv
  BY DEF CoreInv, BaseInv
<1>2. /\ IsFiniteSet(DOMAIN mem) /\ \A b \in DOMAIN mem : mem[b] \in Nat
      /\ SumFunction(mem) = SumFunctionOnSet(mem, DOMAIN mem) /\ SumFunction(mem) \in Nat
  BY <1>1, BytesSum DEF TypeInv
<1>3. /\ SumFunction(Growths) = SumFunctionOnSet(Growths, Threads)
      /\ SumFunction(Growths) \in Int /\ \A t \in Threads : Growths[t] \in Int
  BY <1>1, GrowthsFacts
<1>4. ASSUME NEW t \in Threads, Growths[t] > 0
      PROVE  own[t] \in DOMAIN mem /\ Growths[t] <= mem[own[t]] /\ Holds(t, own[t])
  <2>1. op[t].call = "realloc"
    BY <1>4 DEF Growths, CoreInv, BaseInv, CallInv, Called
  <2>2. /\ op[t].new \in DOMAIN mem /\ mem[op[t].new] = op[t].size
        /\ op[t].growth < op[t].size
    BY <2>1 DEF CoreInv, BaseInv, HeldInv, Held
  <2>3. Growths[t] = op[t].growth /\ op[t].growth \in Int /\ op[t].size \in Int
    BY <1>1 DEF Growths, TypeInv, Requests
  <2> QED
    BY <2>2, <2>3 DEF Holds
<1>5. \A t, u \in Threads :
        Growths[t] > 0 /\ Growths[u] > 0 /\ own[t] = own[u] => t = u
  BY <1>4 DEF CoreInv, BaseInv, AloneInv
<1> HIDE DEF own
<1>6. SumFunctionOnSet(Growths, Threads) <= SumFunctionOnSet(mem, DOMAIN mem)
  BY <1>2, <1>3, <1>4, <1>5, ThreadsFacts, SumBelow
<1>7. stats.total_usage \in Int /\ history.freed \in Nat /\ history.untracked \in Nat
  BY <1>1 DEF TypeInv, Counters, Histories
<1>8. stats.total_usage + SumFunction(Growths)
        = SumFunction(mem) + history.freed + history.untracked
  BY DEF UsageInv
<1> QED
  BY <1>2, <1>3, <1>6, <1>7, <1>8

\* The balance is kept.
LEMMA UsageNext == ASSUME CoreInv, CoreInv', UsageInv, [Next]_vars PROVE UsageInv'
<1>1. CASE \E t \in Threads : ThreadStep(t)
  BY <1>1, UsageStep
<1>2. CASE DumpStep
  <2>1. mem' = mem /\ op' = op /\ TypeInv
    BY <1>2, DumpFrame DEF CoreInv, BaseInv
  <2>2. /\ Growths' = Growths /\ SumFunction(Growths) \in Int /\ SumFunction(mem) \in Int
        /\ stats.total_usage \in Int /\ history.freed \in Int /\ history.untracked \in Int
    BY <2>1, GrowthsFacts, BytesSum DEF Growths, TypeInv, Counters, Histories
  <2>3. PICK grown \in Nat : /\ stats'.total_usage = stats.total_usage + grown
                             /\ history'.untracked = history.untracked + grown
    BY <1>2, <2>1, DumpKeeps
  <2>4. history'.freed = history.freed
    BY <1>2, <2>1, DumpKeeps
  <2>5. SumFunction(Growths)' = SumFunction(Growths) /\ SumFunction(mem)' = SumFunction(mem)
    BY <2>1, <2>2
  <2>6. stats.total_usage + SumFunction(Growths)
          = SumFunction(mem) + history.freed + history.untracked
    BY DEF UsageInv
  <2>7. stats'.total_usage + SumFunction(Growths)'
          = SumFunction(mem)' + history'.freed + history'.untracked
    BY <2>2, <2>3, <2>4, <2>5, <2>6
  <2> QED
    BY <2>7 DEF UsageInv
<1>3. CASE UNCHANGED vars
  <2>1. mem' = mem /\ op' = op /\ history' = history /\ stats' = stats
    BY <1>3, StutterFrame
  <2> QED
    BY <2>1 DEF UsageInv, Growths
<1> QED
  BY <1>1, <1>2, <1>3, NextSteps DEF CoreInv, BaseInv

\* total_usage balances at every step of alloc, dealloc and realloc, also of several at a time.
THEOREM UsageInvariant == Spec => [](CoreInv /\ UsageInv)
<1>1. Init => CoreInv /\ UsageInv
  BY CoreInit, UsageInit
<1>2. (CoreInv /\ UsageInv) /\ [Next]_vars => (CoreInv /\ UsageInv)'
  BY CoreNext, UsageNext
<1> QED
  BY <1>1, <1>2, PTL DEF Spec

\* The maps, the counters and the requests have their types: no counter wraps
\* around below zero, and what was accessed is in the memory.
THEOREM TypeCorrect == Spec => []TypeOK
<1>1. ASSUME CoreInv, UsageInv PROVE TypeOK
  <2>1. /\ TypeInv /\ TouchedInv /\ stats.total_usage \in Nat
    BY <1>1, UsageNat DEF CoreInv, BaseInv
  <2>2. IsMap(mem) /\ IsMap(live_objs)
    BY <2>1 DEF TypeInv, IsMap, Range
  <2>3. /\ {stats.total_usage, stats.total_alloc, stats.total_realloc, stats.total_dealloc,
            stats.total_unsafe_objs, stats.unsafe_mem} \subseteq Nat
        /\ {stats.size_histogram, stats.unsafe_size_histogram} \subseteq [Classes -> Nat]
    BY <2>1 DEF TypeInv, Counters
  <2> QED
    BY <2>1, <2>2, <2>3 DEF TypeOK, TypeInv, TouchedInv
<1> QED
  BY <1>1, UsageInvariant, PTL

\* "Total allocated heap objects in bytes": whichever order the threads count their
\* reallocations in, the counter with what the reallocations under way are yet to add is
\* what is in use, what has been freed and, in the end, what strings of the report have
\* grown by, which is added without the flag being asked; and it is never negative.
THEOREM UsageExact == Spec => []UsageBalances
<1>1. ASSUME CoreInv, UsageInv PROVE UsageBalances
  <2>1. stats.total_usage >= 0
    BY <1>1, UsageNat
  <2> QED
    BY <1>1, <2>1 DEF UsageInv, Growths, UsageBalances
<1> QED
  BY <1>1, UsageInvariant, PTL
-----------------------------------------------------------------------------
(* The histogram and the report                                             *)

\* Threads that have counted an object and not classified it.
Unclassified == {t \in Threads : pc[t] = "classify"}
\* The histogram is what has been classified, and lags behind the counters by that much.
HistogramInv ==
    /\ SumFunction(stats.size_histogram) + Cardinality(Unclassified)
         = stats.total_alloc + stats.total_realloc
    /\ SumFunction(stats.size_histogram) = history.classified

\* The classes that the report has not read, and what is in them.
UnreadFrom(k) == {c \in Classes : c >= k}
Unread == SumFunctionOnSet(stats.size_histogram, UnreadFrom(report.class))
\* What the report has read and is to read is bounded from both sides all the time.
Bounded ==
    /\ report.allocs + report.reallocs - Cardinality(Threads \ {Main}) <= report.sizes + Unread
    /\ report.sizes + Unread <= history.classified
ReportInv ==
    /\ pc[Main] \notin {"read", "exited"} => report.sizes = 0 /\ report.class = 0
    /\ pc[Main] = "counters" => report.allocs <= stats.total_alloc
    /\ pc[Main] = "read" => Bounded
    /\ ReportConsistent

\* The sum of a histogram is a natural number, and grows by one with each object.
LEMMA HistogramFacts ==
    ASSUME NEW h \in [Classes -> Nat]
    PROVE  /\ SumFunction(h) = SumFunctionOnSet(h, Classes) /\ SumFunction(h) \in Nat
           /\ \A c \in Classes : h[c] \in Int
<1>1. SumFunction(h) = SumFunctionOnSet(h, Classes)
  BY SumOnDomain
<1>2. \A c \in Classes : h[c] \in Nat
  OBVIOUS
<1>3. SumFunctionOnSet(h, Classes) \in Nat
  BY <1>2, ClassesFacts, SumNat
<1> QED
  BY <1>1, <1>2, <1>3

\* Over any set of classes it grows by one or not at all, over all of them by one.
LEMMA ClassifiedPart ==
    ASSUME NEW h \in [Classes -> Nat], NEW n \in Nat, NEW S \in SUBSET Classes
    PROVE  /\ SumFunctionOnSet(h, S) \in Nat /\ SumFunctionOnSet(Classified(h, n), S) \in Nat
           /\ SumFunctionOnSet(h, S) <= SumFunctionOnSet(Classified(h, n), S)
           /\ SumFunctionOnSet(Classified(h, n), S) <= SumFunctionOnSet(h, S) + 1
           /\ S = Classes => SumFunctionOnSet(Classified(h, n), S) = SumFunctionOnSet(h, S) + 1
<1> DEFINE g == Classified(h, n)
           c == Class(n)
<1>1. c \in Classes
  BY ClassFacts
<1>2. g \in [Classes -> Nat]
  BY ClassifiedType
<1>3. g[c] = h[c] + 1 /\ \A d \in Classes \ {c} : g[d] = h[d]
  BY <1>1 DEF Classified
<1> HIDE DEF g, c
<1>4. IsFiniteSet(S) /\ \A d \in S : h[d] \in Nat /\ g[d] \in Nat
  BY <1>2, ClassesFacts, FS_Subset
<1>5. SumFunctionOnSet(h, S) \in Nat /\ SumFunctionOnSet(g, S) \in Nat
  BY <1>4, SumNat
<1>6. ASSUME c \in S
      PROVE  SumFunctionOnSet(g, S) = SumFunctionOnSet(h, S) + 1
  <2>1. \A d \in S : h[d] \in Int /\ g[d] \in Int
    BY <1>4
  <2>2. \A d \in S \ {c} : g[d] = h[d]
    BY <1>3
  <2>3. SumFunctionOnSet(g, S) = SumFunctionOnSet(h, S) - h[c] + g[c]
    BY <1>4, <1>6, <2>1, <2>2, SumChange
  <2>4. h[c] \in Nat
    BY <1>4, <1>6
  <2> QED
    BY <1>3, <1>5, <2>3, <2>4
<1>7. ASSUME c \notin S
      PROVE  SumFunctionOnSet(g, S) = SumFunctionOnSet(h, S)
  <2>1. \A d \in S : g[d] \in Int /\ g[d] = h[d]
    BY <1>3, <1>4, <1>7
  <2> QED
    BY <1>4, <2>1, SumEqual
<1>8. /\ SumFunctionOnSet(h, S) <= SumFunctionOnSet(g, S)
      /\ SumFunctionOnSet(g, S) <= SumFunctionOnSet(h, S) + 1
      /\ S = Classes => SumFunctionOnSet(g, S) = SumFunctionOnSet(h, S) + 1
  BY <1>1, <1>5, <1>6, <1>7
<1> QED
  BY <1>5, <1>8 DEF g

LEMMA ClassifiedSum ==
    ASSUME NEW h \in [Classes -> Nat], NEW n \in Nat
    PROVE  SumFunction(Classified(h, n)) = SumFunction(h) + 1
<1>1. Classified(h, n) \in [Classes -> Nat]
  BY ClassifiedType
<1>2. SumFunction(Classified(h, n)) = SumFunctionOnSet(Classified(h, n), Classes)
  BY <1>1, HistogramFacts
<1>3. SumFunction(h) = SumFunctionOnSet(h, Classes)
  BY HistogramFacts
<1> QED
  BY <1>2, <1>3, ClassifiedPart

\* Where threads are when they have counted an object.
LEMMA ClassifyPlace ==
    ASSUME BaseInv, NEW t \in Threads, ThreadStep(t)
    PROVE  /\ ClassifyObj(t) => pc[t] = "classify" /\ pc'[t] # "classify"
           /\ Alloc(t) \/ (RemoveUnsafeObj(t) /\ op[t].call # "dealloc")
                => pc[t] # "classify" /\ pc'[t] = "classify"
           /\ ~ ClassifyObj(t) /\ ~ Alloc(t) /\ ~ (RemoveUnsafeObj(t) /\ op[t].call # "dealloc")
                => pc[t] # "classify" /\ pc'[t] # "classify"
<1> USE DEF Moves
<1>0. /\ pc \in [Threads -> Locations] /\ op \in [Threads -> Requests]
      /\ op[t] \in Requests /\ t \in DOMAIN pc
  BY DEF BaseInv, TypeInv
<1>1. ClassifyObj(t) => pc[t] = "classify" /\ pc'[t] # "classify"
  BY <1>0, ClassifyObjEffect
<1>2. Alloc(t) => pc[t] # "classify" /\ pc'[t] = "classify"
  BY AllocFacts DEF BaseInv
<1>3. RemoveUnsafeObj(t) => /\ pc[t] # "classify"
                            /\ pc'[t] = "classify" <=> op[t].call # "dealloc"
  BY <1>0, RemoveUnsafeObjEffect
<1>4. Dealloc(t) \/ Realloc(t) => pc[t] # "classify" /\ pc'[t] # "classify"
  BY DeallocFacts, ReallocFacts DEF BaseInv, Reallocated
<1>5. SystemDealloc(t) \/ InsertObj(t) \/ AccessSafe(t) \/ MarkUnsafe(t)
        => pc[t] # "classify" /\ pc'[t] # "classify"
  BY <1>0, SystemDeallocEffect, InsertObjEffect, AccessSafeEffect, MarkUnsafeEffect
<1>6. LockInsert(t) \/ LockRemove(t) \/ LockRemoveUnsafe(t) \/ LockFind(t) \/ LockMark(t)
        => pc[t] # "classify" /\ pc'[t] # "classify"
  BY <1>0, LockInsertEffect, LockRemoveEffect, LockRemoveUnsafeEffect, LockFindEffect,
     LockMarkEffect
<1>7. RemoveObj(t) \/ AccessUnsafe(t) => pc[t] # "classify" /\ pc'[t] # "classify"
  BY <1>0, RemoveObjEffect, AccessUnsafeEffect
<1>8. Access(t) => pc[t] # "classify" /\ pc'[t] # "classify"
  BY <1>0, AccessEffect
<1>9. FindHeapObj(t) => pc[t] # "classify" /\ pc'[t] # "classify"
  BY <1>0, FindHeapObjEffect
<1> QED
  BY <1>1, <1>2, <1>3, <1>4, <1>5, <1>6, <1>7, <1>8, <1>9 DEF ThreadStep

\* Of the threads, the others are as they were.
LEMMA UnclassifiedStep ==
    ASSUME BaseInv, NEW t \in Threads, ThreadStep(t)
    PROVE  /\ IsFiniteSet(Unclassified) /\ Cardinality(Unclassified) \in Nat
           /\ Unclassified' = IF pc'[t] = "classify" THEN Unclassified \cup {t}
                              ELSE Unclassified \ {t}
<1>1. IsFiniteSet(Unclassified) /\ Cardinality(Unclassified) \in Nat
  BY ThreadsFacts, FS_Subset, FS_CardinalityType DEF Unclassified
<1>2. \A u \in Threads \ {t} : pc'[u] = pc[u]
  BY AsideOthers DEF BaseInv
<1> QED
  BY <1>1, <1>2 DEF Unclassified

\* A thread's step changes what is classified only by classifying.
LEMMA ClassifiedStep ==
    ASSUME CoreInv, NEW t \in Threads, ThreadStep(t), ~ ClassifyObj(t)
    PROVE  history'.classified = history.classified
<1>0. /\ BaseInv /\ TypeInv /\ history \in Histories
      /\ mem \in [DOMAIN mem -> Sizes] /\ DOMAIN mem \subseteq Addrs
  BY DEF CoreInv, BaseInv, TypeInv
<1>1. CASE MarkUnsafe(t)
  <2> DEFINE o == Object(op[t].addr)
  <2>1. o \in DOMAIN mem /\ mem[o] \in Sizes /\ Touch(o)
    BY <1>1, MarkFacts DEF Loose
  <2> HIDE DEF o
  <2>2. o \in Addrs
    BY <1>0, <2>1
  <2> QED
    BY <1>0, <2>1, <2>2, TouchFacts
<1> QED
  BY <1>0, <1>1, HistoryFrame, ReallocHistory, SystemDeallocHistory

\* A step counts an object before it classifies it.
LEMMA HistogramStep ==
    ASSUME CoreInv, HistogramInv, NEW t \in Threads, ThreadStep(t)
    PROVE  HistogramInv'
<1>0. /\ BaseInv /\ TypeInv /\ stats.size_histogram \in [Classes -> Nat]
      /\ stats.total_alloc \in Nat /\ stats.total_realloc \in Nat
      /\ op[t].size \in Nat /\ history.classified \in Nat /\ history \in Histories
  BY DEF CoreInv, BaseInv, TypeInv, Counters, Requests, Histories
<1>1. SumFunction(stats.size_histogram) \in Nat
  BY <1>0, HistogramFacts
<1>2. /\ IsFiniteSet(Unclassified) /\ Cardinality(Unclassified) \in Nat
      /\ Unclassified' = IF pc'[t] = "classify" THEN Unclassified \cup {t} ELSE Unclassified \ {t}
  BY <1>0, UnclassifiedStep
<1> DEFINE sum == SumFunction(stats.size_histogram)
           waiting == Cardinality(Unclassified)
<1>3. sum + waiting = stats.total_alloc + stats.total_realloc /\ sum = history.classified
  BY DEF HistogramInv
<1>4. CASE ClassifyObj(t)
  <2>1. /\ stats'.total_alloc = stats.total_alloc /\ stats'.total_realloc = stats.total_realloc
        /\ stats'.size_histogram = Classified(stats.size_histogram, op[t].size)
        /\ history'.classified = history.classified + 1
    BY <1>0, <1>4, ClassifyCounts DEF Histories
  <2>2. SumFunction(stats'.size_histogram) = sum + 1
    BY <1>0, <2>1, ClassifiedSum
  <2>3. Cardinality(Unclassified') = waiting - 1
    <3>1. Unclassified' = Unclassified \ {t} /\ t \in Unclassified
      BY <1>0, <1>2, <1>4, ClassifyPlace DEF Unclassified
    <3> QED
      BY <1>2, <3>1, FS_RemoveElement
  <2> HIDE DEF sum, waiting
  <2>4. (sum + 1) + (waiting - 1) = stats.total_alloc + stats.total_realloc
    BY <1>0, <1>1, <1>2, <1>3 DEF sum, waiting
  <2> QED
    BY <1>3, <2>1, <2>2, <2>3, <2>4 DEF HistogramInv
<1>5. CASE Alloc(t) \/ (RemoveUnsafeObj(t) /\ op[t].call # "dealloc")
  <2>1. /\ stats'.size_histogram = stats.size_histogram
        /\ stats'.total_alloc + stats'.total_realloc = stats.total_alloc + stats.total_realloc + 1
    BY <1>0, <1>5, AllocCounts, RemoveUnsafeCounts
  <2>2. Cardinality(Unclassified') = waiting + 1
    <3>1. Unclassified' = Unclassified \cup {t} /\ t \notin Unclassified
      BY <1>0, <1>2, <1>5, ClassifyPlace DEF Unclassified
    <3> QED
      BY <1>2, <3>1, FS_AddElement
  <2>3. history'.classified = history.classified
    <3>1. ~ ClassifyObj(t)
      BY <1>0, <1>5, ClassifyPlace
    <3> QED
      BY <3>1, ClassifiedStep
  <2>4. SumFunction(stats'.size_histogram) = sum
    BY <2>1
  <2> HIDE DEF sum, waiting
  <2>5. sum + (waiting + 1) = stats.total_alloc + stats.total_realloc + 1
    BY <1>0, <1>1, <1>2, <1>3 DEF sum, waiting
  <2> QED
    BY <1>3, <2>1, <2>2, <2>3, <2>4, <2>5 DEF HistogramInv
<1>6. CASE ~ ClassifyObj(t) /\ ~ Alloc(t) /\ ~ (RemoveUnsafeObj(t) /\ op[t].call # "dealloc")
  <2>1. /\ stats'.size_histogram = stats.size_histogram
        /\ stats'.total_alloc = stats.total_alloc /\ stats'.total_realloc = stats.total_realloc
    BY <1>0, <1>6, StatsFrame, DeallocCounts, InsertCounts, RemoveUnsafeCounts, MarkCounts
  <2>2. Unclassified' = Unclassified
    BY <1>0, <1>2, <1>6, ClassifyPlace DEF Unclassified
  <2>3. history'.classified = history.classified
    BY <1>6, ClassifiedStep
  <2> QED
    BY <1>3, <2>1, <2>2, <2>3 DEF HistogramInv
<1> QED
  BY <1>4, <1>5, <1>6

\* The histogram is empty at the start.
LEMMA HistogramInit == ASSUME Init PROVE HistogramInv
<1>1. stats.size_histogram \in [Classes -> Nat] /\ \A c \in Classes : stats.size_histogram[c] = 0
  BY DEF Init
<1>2. SumFunction(stats.size_histogram) = 0
  BY <1>1, ClassesFacts, SumOnDomain, SumZero
<1>3. Unclassified = {}
  BY DEF Init, Unclassified
<1>4. Cardinality(Unclassified) = 0
  BY <1>3, FS_EmptySet
<1> QED
  BY <1>2, <1>4 DEF Init, HistogramInv

\* The histogram keeps adding up.
LEMMA HistogramNext == ASSUME CoreInv, HistogramInv, [Next]_vars PROVE HistogramInv'
<1>1. CASE \E t \in Threads : ThreadStep(t)
  BY <1>1, HistogramStep
<1>2. CASE DumpStep
  <2>1. TypeInv /\ Main \in DOMAIN pc
    BY ThreadsFacts DEF CoreInv, BaseInv, TypeInv
  <2>2. /\ stats'.size_histogram = stats.size_histogram /\ history'.classified = history.classified
        /\ stats'.total_alloc = stats.total_alloc /\ stats'.total_realloc = stats.total_realloc
    BY <1>2, <2>1, DumpKeeps
  <2>3. \E from, to \in Idle : pc' = pc \/ Moves(Main, from, to)
    BY <1>2, DumpStatsEffect, SetFlagEffect, ReadClassEffect DEF DumpStep, Idle
  <2>4. \A t \in Threads : pc'[t] = "classify" <=> pc[t] = "classify"
    BY <2>1, <2>3 DEF TypeInv, Moves, Idle
  <2>5. Unclassified' = Unclassified
    BY <2>4 DEF Unclassified
  <2> QED
    BY <2>2, <2>5 DEF HistogramInv
<1>3. CASE UNCHANGED vars
  BY <1>3, StutterFrame DEF HistogramInv, Unclassified
<1> QED
  BY <1>1, <1>2, <1>3, NextSteps DEF CoreInv, BaseInv

\* What is still to be read is a number.
LEMMA UnreadFacts ==
    ASSUME TypeInv
    PROVE  /\ Unread \in Nat /\ report.sizes \in Nat /\ report.class \in Nat
           /\ report.allocs \in Nat /\ report.reallocs \in Nat /\ history.classified \in Nat
           /\ stats.size_histogram \in [Classes -> Nat] /\ stats.total_alloc \in Nat
           /\ stats.total_realloc \in Nat /\ report \in Reports
           /\ Cardinality(Threads \ {Main}) \in Nat
<1>1. /\ report.sizes \in Nat /\ report.class \in Nat
      /\ report.allocs \in Nat /\ report.reallocs \in Nat /\ history.classified \in Nat
      /\ stats.size_histogram \in [Classes -> Nat] /\ stats.total_alloc \in Nat
      /\ stats.total_realloc \in Nat /\ report \in Reports
  BY DEF TypeInv, Reports, Histories, Counters
<1>2. IsFiniteSet(UnreadFrom(report.class)) /\ UnreadFrom(report.class) \subseteq Classes
  BY ClassesFacts, FS_Subset DEF UnreadFrom
<1>3. \A c \in UnreadFrom(report.class) : stats.size_histogram[c] \in Nat
  BY <1>1, <1>2
<1>4. Unread \in Nat
  BY <1>2, <1>3, SumNat DEF Unread
<1>5. Cardinality(Threads \ {Main}) \in Nat
  BY ThreadsFacts, FS_RemoveElement, FS_CardinalityType
<1> QED
  BY <1>1, <1>4, <1>5

\* While the report is made other threads classify objects: what is still to be read
\* grows, and no faster than what has been classified.
LEMMA BoundedStep ==
    ASSUME CoreInv, Bounded, NEW t \in Threads, ThreadStep(t)
    PROVE  Bounded'
<1>0. BaseInv /\ TypeInv /\ report' = report /\ op[t].size \in Nat
  BY ReportFrame DEF CoreInv, BaseInv, TypeInv, Requests
<1>1. /\ Unread \in Nat /\ report.sizes \in Nat /\ report.class \in Nat
      /\ report.allocs \in Nat /\ report.reallocs \in Nat /\ history.classified \in Nat
      /\ stats.size_histogram \in [Classes -> Nat] /\ Cardinality(Threads \ {Main}) \in Nat
  BY <1>0, UnreadFacts
<1>2. ASSUME ClassifyObj(t)
      PROVE  /\ Unread' \in Nat /\ Unread <= Unread' /\ Unread' <= Unread + 1
             /\ history'.classified = history.classified + 1
  <2> DEFINE S == UnreadFrom(report.class)
             h == Classified(stats.size_histogram, op[t].size)
  <2>1. /\ stats'.size_histogram = h /\ history'.classified = history.classified + 1
    BY <1>0, <1>2, ClassifyCounts DEF TypeInv, Histories
  <2>2. S \in SUBSET Classes
    BY DEF UnreadFrom
  <2>3. Unread' = SumFunctionOnSet(h, S) /\ Unread = SumFunctionOnSet(stats.size_histogram, S)
    BY <1>0, <2>1 DEF Unread, UnreadFrom
  <2> HIDE DEF S
  <2>4. /\ SumFunctionOnSet(h, S) \in Nat
        /\ SumFunctionOnSet(stats.size_histogram, S) <= SumFunctionOnSet(h, S)
        /\ SumFunctionOnSet(h, S) <= SumFunctionOnSet(stats.size_histogram, S) + 1
    BY <1>0, <1>1, <2>2, ClassifiedPart
  <2> QED
    BY <2>1, <2>3, <2>4
<1>3. ASSUME ~ ClassifyObj(t)
      PROVE  Unread' = Unread /\ history'.classified = history.classified
  <2>1. stats'.size_histogram = stats.size_histogram
    BY <1>0, <1>3, StatsFrame, AllocCounts, DeallocCounts, InsertCounts, RemoveUnsafeCounts,
       MarkCounts
  <2>2. history'.classified = history.classified
    BY <1>3, ClassifiedStep
  <2> QED
    BY <1>0, <2>1, <2>2 DEF Unread, UnreadFrom
<1>4. /\ Unread' \in Nat /\ Unread <= Unread' /\ history'.classified \in Nat
      /\ Unread' - Unread <= history'.classified - history.classified
  BY <1>1, <1>2, <1>3
<1>5. /\ report.allocs + report.reallocs - Cardinality(Threads \ {Main}) <= report.sizes + Unread
      /\ report.sizes + Unread <= history.classified
  BY DEF Bounded
<1>6. /\ report.allocs + report.reallocs - Cardinality(Threads \ {Main}) <= report.sizes + Unread'
      /\ report.sizes + Unread' <= history'.classified
  BY <1>1, <1>4, <1>5
<1> QED
  BY <1>0, <1>6 DEF Bounded

\* A step of a thread leaves what has been read as it is.
LEMMA ReportStep ==
    ASSUME CoreInv, ReportInv, NEW t \in Threads, ThreadStep(t)
    PROVE  ReportInv'
<1>0. /\ BaseInv /\ TypeInv /\ report' = report /\ pc[Main] # "exited"
      /\ stats.total_alloc \in Nat /\ report.allocs \in Nat
  BY ReportFrame, NotExited, UnreadFacts DEF CoreInv, BaseInv
<1>1. pc'[Main] \in {"counters", "read", "exited"} => pc'[Main] = pc[Main]
  <2>1. CASE t = Main
    BY <1>0, <2>1, PlaceStep
  <2>2. CASE t # Main
    BY <1>0, <2>2, AsideOthers, ThreadsFacts DEF BaseInv
  <2> QED
    BY <2>1, <2>2
<1>2. pc[Main] = "read" => pc'[Main] = "read"
  <2>1. CASE t = Main
    BY <2>1, NotReading
  <2>2. CASE t # Main
    BY <1>0, <2>2, AsideOthers, ThreadsFacts DEF BaseInv
  <2> QED
    BY <2>1, <2>2
<1>3. stats'.total_alloc \in Nat /\ stats.total_alloc <= stats'.total_alloc
  BY <1>0, StatsFrame, AllocCounts, ClassifyCounts, DeallocCounts, InsertCounts,
     RemoveUnsafeCounts, MarkCounts
<1>4. pc[Main] = "read" => Bounded'
  BY BoundedStep DEF ReportInv
<1>5. pc'[Main] \notin {"read", "exited"} => report'.sizes = 0 /\ report'.class = 0
  BY <1>0, <1>2 DEF ReportInv
<1>6. pc'[Main] = "counters" => report'.allocs <= stats'.total_alloc
  BY <1>0, <1>1, <1>3 DEF ReportInv
<1>7. pc'[Main] = "read" => Bounded'
  BY <1>1, <1>4
<1>8. ReportConsistent'
  BY <1>0, <1>1 DEF ReportConsistent
<1> QED
  BY <1>5, <1>6, <1>7, <1>8 DEF ReportInv

\* Nobody but the other threads has counted an object and not classified it, when the
\* destructor reads the last counter.
LEMMA ReportDump ==
    ASSUME CoreInv, HistogramInv, ReportInv, DumpStep
    PROVE  ReportInv'
<1>0. /\ TypeInv /\ Main \in DOMAIN pc /\ Main \in Threads /\ report \in Reports
  BY ThreadsFacts DEF CoreInv, BaseInv, TypeInv
<1>1. /\ Unread \in Nat /\ report.sizes \in Nat /\ report.class \in Nat
      /\ report.allocs \in Nat /\ report.reallocs \in Nat /\ history.classified \in Nat
      /\ stats.size_histogram \in [Classes -> Nat] /\ stats.total_alloc \in Nat
      /\ stats.total_realloc \in Nat /\ Cardinality(Threads \ {Main}) \in Nat
  BY <1>0, UnreadFacts
<1>2. /\ stats'.size_histogram = stats.size_histogram /\ history'.classified = history.classified
      /\ stats'.total_alloc = stats.total_alloc
  BY <1>0, DumpKeeps
<1>3. CASE DumpStats
  <2>1. pc[Main] = "app" /\ pc'[Main] = "counters"
    BY <1>0, <1>3, DumpStatsEffect DEF Moves
  <2>2. report' = [report EXCEPT !.allocs = stats.total_alloc]
    BY <1>3, Zenon DEF DumpStats
  <2>3. /\ report'.allocs = stats.total_alloc /\ report'.sizes = report.sizes
        /\ report'.class = report.class
    BY <1>0, <2>2 DEF Reports
  <2>4. report.sizes = 0 /\ report.class = 0
    BY <2>1 DEF ReportInv
  <2> QED
    BY <1>1, <1>2, <2>1, <2>3, <2>4 DEF ReportInv, ReportConsistent
<1>4. CASE SetFlag
  <2>1. pc[Main] = "counters" /\ pc'[Main] = "read"
    BY <1>0, <1>4, SetFlagEffect DEF Moves
  <2>2. report' = [report EXCEPT !.reallocs = stats.total_realloc]
    BY <1>4, Zenon DEF SetFlag, PrepareFormat
  <2>3. /\ report'.allocs = report.allocs /\ report'.reallocs = stats.total_realloc
        /\ report'.sizes = 0 /\ report'.class = 0
    BY <1>0, <2>1, <2>2 DEF Reports, ReportInv
  <2> DEFINE sum == SumFunction(stats.size_histogram)
             others == Cardinality(Threads \ {Main})
             waiting == Cardinality(Unclassified)
  <2>4. Unread' = sum
    <3>1. UnreadFrom(0) = Classes
      <4>1. \A c \in Classes : c \in Nat
        BY ClassesFacts
      <4> QED
        BY <4>1 DEF UnreadFrom
    <3>2. sum = SumFunctionOnSet(stats.size_histogram, Classes)
      BY <1>1, HistogramFacts
    <3>3. Unread' = SumFunctionOnSet(stats.size_histogram, UnreadFrom(0))
      BY <1>2, <2>3 DEF Unread, UnreadFrom
    <3> QED
      BY <3>1, <3>2, <3>3
  <2>5. waiting <= others /\ waiting \in Nat /\ others \in Nat
    <3>1. Unclassified \subseteq Threads \ {Main}
      BY <2>1 DEF Unclassified
    <3>2. IsFiniteSet(Threads \ {Main})
      BY ThreadsFacts, FS_RemoveElement
    <3> QED
      BY <3>1, <3>2, FS_Subset, FS_CardinalityType
  <2>6. sum + waiting = stats.total_alloc + stats.total_realloc /\ sum = history.classified
    BY DEF HistogramInv
  <2>7. report.allocs <= stats.total_alloc
    BY <2>1 DEF ReportInv
  <2>8. sum \in Nat
    BY <1>1, HistogramFacts
  <2> HIDE DEF sum, others, waiting
  <2>9. report.allocs + stats.total_realloc - others <= 0 + sum /\ 0 + sum <= history.classified
    BY <1>1, <2>5, <2>6, <2>7, <2>8
  <2>10. Bounded'
    BY <1>2, <2>3, <2>4, <2>9 DEF Bounded, others
  <2> QED
    BY <2>1, <2>10 DEF ReportInv, ReportConsistent
<1>5. CASE ReadClass
  <2> DEFINE k == report.class
             h == stats.size_histogram
  <2>1. pc[Main] = "read" /\ k \in Classes
    BY <1>0, <1>5, ReadClassEffect DEF TypeInv
  <2>2. report' = [report EXCEPT !.sizes = @ + h[k], !.class = @ + 1]
    BY <1>5, Zenon DEF ReadClass
  <2>3. /\ report'.sizes = report.sizes + h[k] /\ report'.class = k + 1
        /\ report'.allocs = report.allocs /\ report'.reallocs = report.reallocs
    BY <1>0, <2>2 DEF Reports
  <2>4. UnreadFrom(k + 1) = UnreadFrom(k) \ {k} /\ k \in UnreadFrom(k) /\ UnreadFrom(k) \subseteq Classes
    <3>1. \A c \in Classes : c \in Nat
      BY ClassesFacts
    <3>2. \A c \in Classes : c >= k + 1 <=> c >= k /\ c # k
      BY <2>1, <3>1
    <3>3. k >= k
      BY <2>1, <3>1
    <3> QED
      BY <2>1, <3>2, <3>3 DEF UnreadFrom
  <2>5. SumFunctionOnSet(h, UnreadFrom(k)) = h[k] + SumFunctionOnSet(h, UnreadFrom(k) \ {k})
    <3>1. IsFiniteSet(UnreadFrom(k))
      BY <2>4, ClassesFacts, FS_Subset
    <3>2. \A c \in UnreadFrom(k) : h[c] \in Int
      BY <1>1, <2>4
    <3> QED
      BY <2>4, <3>1, <3>2, SumSplit
  <2>6. Unread' = SumFunctionOnSet(h, UnreadFrom(k + 1)) /\ Unread = SumFunctionOnSet(h, UnreadFrom(k))
    BY <1>2, <2>3 DEF Unread, UnreadFrom
  <2>7. h[k] \in Nat /\ SumFunctionOnSet(h, UnreadFrom(k) \ {k}) \in Nat
    <3>1. UnreadFrom(k) \ {k} \in SUBSET Classes
      BY <2>4
    <3>2. IsFiniteSet(UnreadFrom(k) \ {k})
      BY <3>1, ClassesFacts, FS_Subset
    <3>3. \A c \in UnreadFrom(k) \ {k} : h[c] \in Nat
      BY <1>1, <3>1
    <3> QED
      BY <1>1, <2>1, <3>2, <3>3, SumNat
  <2>8. report'.sizes + Unread' = report.sizes + Unread
    <3> DEFINE rest == SumFunctionOnSet(h, UnreadFrom(k) \ {k})
    <3>1. report'.sizes = report.sizes + h[k] /\ Unread' = rest /\ Unread = h[k] + rest
      BY <2>3, <2>4, <2>5, <2>6
    <3>2. report.sizes \in Nat /\ h[k] \in Nat /\ rest \in Nat
      BY <1>1, <2>7
    <3> HIDE DEF rest, h
    <3> QED
      BY <3>1, <3>2
  <2>9. Bounded'
    BY <1>2, <2>1, <2>3, <2>8 DEF Bounded, ReportInv
  <2>10. pc'[Main] = "read" \/ (pc'[Main] = "exited" /\ k + 1 \notin Classes)
    BY <1>0, <1>5, <2>1, ReadClassEffect DEF Moves
  <2>11. k + 1 \notin Classes => UnreadFrom(k + 1) = {}
    BY <2>1, BoundsFacts DEF UnreadFrom, Classes
  <2>12. pc'[Main] = "exited" => Unread' = 0
    BY <2>6, <2>10, <2>11, SumEmpty
  <2>13. ReportConsistent'
    <3>1. report'.sizes \in Nat
      BY <1>1, <2>3, <2>7
    <3>2. Unread' = 0 => report'.sizes + Unread' = report'.sizes
      BY <3>1
    <3> QED
      BY <2>9, <2>12, <3>2 DEF ReportConsistent, Bounded
  <2> QED
    BY <2>9, <2>10, <2>13 DEF ReportInv
<1> QED
  BY <1>3, <1>4, <1>5 DEF DumpStep

\* The report stays bounded.
LEMMA ReportNext == ASSUME CoreInv, HistogramInv, ReportInv, [Next]_vars PROVE ReportInv'
<1>1. CASE UNCHANGED vars
  BY <1>1, StutterFrame DEF ReportInv, ReportConsistent, Bounded, Unread
<1> QED
  BY <1>1, NextSteps, ReportStep, ReportDump DEF CoreInv, BaseInv

\* The report reads its counters and the classes of the histogram one after the other while
\* other threads add to them.  Whatever they do in the meantime, the classes it prints miss
\* at most one object per other thread of the allocations and reallocations it prints, and
\* hold only objects of the program, none of the strings that the report itself allocates.
THEOREM ReportExact == Spec => []ReportConsistent
<1>1. Init => CoreInv /\ HistogramInv /\ ReportInv
  <2>1. ASSUME Init PROVE ReportInv
    BY <2>1, ThreadsFacts DEF Init, ReportInv, ReportConsistent
  <2> QED
    BY <2>1, CoreInit, HistogramInit
<1>2. (CoreInv /\ HistogramInv /\ ReportInv) /\ [Next]_vars
        => (CoreInv /\ HistogramInv /\ ReportInv)'
  BY CoreNext, HistogramNext, ReportNext
<1>3. ReportInv => ReportConsistent
  BY DEF ReportInv
<1> QED
  BY <1>1, <1>2, <1>3, PTL DEF Spec
-----------------------------------------------------------------------------
(* What a realloc has given back, while it is not handed out again          *)

\* A realloc that has moved its block and not yet removed the old one from both maps.
Moving(t) == op[t].call = "realloc" /\ op[t].old \notin {None, op[t].new}

\* What a moving realloc has given back begins with its old block; it is no part of the
\* memory, and no two reallocs have given back the same.
GivenBack(t) ==
    /\ Moving(t) => op[t].old \in op[t].freed
    /\ \A b \in DOMAIN mem : op[t].freed \cap Bytes(b, mem[b]) = {}
FreedInv ==
    /\ \A t \in Threads : GivenBack(t)
    /\ \A t, u \in Threads : t # u => op[t].freed \cap op[u].freed = {}

\* A realloc moves until it has removed the old block from both maps.
LEMMA MovingPlace ==
    ASSUME BaseInv, NEW t \in Threads
    PROVE  Moving(t) <=> op[t].call = "realloc" /\ pc[t] \in Removing \cup RemovingUnsafe
<1>1. Called(t)
  BY DEF BaseInv, CallInv
<1> QED
  BY <1>1 DEF Called, Moving, Inserting, Removing, RemovingUnsafe

\* A call begins or ends to move only by its own steps.
LEMMA MovingStep ==
    ASSUME BaseInv, NEW t \in Threads, ThreadStep(t)
    PROVE  \/ Realloc(t)
           \/ op' = op
           \/ op'[t].freed = {} /\ ~ Moving(t)'
<1> USE DEF Asks, Moves
<1>0. Called(t) /\ op[t] \in Requests /\ t \in DOMAIN op /\ t \in DOMAIN pc
  BY DEF BaseInv, CallInv, TypeInv
<1>1. CASE Alloc(t) \/ Dealloc(t)
  BY <1>1, AllocFacts, DeallocFacts DEF BaseInv, Moving
<1>2. CASE SystemDealloc(t) \/ InsertObj(t) \/ AccessSafe(t) \/ MarkUnsafe(t)
  <2>1. op'[t] = NoOp
    BY <1>0, <1>2, SystemDeallocEffect, InsertObjEffect, AccessSafeEffect, MarkUnsafeEffect
       DEF BaseInv
  <2> QED
    BY <2>1 DEF NoOp, Moving
<1>3. CASE RemoveUnsafeObj(t)
  BY <1>0, <1>3, RemoveUnsafeObjEffect DEF Moving
<1>4. CASE Access(t)
  <2>1. PICK a : op'[t] = AccessRequest(a)
    BY <1>0, <1>4, AccessEffect
  <2> QED
    BY <2>1 DEF AccessRequest, Moving
<1>5. CASE FindHeapObj(t)
  <2>1. op[t].call = "access"
    BY <1>5, FindFacts
  <2>2. op'[t].freed = op[t].freed /\ op'[t].call = op[t].call
    BY <1>5, FindHeapObjEffect DEF BaseInv, TypeInv
  <2>3. op[t].freed = {}
    BY <1>0, <2>1 DEF Called
  <2> QED
    BY <2>1, <2>2, <2>3 DEF Moving
<1>6. LockInsert(t) \/ LockRemove(t) \/ LockRemoveUnsafe(t) \/ LockFind(t) \/ LockMark(t)
        \/ RemoveObj(t) \/ AccessUnsafe(t) \/ ClassifyObj(t) => op' = op
  BY LockInsertEffect, LockRemoveEffect, LockRemoveUnsafeEffect, LockFindEffect,
     LockMarkEffect, RemoveObjEffect, AccessUnsafeEffect, ClassifyObjEffect
<1> QED
  BY <1>1, <1>2, <1>3, <1>4, <1>5, <1>6 DEF ThreadStep

\* What a step takes is free of what has been given back.
LEMMA TakenFree ==
    ASSUME BaseInv, ReuseInWindow = FALSE, NEW t \in Threads, Alloc(t) \/ Realloc(t)
    PROVE  /\ op'[t].new \in DOMAIN mem'
           /\ op'[t].new \in Bytes(op'[t].new, mem'[op'[t].new])
           /\ \A u \in Threads : Bytes(op'[t].new, mem'[op'[t].new]) \cap op[u].freed = {}
<1>1. CASE Alloc(t)
  <2>1. PICK b \in Addrs, n \in Sizes :
          op'[t].new = b /\ Free(b, n, None) /\ mem' = Put(mem, b, n)
    BY <1>1, AllocFacts DEF BaseInv
  <2>2. b \in DOMAIN mem' /\ mem'[b] = n
    BY <2>1 DEF Put
  <2>3. b \in Bytes(b, n) /\ \A u \in Threads : Bytes(b, n) \cap op[u].freed = {}
    <3>1. b \in Bytes(b, n)
      BY BytesFacts, AddrFacts
    <3>2. \A u \in Threads : Bytes(b, n) \cap op[u].freed = {}
      BY <2>1, Zenon DEF Free
    <3> QED
      BY <3>1, <3>2
  <2> QED
    BY <2>1, <2>2, <2>3
<1>2. CASE Realloc(t)
  <2>1. PICK b \in DOMAIN mem, c \in Addrs, n \in Sizes : Reallocated(t, b, c, n)
    BY <1>2, ReallocFacts DEF BaseInv
  <2>2. c \in DOMAIN mem' /\ mem'[c] = n /\ op'[t].new = c
    BY <2>1 DEF Put, Reallocated
  <2>3. c \in Bytes(c, n) /\ \A u \in Threads : Bytes(c, n) \cap op[u].freed = {}
    <3>1. c \in Bytes(c, n)
      BY BytesFacts, AddrFacts
    <3>2. \A u \in Threads : Bytes(c, n) \cap op[u].freed = {}
      BY <2>1, Zenon DEF Free, Reallocated
    <3> QED
      BY <3>1, <3>2
  <2> QED
    BY <2>2, <2>3
<1> QED
  BY <1>1, <1>2

\* What the step of a realloc gives back.
LEMMA GivesBack ==
    ASSUME BaseInv, NEW t \in Threads, Realloc(t)
    PROVE  /\ op'[t].new = op'[t].old => op'[t].freed = {}
           /\ op'[t].new # op'[t].old =>
                /\ op'[t].old \in op'[t].freed
                /\ op'[t].freed = Bytes(op'[t].old, mem[op'[t].old])
                /\ op'[t].freed \cap Bytes(op'[t].new, mem'[op'[t].new]) = {}
<1>1. PICK b \in DOMAIN mem, c \in Addrs, n \in Sizes : Reallocated(t, b, c, n)
  BY ReallocFacts DEF BaseInv
<1>2. /\ op'[t].new = c /\ op'[t].old = b /\ mem'[c] = n
      /\ op'[t].freed = IF c = b THEN {} ELSE Bytes(b, mem[b])
  BY <1>1 DEF Reallocated, Put
<1>3. mem[b] \in Sizes /\ b \in Addrs
  BY DEF BaseInv, TypeInv
<1>4. b \in Bytes(b, mem[b])
  BY <1>3, BytesFacts, AddrFacts
<1>5. c # b => Bytes(b, mem[b]) \cap Bytes(c, n) = {}
  BY <1>1 DEF Reallocated, Overlap
<1> QED
  BY <1>2, <1>4, <1>5

\* Memory that has been given back stays free until the realloc is recorded.
LEMMA FreedStep ==
    ASSUME CoreInv, FreedInv, ReuseInWindow = FALSE, NEW t \in Threads, ThreadStep(t)
    PROVE  FreedInv'
<1>0. BaseInv /\ BlockInv
  BY DEF CoreInv, BaseInv
<1>1. \A u \in Threads \ {t} : op'[u] = op[u]
  BY <1>0, AsideOthers DEF BaseInv
<1>2. ASSUME NEW u \in Threads, NEW b \in DOMAIN mem'
      PROVE  op[u].freed \cap Bytes(b, mem'[b]) = {}
  <2>1. CASE b \in DOMAIN mem /\ mem'[b] = mem[b]
    BY <2>1 DEF FreedInv, GivenBack
  <2>2. CASE (Alloc(t) \/ Realloc(t)) /\ b = op'[t].new
    BY <1>0, <2>2, TakenFree
  <2>3. (b \in DOMAIN mem /\ mem'[b] = mem[b]) \/ ((Alloc(t) \/ Realloc(t)) /\ b = op'[t].new)
    BY <1>0, MemStep, FreshStep
  <2> QED
    BY <2>1, <2>2, <2>3
<1>3. CASE Realloc(t) /\ op'[t].new # op'[t].old
  <2> DEFINE b == op'[t].old
  <2>1. /\ b \in DOMAIN mem /\ b \in op'[t].freed /\ op'[t].freed = Bytes(b, mem[b])
        /\ b \notin DOMAIN mem'
        /\ op'[t].freed \cap Bytes(op'[t].new, mem'[op'[t].new]) = {}
    BY <1>0, <1>3, GivesBack, FreshStep
  <2> HIDE DEF b
  <2>2. ASSUME NEW c \in DOMAIN mem' PROVE op'[t].freed \cap Bytes(c, mem'[c]) = {}
    <3>1. (c \in DOMAIN mem /\ mem'[c] = mem[c]) \/ c = op'[t].new
      BY <1>0, MemStep, FreshStep
    <3>2. c # b
      BY <2>1
    <3> QED
      BY <1>0, <2>1, <3>1, <3>2 DEF BlockInv
  <2>3. GivenBack(t)'
    BY <2>1, <2>2 DEF GivenBack, b
  <2>4. \A u \in Threads \ {t} : GivenBack(u)'
    BY <1>1, <1>2 DEF FreedInv, GivenBack, Moving
  <2>5. \A u \in Threads \ {t} : op'[t].freed \cap op'[u].freed = {}
    BY <1>1, <2>1 DEF FreedInv, GivenBack
  <2>6. \A u, v \in Threads \ {t} : u # v => op'[v].freed \cap op'[u].freed = {}
    BY <1>1 DEF FreedInv
  <2> QED
    BY <2>3, <2>4, <2>5, <2>6 DEF FreedInv
<1>4. CASE op'[t].freed = {} /\ ~ Moving(t)'
  <2>1. \A u \in Threads : GivenBack(u)'
    BY <1>1, <1>2, <1>4 DEF FreedInv, GivenBack, Moving
  <2> QED
    BY <1>1, <1>4, <2>1 DEF FreedInv
<1>5. CASE op' = op
  BY <1>2, <1>5 DEF FreedInv, GivenBack, Moving
<1>6. Realloc(t) /\ op'[t].new = op'[t].old => op'[t].freed = {} /\ ~ Moving(t)'
  BY <1>0, GivesBack DEF Moving
<1> QED
  BY <1>0, <1>3, <1>4, <1>5, <1>6, MovingStep
-----------------------------------------------------------------------------
(* The map of live objects                                                  *)

\* Loose blocks are in the map with their sizes; what else is in it is held by a call, or
\* has been moved by a realloc that has not yet removed it.
MapInv ==
    /\ \A b \in Loose : b \in DOMAIN live_objs /\ live_objs[b] = mem[b]
    /\ \A b \in DOMAIN live_objs :
         b \in DOMAIN mem \/ \E t \in Threads : Moving(t) /\ pc[t] \in Removing /\ op[t].old = b
    /\ \A t \in Threads :
         op[t].call = "dealloc" /\ pc[t] \notin Removing => op[t].old \notin DOMAIN live_objs
\* The inductive invariant for the map.
TrackInv == CoreInv /\ FreedInv /\ MapInv

\* What is removed is the old block of the call.
LEMMA RemoveFacts ==
    ASSUME BaseInv, NEW t \in Threads, RemoveObj(t)
    PROVE  /\ live_objs' = Drop(live_objs, op[t].old) /\ op' = op /\ mem' = mem
           /\ pc[t] = "removing" /\ pc'[t] = "remove unsafe"
           /\ op[t].call = "dealloc" \/ Moving(t)
<1>0. Called(t) /\ op[t] \in Requests /\ t \in DOMAIN pc
  BY DEF BaseInv, CallInv, TypeInv
<1>1. pc[t] = "removing" /\ pc'[t] = "remove unsafe" /\ op' = op /\ mem' = mem
  BY <1>0, RemoveObjEffect DEF Moves
<1>2. live_objs' = Drop(live_objs, op[t].old)
  BY DEF RemoveObj
<1>3. op[t].call \in {"dealloc", "realloc"}
  BY <1>0, <1>1 DEF Called, Idle, Inserting, Removing, RemovingUnsafe, Searching, Found, Requests
<1>4. op[t].call = "realloc" => Moving(t)
  BY <1>1, MovingPlace DEF Removing
<1> QED
  BY <1>1, <1>2, <1>3, <1>4

\* What is gone from the memory is at no address of a block.
LEMMA GivenBackGone ==
    ASSUME BaseInv, FreedInv, NEW t \in Threads, Moving(t)
    PROVE  /\ op[t].old \notin DOMAIN mem
           /\ \A b \in DOMAIN mem : op[t].old \notin Bytes(b, mem[b])
<1>1. op[t].old \in op[t].freed /\ \A b \in DOMAIN mem : op[t].freed \cap Bytes(b, mem[b]) = {}
  BY DEF FreedInv, GivenBack
<1>2. \A b \in DOMAIN mem : b \in Bytes(b, mem[b])
  <2> SUFFICES ASSUME NEW b \in DOMAIN mem PROVE b \in Bytes(b, mem[b])
    OBVIOUS
  <2>1. b \in Addrs /\ mem[b] \in Sizes
    BY DEF BaseInv, TypeInv
  <2>2. b \in Int
    BY <2>1, AddrFacts
  <2> QED
    BY <2>1, <2>2, BytesFacts, Zenon
<1> QED
  BY <1>1, <1>2

\* A call of realloc or dealloc leaves its first place by the removal.
LEMMA RemovingStep ==
    ASSUME BaseInv, NEW t \in Threads, ThreadStep(t), pc[t] \in Removing
    PROVE  op' = op /\ (pc'[t] \in Removing \/ RemoveObj(t))
<1> USE DEF Moves, Removing
<1>0. t \in DOMAIN pc /\ op[t] \in Requests
  BY DEF BaseInv, TypeInv
<1>1. ~ Alloc(t) /\ ~ ClassifyObj(t) /\ ~ Dealloc(t) /\ ~ Realloc(t)
  BY AllocEffect, ClassifyObjEffect, DeallocEffect, ReallocEffect
<1>2. ~ SystemDealloc(t) /\ ~ LockInsert(t) /\ ~ LockRemoveUnsafe(t) /\ ~ LockFind(t) /\ ~ LockMark(t)
  BY SystemDeallocEffect, LockInsertEffect, LockRemoveUnsafeEffect, LockFindEffect, LockMarkEffect
<1>3. ~ InsertObj(t) /\ ~ RemoveUnsafeObj(t) /\ ~ Access(t)
  BY <1>0, InsertObjEffect, RemoveUnsafeObjEffect, AccessEffect DEF BaseInv
<1>4. ~ FindHeapObj(t) /\ ~ AccessSafe(t) /\ ~ AccessUnsafe(t) /\ ~ MarkUnsafe(t)
  BY FindFacts, AccessSafeEffect, AccessUnsafeEffect, MarkUnsafeEffect
<1> QED
  BY <1>0, <1>1, <1>2, <1>3, <1>4, LockRemoveEffect, RemoveObjEffect DEF ThreadStep

\* How a step changes the map.
LEMMA MapStep ==
    ASSUME BaseInv, NEW t \in Threads, ThreadStep(t)
    PROVE  /\ \A b \in DOMAIN live_objs :
                \/ RemoveObj(t) /\ b = op[t].old
                \/ InsertObj(t) /\ b = op[t].new
                \/ b \in DOMAIN live_objs' /\ live_objs'[b] = live_objs[b]
           /\ \A b \in DOMAIN live_objs' :
                b \in DOMAIN live_objs \/ (InsertObj(t) /\ b = op[t].new)
           /\ InsertObj(t) => /\ op[t].new \in DOMAIN live_objs'
                              /\ live_objs'[op[t].new] = mem[op[t].new]
           /\ RemoveObj(t) => op[t].old \notin DOMAIN live_objs'
<1>0. InsertObj(t) => op'[t] = NoOp /\ op[t].call \in {"alloc", "realloc"}
  BY InsertFacts
<1>1. CASE InsertObj(t)
  <2>1. /\ live_objs' = Put(live_objs, op[t].new, op[t].size)
        /\ mem[op[t].new] = op[t].size
    BY <1>1, InsertFacts
  <2>2. ~ RemoveObj(t)
    BY <1>1, InsertObjEffect, RemoveObjEffect DEF Moves, BaseInv
  <2> QED
    BY <1>1, <2>1, <2>2 DEF Put
<1>2. CASE RemoveObj(t)
  <2>1. live_objs' = Drop(live_objs, op[t].old)
    BY <1>2, RemoveFacts
  <2>2. ~ InsertObj(t)
    BY <1>2, InsertObjEffect, RemoveObjEffect DEF Moves, BaseInv
  <2> QED
    BY <1>2, <2>1, <2>2 DEF Drop, Restrict
<1>3. CASE live_objs' = live_objs /\ ~ InsertObj(t) /\ ~ RemoveObj(t)
  BY <1>3
<1> QED
  BY <1>1, <1>2, <1>3, MapFrame

\* A block that becomes loose has been put into the map; a step removes no other.
LEMMA TrackedStep ==
    ASSUME TrackInv, NEW t \in Threads, ThreadStep(t)
    PROVE  MapInv'
<1>0. BaseInv /\ FreedInv /\ MapInv /\ DOMAIN mem' \subseteq Addrs
  BY CoreStep DEF TrackInv, CoreInv, BaseInv, TypeInv
<1>1. \A u \in Threads \ {t} : op'[u] = op[u] /\ pc'[u] = pc[u]
  BY <1>0, AsideOthers DEF BaseInv
<1>2. ASSUME NEW b \in Loose' PROVE b \in DOMAIN live_objs' /\ live_objs'[b] = mem'[b]
  <2>1. /\ b \in Loose \/ (InsertObj(t) /\ b = op[t].new)
        /\ b \in DOMAIN mem /\ mem'[b] = mem[b]
    BY <1>0, LooseStep
  <2>2. CASE InsertObj(t) /\ b = op[t].new
    BY <1>0, <2>1, <2>2, MapStep
  <2>3. CASE b \in Loose /\ ~ (InsertObj(t) /\ b = op[t].new)
    <3>1. b \in DOMAIN live_objs /\ live_objs[b] = mem[b]
      BY <1>0, <2>3 DEF MapInv
    <3>2. ~ (RemoveObj(t) /\ b = op[t].old)
      <4>1. SUFFICES ASSUME RemoveObj(t), b = op[t].old PROVE FALSE
        OBVIOUS
      <4>2. op[t].call = "dealloc" \/ Moving(t)
        BY <1>0, <4>1, RemoveFacts
      <4>3. CASE op[t].call = "dealloc"
        BY <2>3, <4>1, <4>3 DEF Loose, Holds
      <4>4. CASE Moving(t)
        BY <1>0, <2>1, <4>1, <4>4, GivenBackGone
      <4> QED
        BY <4>2, <4>3, <4>4
    <3> QED
      BY <1>0, <2>1, <2>3, <3>1, <3>2, MapStep
  <2> QED
    BY <2>1, <2>2, <2>3
<1>3. ASSUME NEW b \in DOMAIN live_objs', b \notin DOMAIN mem'
      PROVE  \E u \in Threads : (Moving(u) /\ pc[u] \in Removing /\ op[u].old = b)'
  <2>1. b \in DOMAIN live_objs
    <3>1. InsertObj(t) => op[t].new \in DOMAIN mem'
      BY <1>0, InsertFacts
    <3> QED
      BY <1>0, <1>3, <3>1, MapStep
  <2>2. CASE b \in DOMAIN mem
    <3>1. (Realloc(t) /\ b = op'[t].old) \/ (SystemDealloc(t) /\ b = op[t].old)
      BY <1>0, <1>3, <2>2, MemStep
    <3>2. CASE Realloc(t) /\ b = op'[t].old
      <4>1. op'[t].call = "realloc" /\ op'[t].new \in DOMAIN mem'
        <5>1. PICK c \in DOMAIN mem, d \in Addrs, n \in Sizes : Reallocated(t, c, d, n)
          BY <1>0, <3>2, ReallocFacts DEF BaseInv
        <5> QED
          BY <5>1 DEF Reallocated, Put
      <4>2. b # None
        BY <1>0, <2>2, AddrFacts DEF BaseInv, TypeInv
      <4>3. Moving(t)'
        BY <1>3, <3>2, <4>1, <4>2 DEF Moving
      <4>4. pc'[t] = "remove"
        <5>1. PICK c \in DOMAIN mem, d \in Addrs, n \in Sizes : Reallocated(t, c, d, n)
          BY <1>0, <3>2, ReallocFacts DEF BaseInv
        <5> QED
          BY <1>3, <3>2, <4>1, <5>1 DEF Reallocated
      <4> QED
        BY <3>2, <4>3, <4>4 DEF Removing
    <3>3. CASE SystemDealloc(t) /\ b = op[t].old
      <4>1. op[t].call = "dealloc" /\ pc[t] = "free"
        BY <1>0, <3>3, SystemDeallocHistory
      <4> QED
        BY <1>0, <2>1, <3>3, <4>1 DEF MapInv, Removing
    <3> QED
      BY <3>1, <3>2, <3>3
  <2>3. CASE b \notin DOMAIN mem
    <3>1. PICK u \in Threads : Moving(u) /\ pc[u] \in Removing /\ op[u].old = b
      BY <1>0, <2>1, <2>3 DEF MapInv
    <3>2. CASE u # t
      BY <1>1, <3>1, <3>2 DEF Moving
    <3>3. CASE u = t
      <4>1. op' = op /\ (pc'[t] \in Removing \/ RemoveObj(t))
        BY <1>0, <3>1, <3>3, RemovingStep
      <4>2. ~ RemoveObj(t)
        BY <1>0, <1>3, <3>1, <3>3, MapStep
      <4> QED
        BY <3>1, <3>3, <4>1, <4>2 DEF Moving
    <3> QED
      BY <3>2, <3>3
  <2> QED
    BY <2>2, <2>3
<1>4. ASSUME NEW u \in Threads, op'[u].call = "dealloc", pc'[u] \notin Removing
      PROVE  op'[u].old \notin DOMAIN live_objs'
  <2>1. CASE u # t
    <3>1. op[u].call = "dealloc" /\ pc[u] \notin Removing /\ op'[u].old = op[u].old
      BY <1>1, <1>4, <2>1
    <3>2. op[u].old \notin DOMAIN live_objs /\ op[u].old \in DOMAIN mem
      BY <1>0, <3>1 DEF MapInv, BaseInv, HeldInv, Held
    <3>3. InsertObj(t) => op[t].new # op[u].old
      <4>1. Holds(u, op[u].old) /\ Holds(t, op[t].new)
        BY <3>1 DEF Holds
      <4> QED
        BY <1>0, <2>1, <3>2, <4>1 DEF BaseInv, AloneInv
    <3> QED
      BY <1>0, <3>1, <3>2, <3>3, MapStep
  <2>2. CASE u = t
    <3>1. op' = op
      <4>0. Called(t) /\ op[t] \in Requests /\ t \in DOMAIN op
        BY <1>0 DEF BaseInv, CallInv, TypeInv
      <4>1. ~ Alloc(t) /\ ~ Dealloc(t) /\ ~ Realloc(t)
        BY <1>0, <1>4, <2>2, AllocFacts, DeallocFacts, ReallocFacts DEF Reallocated, BaseInv,
           Removing
      <4>2. ~ (SystemDealloc(t) \/ InsertObj(t) \/ AccessSafe(t) \/ MarkUnsafe(t))
        BY <1>0, <1>4, <2>2, <4>0, SystemDeallocEffect, InsertObjEffect, AccessSafeEffect,
           MarkUnsafeEffect DEF BaseInv, Asks, NoOp
      <4>3. ~ Access(t)
        <5>1. Access(t) => op'[t].call = "access"
          BY <4>0, AccessEffect DEF Asks, AccessRequest
        <5> QED
          BY <1>4, <2>2, <5>1
      <4>4. ~ FindHeapObj(t)
        BY <1>0, <1>4, <2>2, FindFacts, FindHeapObjEffect DEF BaseInv, TypeInv
      <4>5. RemoveUnsafeObj(t) => op' = op
        BY <1>4, <2>2, <4>0, RemoveUnsafeObjEffect DEF Asks
      <4> QED
        BY <4>1, <4>2, <4>3, <4>4, <4>5, LockInsertEffect, LockRemoveEffect, LockRemoveUnsafeEffect,
           LockFindEffect, LockMarkEffect, RemoveObjEffect, AccessUnsafeEffect, ClassifyObjEffect DEF ThreadStep
    <3>2. CASE pc[t] \in Removing
      <4>1. RemoveObj(t)
        BY <1>0, <1>4, <2>2, <3>2, RemovingStep
      <4> QED
        BY <1>0, <2>2, <3>1, <4>1, MapStep
    <3>3. CASE pc[t] \notin Removing
      <4>1. op[t].old \notin DOMAIN live_objs
        BY <1>0, <1>4, <2>2, <3>1, <3>3 DEF MapInv
      <4>2. ~ InsertObj(t)
        BY <1>0, <1>4, <2>2, InsertFacts DEF NoOp
      <4> QED
        BY <1>0, <2>2, <3>1, <4>1, <4>2, MapStep
    <3> QED
      BY <3>2, <3>3
  <2> QED
    BY <2>1, <2>2
<1> QED
  BY <1>2, <1>3, <1>4 DEF MapInv

\* The destructor disturbs no place but idle ones.
LEMMA DumpAside ==
    ASSUME TypeInv, DumpStep \/ UNCHANGED vars
    PROVE  /\ mem' = mem /\ live_objs' = live_objs /\ live_unsafe_objs' = live_unsafe_objs
           /\ op' = op
           /\ history'.touched = history.touched /\ history'.firsts = history.firsts
           /\ \A t \in Threads : pc'[t] = pc[t] \/ (pc[t] \in Idle /\ pc'[t] \in Idle)
BY DumpFrame, DumpKeeps, DumpPlaces, StutterFrame

\* The invariant for the map is inductive.
LEMMA TrackNext ==
    ASSUME TrackInv, ReuseInWindow = FALSE, [Next]_vars
    PROVE  TrackInv'
<1>1. CoreInv'
  BY CoreNext DEF TrackInv
<1>2. CASE \E t \in Threads : ThreadStep(t)
  BY <1>1, <1>2, FreedStep, TrackedStep DEF TrackInv
<1>3. CASE DumpStep \/ UNCHANGED vars
  <2>1. /\ mem' = mem /\ live_objs' = live_objs /\ op' = op
        /\ \A t \in Threads : pc'[t] = pc[t] \/ (pc[t] \in Idle /\ pc'[t] \in Idle)
    BY <1>3, DumpAside DEF TrackInv, CoreInv, BaseInv
  <2>2. \A t \in Threads : pc'[t] \in Removing <=> pc[t] \in Removing
    BY <2>1 DEF Idle, Removing
  <2>3. FreedInv'
    BY <2>1 DEF TrackInv, FreedInv, GivenBack, Moving
  <2>4. MapInv'
    BY <2>1, <2>2 DEF TrackInv, MapInv, Moving, Loose, Holds
  <2> QED
    BY <1>1, <2>3, <2>4 DEF TrackInv
<1> QED
  BY <1>2, <1>3, NextSteps DEF TrackInv, CoreInv, BaseInv

\* It holds at the start.
LEMMA TrackInit == ASSUME Init PROVE TrackInv
<1>1. FreedInv
  BY DEF Init, NoOp, FreedInv, GivenBack, Moving
<1>2. MapInv
  <2>1. DOMAIN mem = {} /\ DOMAIN live_objs = {} /\ \A t \in Threads : op[t].call = "none"
    BY DEF Init, NoOp
  <2> QED
    BY <2>1 DEF MapInv, Loose
<1> QED
  BY <1>1, <1>2, CoreInit DEF TrackInv

\* The map follows the memory through alloc, dealloc and realloc, while no memory is
\* handed out again before the realloc that gave it back is recorded.
THEOREM TrackInvariant ==
    ASSUME ReuseInWindow = FALSE
    PROVE  Spec => []TrackInv
BY TrackInit, TrackNext, PTL DEF Spec

\* "ranges of all active heap objects": while no memory is handed out again before the realloc
\* that gave it back is recorded, every object that no call is at work on is in the
\* map with its size, and what else is in the map is about to be removed.
THEOREM MapExact ==
    ASSUME ReuseInWindow = FALSE
    PROVE  Spec => []LiveTracked
<1>1. ASSUME TrackInv PROVE LiveTracked
  <2>1. Settled = Loose
    BY <1>1, SettledLoose DEF TrackInv, CoreInv, BaseInv
  <2> QED
    BY <1>1, <2>1 DEF TrackInv, MapInv, LiveTracked
<1> QED
  BY <1>1, TrackInvariant, PTL
-----------------------------------------------------------------------------
(* Lookups                                                                  *)

\* What has been found, from the lookup to the insertion: the loose block that holds
\* the address, and its size.
Looked(t) ==
    pc[t] \in Found =>
      IF op[t].addr \in NotHeap THEN op[t].found = None
      ELSE /\ op[t].found \in Loose /\ op[t].addr \in Bytes(op[t].found, mem[op[t].found])
           /\ op[t].size = mem[op[t].found]
LookInv == \A t \in Threads : Looked(t)

\* What has been found stays what is accessed.
LEMMA LookStep ==
    ASSUME TrackInv, LookInv, NEW t \in Threads, ThreadStep(t)
    PROVE  LookInv'
<1>0. /\ BaseInv /\ CoreInv /\ FreedInv /\ MapInv /\ DOMAIN mem' \subseteq Addrs
      /\ DOMAIN mem \subseteq Addrs
  BY CoreStep DEF TrackInv, CoreInv, BaseInv, TypeInv
<1>1. \A u \in Threads \ {t} : op'[u] = op[u] /\ pc'[u] = pc[u]
  BY <1>0, AsideOthers DEF BaseInv
\* what was found stays
<1>2. ASSUME NEW u \in Threads, pc[u] \in Found, op'[u] = op[u], pc'[u] \in Found
      PROVE  Looked(u)'
  <2>1. CASE op[u].addr \in NotHeap
    BY <1>2, <2>1 DEF LookInv, Looked
  <2>2. CASE op[u].addr \notin NotHeap
    <3> DEFINE b == op[u].found
    <3>1. b \in Loose /\ op[u].addr \in Bytes(b, mem[b]) /\ op[u].size = mem[b]
      BY <1>2, <2>2 DEF LookInv, Looked
    <3>2. op[u].call = "access"
      <4>1. Called(u) /\ op[u] \in Requests
        BY <1>0 DEF BaseInv, CallInv, TypeInv
      <4> QED
        BY <1>2, <4>1 DEF Called, Idle, Inserting, Removing, RemovingUnsafe, Searching, Found,
           Requests
    <3> HIDE DEF b
    <3>3. Users(b) # {}
      BY <3>1, <3>2, UnusedBlock
    <3>4. b \in Loose' /\ mem'[b] = mem[b]
      BY <1>0, <3>1, <3>3, LooseStep
    <3> QED
      BY <1>2, <2>2, <3>1, <3>4 DEF Looked, b
  <2> QED
    BY <2>1, <2>2
\* what is found
<1>3. ASSUME FindHeapObj(t) PROVE Looked(t)'
  <2>1. /\ op[t].call = "access" /\ op[t].addr \in Addrs /\ op'[t].addr = op[t].addr
        /\ op'[t].found = Lookup(op[t].addr) /\ pc'[t] = "found"
        /\ op'[t].found # None => op'[t].size = live_objs[op'[t].found]
    BY <1>0, <1>3, FindFacts
  <2>2. CASE op[t].addr \in NotHeap
    <3>1. Finding(t)'
      BY <1>0, FindingStep DEF FindingInv
    <3> QED
      BY <2>1, <2>2, <3>1 DEF Finding, Looked, Found
  <2>3. CASE op[t].addr \notin NotHeap
    <3> DEFINE a == op[t].addr
               b == Object(a)
    <3>1. b \in Loose /\ a \in Bytes(b, mem[b])
      BY <1>0, <2>1, <2>3, ObjectFacts
    <3>2. b \in DOMAIN live_objs /\ live_objs[b] = mem[b] /\ b \in DOMAIN mem
      BY <1>0, <3>1 DEF MapInv, Loose
    <3>3. ASSUME NEW c \in DOMAIN live_objs, c \in Bytes(b, mem[b]) PROVE c = b
      <4>1. CASE c \in DOMAIN mem
        <5>1. c \in Addrs /\ mem[c] \in Sizes
          BY <1>0, <4>1 DEF BaseInv, TypeInv
        <5>2. c \in Bytes(c, mem[c])
          <6>1. c \in Int
            BY <5>1, AddrFacts
          <6> QED
            BY <5>1, <6>1, BytesFacts, Zenon
        <5> QED
          BY <1>0, <3>2, <3>3, <4>1, <5>2 DEF BaseInv, BlockInv
      <4>2. CASE c \notin DOMAIN mem
        <5>1. PICK u \in Threads : Moving(u) /\ op[u].old = c
          BY <1>0, <4>2 DEF MapInv
        <5> QED
          BY <1>0, <3>2, <3>3, <5>1, GivenBackGone
      <4> QED
        BY <4>1, <4>2
    <3> HIDE DEF b
    <3>4. Lookup(a) = b
      <4>1. live_objs \in [DOMAIN live_objs -> Sizes] /\ DOMAIN live_objs \subseteq Addrs
        BY <1>0 DEF BaseInv, TypeInv
      <4>2. \A c \in DOMAIN live_objs : c \in Bytes(b, live_objs[b]) => c = b
        BY <3>2, <3>3
      <4>3. a \in Bytes(b, live_objs[b]) /\ a \in Addrs
        BY <2>1, <3>1, <3>2
      <4> HIDE DEF a
      <4> QED
        BY <3>2, <4>1, <4>2, <4>3, LookupFacts
    <3>5. mem' = mem /\ b # None
      <4>1. mem' = mem
        BY <1>0, <1>3, FindHeapObjEffect DEF BaseInv, TypeInv
      <4>2. b # None
        BY <1>0, <3>2, AddrFacts
      <4> QED
        BY <4>1, <4>2
    <3>6. b \in Loose'
      <4>1. ~ Dealloc(t) /\ ~ Realloc(t)
        <5>1. pc'[t] = "found"
          BY <2>1
        <5> QED
          BY <1>0, <5>1, DeallocFacts, ReallocFacts DEF BaseInv, Reallocated
      <4> QED
        BY <1>0, <3>1, <4>1, LooseStep
    <3> QED
      BY <2>1, <2>3, <3>1, <3>2, <3>4, <3>5, <3>6 DEF Looked
  <2> QED
    BY <2>2, <2>3
<1>4. ASSUME NEW u \in Threads PROVE Looked(u)'
  <2>1. CASE pc'[u] \notin Found
    BY <2>1 DEF Looked
  <2>2. CASE u # t /\ pc'[u] \in Found
    BY <1>1, <1>2, <2>2
  <2>3. CASE u = t /\ pc'[t] \in Found
    BY <1>0, <1>2, <1>3, <2>3, FoundStep DEF Found
  <2> QED
    BY <2>1, <2>2, <2>3
<1> QED
  BY <1>4 DEF LookInv

\* With the invariant for the map, that of the lookups is inductive.
LEMMA LookNext ==
    ASSUME TrackInv, LookInv, [Next]_vars
    PROVE  LookInv'
<1>1. CASE \E t \in Threads : ThreadStep(t)
  BY <1>1, LookStep
<1>2. CASE DumpStep \/ UNCHANGED vars
  <2>1. /\ mem' = mem /\ op' = op
        /\ \A t \in Threads : pc'[t] = pc[t] \/ (pc[t] \in Idle /\ pc'[t] \in Idle)
    BY <1>2, DumpAside DEF TrackInv, CoreInv, BaseInv
  <2>2. \A t \in Threads : pc'[t] \in Found => pc[t] \in Found
    BY <2>1 DEF Idle, Found
  <2>3. Loose' = Loose
    BY <2>1 DEF Loose, Holds
  <2> QED
    BY <2>1, <2>2, <2>3 DEF LookInv, Looked
<1> QED
  BY <1>1, <1>2, NextSteps DEF TrackInv, CoreInv, BaseInv

\* What find_heap_obj has found stays the accessed object and its size until the hook ends.
THEOREM LookInvariant ==
    ASSUME ReuseInWindow = FALSE
    PROVE  Spec => [](TrackInv /\ LookInv)
<1>1. Init => TrackInv /\ LookInv
  <2>1. Init => LookInv
    BY DEF Init, LookInv, Looked, Found
  <2> QED
    BY <2>1, TrackInit
<1>2. (TrackInv /\ LookInv) /\ [Next]_vars => (TrackInv /\ LookInv)'
  BY TrackNext, LookNext
<1> QED
  BY <1>1, <1>2, PTL DEF Spec

\* A lookup finds the object that is accessed, or none for other memory, also while
\* other threads move, shrink and grow the objects next to it.
THEOREM LookupExact ==
    ASSUME ReuseInWindow = FALSE
    PROVE  Spec => []LookupRight
<1>1. ASSUME TrackInv, LookInv PROVE LookupRight
  <2> SUFFICES ASSUME NEW t \in Threads, pc[t] = "found" PROVE op[t].found = Object(op[t].addr)
    BY DEF LookupRight
  <2>1. Called(t) /\ op[t] \in Requests /\ BaseInv /\ BlockInv
    BY <1>1 DEF TrackInv, CoreInv, BaseInv, CallInv, TypeInv
  <2>2. op[t].call = "access"
    BY <2>1 DEF Called, Idle, Inserting, Removing, RemovingUnsafe, Searching, Found, Requests
  <2>3. Looked(t)
    BY <1>1 DEF LookInv
  <2>4. CASE op[t].addr \in NotHeap
    BY <2>1, <2>2, <2>3, <2>4, ObjectFacts DEF Looked, Found
  <2>5. CASE op[t].addr \notin NotHeap
    <3>1. op[t].found \in DOMAIN mem /\ op[t].addr \in Bytes(op[t].found, mem[op[t].found])
      BY <2>3, <2>5 DEF Looked, Found, Loose
    <3>2. /\ Object(op[t].addr) \in DOMAIN mem
          /\ op[t].addr \in Bytes(Object(op[t].addr), mem[Object(op[t].addr)])
      BY <2>1, <2>2, <2>5, ObjectFacts DEF Loose
    <3> QED
      BY <2>1, <3>1, <3>2 DEF BlockInv
  <2> QED
    BY <2>4, <2>5
<1> QED
  BY <1>1, LookInvariant, PTL
-----------------------------------------------------------------------------
(* The number of objects                                                    *)

\* Blocks that no dealloc has counted.
Kept == {b \in DOMAIN mem : \A t \in Threads : ~ (op[t].call = "dealloc" /\ op[t].old = b)}
\* They are as many as have been allocated and not deallocated.
CountInv == Cardinality(Kept) = stats.total_alloc - stats.total_dealloc

\* They are finitely many.
LEMMA KeptFacts ==
    ASSUME TypeInv
    PROVE  IsFiniteSet(Kept) /\ Cardinality(Kept) \in Nat
<1>1. IsFiniteSet(DOMAIN mem)
  BY AddrFacts, FS_Subset DEF TypeInv
<1>2. IsFiniteSet(Kept)
  BY <1>1, FS_Subset DEF Kept
<1> QED
  BY <1>2, FS_CardinalityType

\* A dealloc is under way until it has given its block back.
LEMMA DeallocStep ==
    ASSUME BaseInv, NEW t \in Threads, ThreadStep(t)
    PROVE  \/ Dealloc(t)
           \/ SystemDealloc(t)
           \/ op' = op
           \/ op[t].call # "dealloc" /\ op'[t].call # "dealloc"
<1> USE DEF Moves, Asks
<1>0. Called(t) /\ op[t] \in Requests /\ t \in DOMAIN op /\ t \in DOMAIN pc
  BY DEF BaseInv, CallInv, TypeInv
<1>1. pc[t] \notin Removing \cup RemovingUnsafe \cup {"free"} => op[t].call # "dealloc"
  BY <1>0 DEF Called
<1>2. CASE Alloc(t)
  BY <1>1, <1>2, AllocFacts DEF BaseInv, Removing, RemovingUnsafe
<1>3. CASE Realloc(t)
  BY <1>1, <1>3, ReallocFacts DEF BaseInv, Reallocated, Removing, RemovingUnsafe
<1>4. CASE InsertObj(t) \/ AccessSafe(t) \/ MarkUnsafe(t)
  <2>1. op'[t] = NoOp
    BY <1>0, <1>4, InsertObjEffect, AccessSafeEffect, MarkUnsafeEffect DEF BaseInv
  <2>2. pc[t] \in {"inserting", "found", "marking"}
    BY <1>0, <1>4, InsertObjEffect, AccessSafeEffect, MarkUnsafeEffect DEF BaseInv
  <2>3. op'[t].call = "none"
    BY <2>1 DEF NoOp
  <2>4. op[t].call # "dealloc"
    BY <1>1, <2>2 DEF Removing, RemovingUnsafe
  <2> QED
    BY <2>3, <2>4
<1>5. CASE RemoveUnsafeObj(t)
  BY <1>0, <1>5, RemoveUnsafeObjEffect
<1>6. CASE Access(t)
  <2>1. PICK a : op'[t] = AccessRequest(a) /\ pc[t] = "app"
    BY <1>0, <1>6, AccessEffect
  <2> QED
    BY <1>1, <2>1 DEF AccessRequest, Removing, RemovingUnsafe
<1>7. CASE FindHeapObj(t)
  <2>1. op[t].call = "access"
    BY <1>7, FindFacts
  <2>2. op'[t].call = op[t].call
    BY <1>7, FindHeapObjEffect DEF BaseInv, TypeInv
  <2> QED
    BY <2>1, <2>2
<1>8. LockInsert(t) \/ LockRemove(t) \/ LockRemoveUnsafe(t) \/ LockFind(t) \/ LockMark(t)
        \/ RemoveObj(t) \/ AccessUnsafe(t) \/ ClassifyObj(t) => op' = op
  BY LockInsertEffect, LockRemoveEffect, LockRemoveUnsafeEffect, LockFindEffect,
     LockMarkEffect, RemoveObjEffect, AccessUnsafeEffect, ClassifyObjEffect
<1> QED
  BY <1>2, <1>3, <1>4, <1>5, <1>6, <1>7, <1>8 DEF ThreadStep

\* alloc and dealloc change the blocks by one; realloc replaces one.
LEMMA KeptStep ==
    ASSUME BaseInv, NEW t \in Threads, ThreadStep(t), DOMAIN mem' \subseteq Addrs
    PROVE  \/ Alloc(t) /\ op'[t].new \notin Kept /\ Kept' = Kept \cup {op'[t].new}
           \/ Dealloc(t) /\ op'[t].old \in Kept /\ Kept' = Kept \ {op'[t].old}
           \/ Realloc(t) /\ op'[t].old \in Kept
                /\ op'[t].new \notin Kept \ {op'[t].old}
                /\ Kept' = (Kept \ {op'[t].old}) \cup {op'[t].new}
           \/ ~ Alloc(t) /\ ~ Dealloc(t) /\ Kept' = Kept
<1>0. /\ \A u \in Threads \ {t} : op'[u] = op[u]
      /\ \A u \in Threads : op[u].call = "dealloc" => op[u].old \in DOMAIN mem
  BY AsideOthers DEF BaseInv, HeldInv, Held
<1>1. CASE Alloc(t)
  <2>1. PICK b \in Addrs, n \in Sizes :
          /\ op'[t].new = b /\ op'[t].call = "alloc" /\ Free(b, n, None)
          /\ mem' = Put(mem, b, n) /\ pc[t] = "app"
    BY <1>1, AllocFacts DEF BaseInv
  <2>2. b \notin DOMAIN mem /\ DOMAIN mem' = DOMAIN mem \cup {b}
    BY <2>1, FreeIsFresh, AddrFacts DEF BaseInv, Put
  <2>3. op[t].call # "dealloc"
    BY <2>1 DEF BaseInv, CallInv, Called, Removing, RemovingUnsafe
  <2> QED
    BY <1>0, <1>1, <2>1, <2>2, <2>3 DEF Kept
<1>2. CASE Dealloc(t)
  <2>1. PICK b \in DOMAIN mem :
          /\ op'[t].call = "dealloc" /\ op'[t].old = b /\ Users(b) = {} /\ mem' = mem
          /\ pc[t] = "app"
    BY <1>2, DeallocFacts DEF BaseInv
  <2>2. \A u \in Threads : ~ Holds(u, b)
    BY <2>1, UnusedBlock
  <2>3. op[t].call # "dealloc"
    BY <2>1 DEF BaseInv, CallInv, Called, Removing, RemovingUnsafe
  <2> QED
    BY <1>0, <1>2, <2>1, <2>2, <2>3 DEF Kept, Holds
<1>3. CASE Realloc(t)
  <2>1. PICK b \in DOMAIN mem, c \in Addrs, n \in Sizes : Reallocated(t, b, c, n)
    BY <1>3, ReallocFacts DEF BaseInv
  <2>2. /\ op'[t].call = "realloc" /\ op'[t].old = b /\ op'[t].new = c /\ pc[t] = "app"
        /\ DOMAIN mem' = (DOMAIN mem \ {b}) \cup {c} /\ Users(b) = {}
    BY <2>1 DEF Reallocated, Put, Drop, Restrict
  <2>3. c = b \/ c \notin DOMAIN mem
    BY <1>3, <2>2, FreshStep
  <2>4. \A u \in Threads : ~ Holds(u, b)
    BY <2>2, UnusedBlock
  <2>5. op[t].call # "dealloc"
    BY <2>2 DEF BaseInv, CallInv, Called, Removing, RemovingUnsafe
  <2>6. b \in Kept /\ c \notin Kept \ {b}
    BY <2>3, <2>4 DEF Kept, Holds
  <2>7. ASSUME NEW d \in Addrs
        PROVE  d \in Kept' <=> d \in (Kept \ {b}) \cup {c}
    BY <1>0, <2>2, <2>3, <2>4, <2>5 DEF Kept, Holds
  <2>8. Kept' \subseteq Addrs /\ (Kept \ {b}) \cup {c} \subseteq Addrs
    BY DEF Kept, BaseInv, TypeInv
  <2>9. Kept' = (Kept \ {b}) \cup {c}
    BY <2>7, <2>8
  <2> QED
    BY <1>3, <2>2, <2>6, <2>9
<1>4. CASE SystemDealloc(t)
  <2>1. /\ op[t].call = "dealloc" /\ op'[t] = NoOp /\ mem' = Drop(mem, op[t].old)
        /\ pc[t] = "free"
    BY <1>4, SystemDeallocHistory
  <2>2. DOMAIN mem' = DOMAIN mem \ {op[t].old} /\ op'[t].call = "none"
    BY <2>1 DEF Drop, Restrict, NoOp
  <2>3. Kept' = Kept
    BY <1>0, <2>1, <2>2 DEF Kept
  <2>4. ~ Alloc(t) /\ ~ Dealloc(t)
    BY <2>1, AllocEffect, DeallocEffect DEF Moves
  <2> QED
    BY <2>3, <2>4
<1>5. CASE ~ Alloc(t) /\ ~ Dealloc(t) /\ ~ Realloc(t) /\ ~ SystemDealloc(t)
  <2>1. mem' = mem
    BY <1>5, MemFrame
  <2>2. op' = op \/ (op[t].call # "dealloc" /\ op'[t].call # "dealloc")
    BY <1>5, DeallocStep
  <2>3. Kept' = Kept
    BY <1>0, <2>1, <2>2 DEF Kept
  <2> QED
    BY <1>5, <2>3
<1> QED
  BY <1>1, <1>2, <1>3, <1>4, <1>5

\* So the count is kept.
LEMMA CountStep ==
    ASSUME CoreInv, CountInv, NEW t \in Threads, ThreadStep(t)
    PROVE  CountInv'
<1>0. /\ BaseInv /\ TypeInv /\ FlagInv /\ DOMAIN mem' \subseteq Addrs
      /\ stats.total_alloc \in Nat /\ stats.total_dealloc \in Nat
      /\ IsFiniteSet(Kept) /\ Cardinality(Kept) \in Nat
      /\ Cardinality(Kept) = stats.total_alloc - stats.total_dealloc
  BY CoreStep, KeptFacts DEF CoreInv, BaseInv, TypeInv, Counters, CountInv
<1>1. CASE Alloc(t) /\ op'[t].new \notin Kept /\ Kept' = Kept \cup {op'[t].new}
  <2>1. Cardinality(Kept') = Cardinality(Kept) + 1
    BY <1>0, <1>1, FS_AddElement
  <2>2. /\ stats'.total_alloc = stats.total_alloc + 1
        /\ stats'.total_dealloc = stats.total_dealloc
    BY <1>0, <1>1, AllocCounts
  <2> QED
    BY <1>0, <2>1, <2>2 DEF CountInv
<1>2. CASE Dealloc(t) /\ op'[t].old \in Kept /\ Kept' = Kept \ {op'[t].old}
  <2>1. Cardinality(Kept') = Cardinality(Kept) - 1
    BY <1>0, <1>2, FS_RemoveElement
  <2>2. /\ stats'.total_alloc = stats.total_alloc
        /\ stats'.total_dealloc = stats.total_dealloc + 1
    BY <1>0, <1>2, DeallocCounts
  <2> QED
    BY <1>0, <2>1, <2>2 DEF CountInv
<1>3. CASE /\ Realloc(t) /\ op'[t].old \in Kept
           /\ op'[t].new \notin Kept \ {op'[t].old}
           /\ Kept' = (Kept \ {op'[t].old}) \cup {op'[t].new}
  <2> DEFINE rest == Kept \ {op'[t].old}
  <2>1. IsFiniteSet(rest) /\ Cardinality(rest) = Cardinality(Kept) - 1
    BY <1>0, <1>3, FS_RemoveElement
  <2> HIDE DEF rest
  <2>2. Kept' = rest \cup {op'[t].new} /\ op'[t].new \notin rest
    BY <1>3 DEF rest
  <2>3. Cardinality(Kept') = Cardinality(rest) + 1
    BY <2>1, <2>2, FS_AddElement
  <2>4. stats' = stats
    BY <1>3, Zenon DEF Realloc
  <2> QED
    BY <1>0, <2>1, <2>3, <2>4 DEF CountInv
<1>4. CASE ~ Alloc(t) /\ ~ Dealloc(t) /\ Kept' = Kept
  <2>1. /\ stats'.total_alloc = stats.total_alloc
        /\ stats'.total_dealloc = stats.total_dealloc
    BY <1>0, <1>4, StatsFrame, ClassifyCounts, InsertCounts, RemoveUnsafeCounts, MarkCounts
  <2> QED
    BY <1>0, <1>4, <2>1 DEF CountInv
<1> QED
  BY <1>0, <1>1, <1>2, <1>3, <1>4, KeptStep

\* The number of blocks stays the difference of the counters.
LEMMA CountNext == ASSUME CoreInv, CountInv, [Next]_vars PROVE CountInv'
<1>1. CASE \E t \in Threads : ThreadStep(t)
  BY <1>1, CountStep
<1>2. CASE DumpStep \/ UNCHANGED vars
  <2>1. /\ mem' = mem /\ op' = op /\ stats'.total_alloc = stats.total_alloc
        /\ stats'.total_dealloc = stats.total_dealloc
    BY <1>2, DumpFrame, DumpKeeps, StutterFrame DEF CoreInv, BaseInv
  <2> QED
    BY <2>1 DEF CountInv, Kept
<1> QED
  BY <1>1, <1>2, NextSteps DEF CoreInv, BaseInv

\* When no call is under way the map holds as many objects as have been allocated and
\* not freed, and the histogram every allocation and reallocation.
THEOREM CountsExact ==
    ASSUME ReuseInWindow = FALSE
    PROVE  Spec => []CountsBalance
<1>1. Init => TrackInv /\ HistogramInv /\ CountInv
  <2>1. Init => Kept = {} /\ stats.total_alloc = 0 /\ stats.total_dealloc = 0
    BY DEF Init, Kept
  <2>2. Init => CountInv
    BY <2>1, FS_EmptySet DEF CountInv
  <2> QED
    BY <2>2, TrackInit, HistogramInit
<1>2. (TrackInv /\ HistogramInv /\ CountInv) /\ [Next]_vars
        => (TrackInv /\ HistogramInv /\ CountInv)'
  BY TrackNext, HistogramNext, CountNext DEF TrackInv
<1>3. ASSUME TrackInv, HistogramInv, CountInv PROVE CountsBalance
  <2> SUFFICES ASSUME \A t \in Threads : op[t] = NoOp
               PROVE  /\ Cardinality(DOMAIN live_objs) = stats.total_alloc - stats.total_dealloc
                      /\ SumFunction(stats.size_histogram) = stats.total_alloc + stats.total_realloc
    BY DEF CountsBalance
  <2>1. \A t \in Threads : op[t].call = "none" /\ op[t].new = None
    BY DEF NoOp
  <2>2. DOMAIN mem \subseteq Addrs /\ None \notin Addrs
    BY <1>3, AddrFacts DEF TrackInv, CoreInv, BaseInv, TypeInv
  <2>3. Loose = DOMAIN mem /\ Kept = DOMAIN mem
    BY <2>1, <2>2 DEF Loose, Holds, Kept
  <2>4. DOMAIN mem \subseteq DOMAIN live_objs
    BY <1>3, <2>3 DEF TrackInv, MapInv
  <2>5. DOMAIN live_objs \subseteq DOMAIN mem
    BY <1>3, <2>1 DEF TrackInv, MapInv, Moving
  <2>6. DOMAIN live_objs = Kept
    BY <2>3, <2>4, <2>5
  <2>7. Unclassified = {}
    BY <1>3, <2>1 DEF Unclassified, Idle, TrackInv, CoreInv, BaseInv, CallInv, Called
  <2>8. Cardinality(Unclassified) = 0
    BY <2>7, FS_EmptySet
  <2>9. SumFunction(stats.size_histogram) \in Nat
    BY <1>3, HistogramFacts DEF TrackInv, CoreInv, BaseInv, TypeInv, Counters
  <2> QED
    BY <1>3, <2>6, <2>8, <2>9 DEF HistogramInv, CountInv
<1> QED
  BY <1>1, <1>2, <1>3, PTL DEF Spec
-----------------------------------------------------------------------------
(* Objects that unsafe code accesses                                        *)

\* Live objects that unsafe code has accessed are in the set, except while a dealloc is
\* about to free them; what else is in it is about to be removed.
UnsafeInv ==
    /\ \A b \in DOMAIN mem :
         \/ b \in live_unsafe_objs <=> b \in history.touched
         \/ \E t \in Threads : op[t].call = "dealloc" /\ pc[t] = "free" /\ op[t].old = b
    /\ \A b \in live_unsafe_objs :
         b \in DOMAIN mem \/ \E t \in Threads : Moving(t) /\ op[t].old = b
    /\ \A t \in Threads :
         op[t].call = "dealloc" /\ pc[t] = "free" => op[t].old \notin live_unsafe_objs

\* What is inserted is the object that is accessed, with the size it has.
LEMMA MarksObject ==
    ASSUME TrackInv, LookInv, NEW t \in Threads, MarkUnsafe(t)
    PROVE  /\ op[t].found \in Loose /\ op[t].found \in DOMAIN mem /\ op[t].found \in Addrs
           /\ op[t].size = mem[op[t].found] /\ op[t].size \in Sizes
           /\ Touch(op[t].found) /\ mem' = mem
           /\ live_unsafe_objs' = live_unsafe_objs \cup {op[t].found}
           /\ pc[t] = "marking" /\ op'[t] = NoOp
<1> DEFINE o == Object(op[t].addr)
<1>0. BaseInv /\ CoreInv /\ Looked(t) /\ Finding(t) /\ t \in DOMAIN op
      /\ mem \in [DOMAIN mem -> Sizes] /\ DOMAIN mem \subseteq Addrs
  BY DEF TrackInv, CoreInv, BaseInv, TypeInv, LookInv, FindingInv
<1>1. /\ pc[t] = "marking" /\ op[t].call = "access" /\ o \in Loose
      /\ op[t].addr \in Bytes(o, mem[o])
      /\ live_unsafe_objs' = live_unsafe_objs \cup {op[t].found}
      /\ Touch(o) /\ mem' = mem
  BY <1>0, MarkFacts
<1>2. op'[t] = NoOp
  BY <1>0, MarkUnsafeEffect DEF Asks
<1> HIDE DEF o
<1>3. op[t].addr \notin NotHeap
  BY <1>0, <1>1 DEF Finding, Found
<1>4. /\ op[t].found \in Loose /\ op[t].addr \in Bytes(op[t].found, mem[op[t].found])
      /\ op[t].size = mem[op[t].found]
  BY <1>0, <1>1, <1>3 DEF Looked, Found
<1>5. o = op[t].found
  BY <1>0, <1>1, <1>4 DEF BaseInv, BlockInv, Loose
<1>6. op[t].found \in DOMAIN mem /\ op[t].found \in Addrs /\ op[t].size \in Sizes
  BY <1>0, <1>4 DEF Loose
<1> QED
  BY <1>1, <1>2, <1>4, <1>5, <1>6

\* The object is in the set if unsafe code has accessed it before.
LEMMA MarksOnce ==
    ASSUME TrackInv, LookInv, UnsafeInv, NEW t \in Threads, MarkUnsafe(t)
    PROVE  op[t].found \in live_unsafe_objs <=> op[t].found \in history.touched
<1>1. op[t].found \in Loose /\ op[t].found \in DOMAIN mem
  BY MarksObject
<1>2. ~ \E u \in Threads : op[u].call = "dealloc" /\ pc[u] = "free" /\ op[u].old = op[t].found
  BY <1>1 DEF Loose, Holds
<1> QED
  BY <1>1, <1>2 DEF UnsafeInv

\* The removal from the set is made by a dealloc or by a realloc that has moved.
LEMMA RemoveUnsafeFacts ==
    ASSUME BaseInv, NEW t \in Threads, RemoveUnsafeObj(t)
    PROVE  /\ live_unsafe_objs' = live_unsafe_objs \ {op[t].old} /\ mem' = mem
           /\ pc[t] = "removing unsafe"
           /\ \/ Moving(t)
              \/ op[t].call = "dealloc" /\ op' = op /\ pc'[t] = "free"
<1>0. Called(t) /\ op[t] \in Requests /\ t \in DOMAIN pc
  BY DEF BaseInv, CallInv, TypeInv
<1>1. live_unsafe_objs' = live_unsafe_objs \ {op[t].old} /\ mem' = mem /\ pc[t] = "removing unsafe"
  BY DEF RemoveUnsafeObj, At
<1>2. op[t].call \in {"dealloc", "realloc"}
  BY <1>0, <1>1 DEF Called, Idle, Inserting, Removing, RemovingUnsafe, Searching, Found, Requests
<1>3. op[t].call = "realloc" => Moving(t)
  BY <1>1, MovingPlace DEF RemovingUnsafe
<1>4. op[t].call = "dealloc" => op' = op /\ pc'[t] = "free"
  BY <1>0, RemoveUnsafeObjEffect DEF Moves
<1> QED
  BY <1>1, <1>2, <1>3, <1>4

\* The last place of a dealloc.
LEMMA FreeStep ==
    ASSUME BaseInv, NEW t \in Threads, ThreadStep(t)
    PROVE  /\ pc'[t] = "free" => RemoveUnsafeObj(t)
           /\ pc[t] = "free" => SystemDealloc(t)
<1> USE DEF Moves
<1>0. t \in DOMAIN pc /\ op[t] \in Requests
  BY DEF BaseInv, TypeInv
<1>1. /\ Alloc(t) \/ Dealloc(t) \/ Realloc(t)
           => pc[t] = "app" /\ pc'[t] \in {"classify", "insert", "remove"}
      /\ ClassifyObj(t) => pc[t] = "classify" /\ pc'[t] = "insert"
  BY <1>0, AllocFacts, ClassifyObjEffect, DeallocFacts, ReallocFacts DEF BaseInv, Reallocated
<1>2. SystemDealloc(t) => pc'[t] = "app"
  BY <1>0, SystemDeallocEffect
<1>3. InsertObj(t) \/ AccessSafe(t) \/ MarkUnsafe(t) =>
        pc[t] \in {"inserting", "found", "marking"} /\ pc'[t] = "app"
  BY <1>0, InsertObjEffect, AccessSafeEffect, MarkUnsafeEffect DEF BaseInv
<1>4. LockInsert(t) \/ LockRemove(t) \/ LockRemoveUnsafe(t) \/ LockFind(t) \/ LockMark(t) =>
        /\ pc[t] \in {"insert", "remove", "remove unsafe", "find", "mark"}
        /\ pc'[t] \in {"inserting", "removing", "removing unsafe", "finding", "marking"}
  BY <1>0, LockInsertEffect, LockRemoveEffect, LockRemoveUnsafeEffect, LockFindEffect,
     LockMarkEffect
<1>5. RemoveObj(t) => pc[t] = "removing" /\ pc'[t] = "remove unsafe"
  BY <1>0, RemoveObjEffect
<1>6. RemoveUnsafeObj(t) => pc[t] = "removing unsafe"
  BY <1>0, RemoveUnsafeFacts
<1>7. Access(t) \/ FindHeapObj(t) \/ AccessUnsafe(t) =>
        pc[t] \in {"app", "finding", "found"} /\ pc'[t] \in {"find", "found", "mark"}
  BY <1>0, AccessEffect, FindFacts, AccessUnsafeEffect
<1> QED
  BY <1>1, <1>2, <1>3, <1>4, <1>5, <1>6, <1>7 DEF ThreadStep

\* The set and its history after a step.
LEMMA UnsafeSets ==
    ASSUME TrackInv, LookInv, NEW t \in Threads, ThreadStep(t)
    PROVE  /\ live_unsafe_objs' =
                IF RemoveUnsafeObj(t) THEN live_unsafe_objs \ {op[t].old}
                ELSE IF MarkUnsafe(t) THEN live_unsafe_objs \cup {op[t].found}
                ELSE live_unsafe_objs
           /\ history'.touched =
                IF Realloc(t) /\ op'[t].new # op'[t].old THEN history.touched \ {op'[t].old}
                ELSE IF SystemDealloc(t) THEN history.touched \ {op[t].old}
                ELSE IF MarkUnsafe(t) THEN history.touched \cup {op[t].found}
                ELSE history.touched
           /\ ~ MarkUnsafe(t) => history'.firsts = history.firsts
<1>0. BaseInv /\ TypeInv /\ history \in Histories
  BY DEF TrackInv, CoreInv, BaseInv, TypeInv
<1>1. MarkUnsafe(t) => ~ RemoveUnsafeObj(t) /\ ~ Realloc(t) /\ ~ SystemDealloc(t)
  BY <1>0, MarkUnsafeEffect, RemoveUnsafeFacts, ReallocEffect, SystemDeallocEffect DEF Moves
<1>2. Realloc(t) => ~ SystemDealloc(t)
  BY ReallocEffect, SystemDeallocEffect DEF Moves
<1>3. MarkUnsafe(t) => history'.touched = history.touched \cup {op[t].found}
  <2> SUFFICES ASSUME MarkUnsafe(t) PROVE history'.touched = history.touched \cup {op[t].found}
    OBVIOUS
  <2> DEFINE o == op[t].found
  <2>1. Touch(o) /\ o \in Addrs /\ mem[o] \in Sizes
    BY MarksObject
  <2> HIDE DEF o
  <2>2. IF o \in history.touched THEN history' = history
        ELSE history'.touched = history.touched \cup {o}
    BY <1>0, <2>1, TouchFacts
  <2>3. history'.touched = history.touched \cup {o}
    BY <2>2
  <2> QED
    BY <2>3 DEF o
<1>4. /\ RemoveUnsafeObj(t) => live_unsafe_objs' = live_unsafe_objs \ {op[t].old}
      /\ MarkUnsafe(t) => live_unsafe_objs' = live_unsafe_objs \cup {op[t].found}
  BY <1>0, RemoveUnsafeFacts, MarksObject
<1>5. Realloc(t) => /\ history'.firsts = history.firsts
                    /\ history'.touched = IF op'[t].new = op'[t].old THEN history.touched
                                          ELSE history.touched \ {op'[t].old}
  BY <1>0, ReallocHistory
<1>6. SystemDealloc(t) => /\ history'.firsts = history.firsts
                          /\ history'.touched = history.touched \ {op[t].old}
  BY <1>0, SystemDeallocHistory
<1>7. live_unsafe_objs' =
        IF RemoveUnsafeObj(t) THEN live_unsafe_objs \ {op[t].old}
        ELSE IF MarkUnsafe(t) THEN live_unsafe_objs \cup {op[t].found}
        ELSE live_unsafe_objs
  BY <1>4, UnsafeFrame
<1>8. /\ history'.touched =
           IF Realloc(t) /\ op'[t].new # op'[t].old THEN history.touched \ {op'[t].old}
           ELSE IF SystemDealloc(t) THEN history.touched \ {op[t].old}
           ELSE IF MarkUnsafe(t) THEN history.touched \cup {op[t].found}
           ELSE history.touched
      /\ ~ MarkUnsafe(t) => history'.firsts = history.firsts
  <2>1. ClassifyObj(t) => /\ history'.touched = history.touched
                          /\ history'.firsts = history.firsts
    BY <1>0, ClassifyCounts DEF Histories
  <2> QED
    BY <1>1, <1>2, <1>3, <1>5, <1>6, <2>1, HistoryFrame
<1> QED
  BY <1>7, <1>8

\* A call that removes from the set waits for nothing else.
LEMMA RemovingUnsafeStep ==
    ASSUME BaseInv, NEW t \in Threads, ThreadStep(t), pc[t] \in RemovingUnsafe
    PROVE  op' = op \/ RemoveUnsafeObj(t)
<1> USE DEF Moves, RemovingUnsafe
<1>1. ~ Alloc(t) /\ ~ ClassifyObj(t) /\ ~ Dealloc(t) /\ ~ Realloc(t)
  BY AllocEffect, ClassifyObjEffect, DeallocEffect, ReallocEffect
<1>2. ~ SystemDealloc(t) /\ ~ LockInsert(t) /\ ~ LockRemove(t) /\ ~ LockFind(t) /\ ~ LockMark(t)
  BY SystemDeallocEffect, LockInsertEffect, LockRemoveEffect, LockFindEffect, LockMarkEffect
<1>3. ~ InsertObj(t) /\ ~ RemoveObj(t) /\ ~ Access(t)
  BY InsertObjEffect, RemoveObjEffect, AccessEffect DEF BaseInv
<1>4. ~ FindHeapObj(t) /\ ~ AccessSafe(t) /\ ~ AccessUnsafe(t) /\ ~ MarkUnsafe(t)
  BY FindFacts, AccessSafeEffect, AccessUnsafeEffect, MarkUnsafeEffect
<1> QED
  BY <1>1, <1>2, <1>3, <1>4, LockRemoveUnsafeEffect DEF ThreadStep

\* The set follows what unsafe code has accessed.
LEMMA UnsafeStep ==
    ASSUME TrackInv, LookInv, UnsafeInv, ReuseInWindow = FALSE, NEW t \in Threads, ThreadStep(t)
    PROVE  UnsafeInv'
<1>0. /\ BaseInv /\ CoreInv /\ FreedInv /\ DOMAIN mem \subseteq Addrs
      /\ history.touched \subseteq DOMAIN mem /\ Called(t)
  BY DEF TrackInv, CoreInv, BaseInv, TypeInv, TouchedInv, CallInv
<1>1. \A u \in Threads \ {t} : op'[u] = op[u] /\ pc'[u] = pc[u]
  BY <1>0, AsideOthers DEF BaseInv
<1>2. /\ live_unsafe_objs' =
           IF RemoveUnsafeObj(t) THEN live_unsafe_objs \ {op[t].old}
           ELSE IF MarkUnsafe(t) THEN live_unsafe_objs \cup {op[t].found}
           ELSE live_unsafe_objs
      /\ history'.touched =
           IF Realloc(t) /\ op'[t].new # op'[t].old THEN history.touched \ {op'[t].old}
           ELSE IF SystemDealloc(t) THEN history.touched \ {op[t].old}
           ELSE IF MarkUnsafe(t) THEN history.touched \cup {op[t].found}
           ELSE history.touched
  BY UnsafeSets
<1>3. /\ MarkUnsafe(t) => /\ pc[t] = "marking" /\ mem' = mem /\ op[t].found \in Loose
                          /\ op[t].found \in DOMAIN mem
      /\ RemoveUnsafeObj(t) => pc[t] = "removing unsafe"
      /\ Realloc(t) => pc[t] = "app"
      /\ Alloc(t) => pc[t] = "app"
      /\ SystemDealloc(t) => pc[t] = "free"
  BY <1>0, MarksObject, RemoveUnsafeFacts, ReallocEffect, AllocEffect, SystemDeallocEffect DEF Moves
<1>4. ASSUME NEW b \in DOMAIN mem'
      PROVE  (\/ b \in live_unsafe_objs <=> b \in history.touched
              \/ \E u \in Threads : op[u].call = "dealloc" /\ pc[u] = "free" /\ op[u].old = b)'
  <2>1. CASE b \in DOMAIN mem
    <3>1. CASE \E u \in Threads : op[u].call = "dealloc" /\ pc[u] = "free" /\ op[u].old = b
      <4>1. PICK u \in Threads : op[u].call = "dealloc" /\ pc[u] = "free" /\ op[u].old = b
        BY <3>1
      <4>2. u # t
        BY <1>0, <1>4, <4>1, FreeStep, FreshStep
      <4> QED
        BY <1>1, <4>1, <4>2
    <3>2. CASE b \in live_unsafe_objs <=> b \in history.touched
      <4>1. CASE RemoveUnsafeObj(t) /\ b = op[t].old
        <5>1. ~ Moving(t)
          BY <1>0, <2>1, <4>1, GivenBackGone
        <5>2. op[t].call = "dealloc" /\ op' = op /\ pc'[t] = "free"
          BY <1>0, <4>1, <5>1, RemoveUnsafeFacts
        <5> QED
          BY <4>1, <5>2
      <4>2. CASE MarkUnsafe(t)
        <5>1. /\ live_unsafe_objs' = live_unsafe_objs \cup {op[t].found}
              /\ history'.touched = history.touched \cup {op[t].found}
          BY <1>2, <1>3, <4>2
        <5> QED
          BY <3>2, <5>1
      <4>3. CASE ~ MarkUnsafe(t) /\ ~ (RemoveUnsafeObj(t) /\ b = op[t].old)
        <5>1. b \in live_unsafe_objs' <=> b \in live_unsafe_objs
          BY <1>2, <4>3
        <5>2. Realloc(t) /\ op'[t].new # op'[t].old => b # op'[t].old
          BY <1>0, <1>4, FreshStep
        <5>3. SystemDealloc(t) => b # op[t].old
          BY <1>0, <1>4, FreshStep
        <5>4. b \in history'.touched <=> b \in history.touched
          BY <1>2, <4>3, <5>2, <5>3
        <5> QED
          BY <3>2, <5>1, <5>4
      <4> QED
        BY <4>1, <4>2, <4>3
    <3> QED
      BY <2>1, <3>1, <3>2 DEF UnsafeInv
  <2>2. CASE b \notin DOMAIN mem
    <3>1. (Alloc(t) \/ Realloc(t)) /\ b = op'[t].new
      BY <1>0, <1>4, <2>2, MemStep
    <3>2. b \notin history.touched
      BY <1>0, <2>2
    <3>3. b \notin live_unsafe_objs
      <4>1. SUFFICES ASSUME b \in live_unsafe_objs PROVE FALSE
        OBVIOUS
      <4>2. PICK u \in Threads : Moving(u) /\ op[u].old = b
        BY <2>2, <4>1 DEF UnsafeInv
      <4>3. b \in op[u].freed
        BY <1>0, <4>2 DEF FreedInv, GivenBack
      <4>4. b \in Bytes(b, mem'[b]) /\ Bytes(b, mem'[b]) \cap op[u].freed = {}
        BY <1>0, <3>1, TakenFree
      <4> QED
        BY <4>3, <4>4
    <3>4. ~ MarkUnsafe(t)
      BY <1>3, <3>1
    <3> QED
      BY <1>2, <3>2, <3>3, <3>4
  <2> QED
    BY <2>1, <2>2
<1>5. ASSUME NEW b \in live_unsafe_objs', b \notin DOMAIN mem'
      PROVE  \E u \in Threads : (Moving(u) /\ op[u].old = b)'
  <2>1. b \in live_unsafe_objs /\ ~ (RemoveUnsafeObj(t) /\ b = op[t].old)
    BY <1>2, <1>3, <1>5
  <2>2. CASE b \in DOMAIN mem
    <3>1. (Realloc(t) /\ b = op'[t].old) \/ (SystemDealloc(t) /\ b = op[t].old)
      BY <1>0, <1>5, <2>2, MemStep
    <3>2. CASE Realloc(t) /\ b = op'[t].old
      <4>1. PICK c \in DOMAIN mem, d \in Addrs, n \in Sizes : Reallocated(t, c, d, n)
        BY <1>0, <3>2, ReallocFacts DEF BaseInv
      <4>2. op'[t].call = "realloc" /\ op'[t].new \in DOMAIN mem'
        BY <4>1 DEF Reallocated, Put
      <4>3. b # None
        BY <1>0, <2>2, AddrFacts
      <4> QED
        BY <1>5, <3>2, <4>2, <4>3 DEF Moving
    <3>3. CASE SystemDealloc(t) /\ b = op[t].old
      <4>1. op[t].call = "dealloc" /\ pc[t] = "free"
        BY <1>0, <3>3, SystemDeallocHistory
      <4> QED
        BY <2>1, <3>3, <4>1 DEF UnsafeInv
    <3> QED
      BY <3>1, <3>2, <3>3
  <2>3. CASE b \notin DOMAIN mem
    <3>1. PICK u \in Threads : Moving(u) /\ op[u].old = b
      BY <2>1, <2>3 DEF UnsafeInv
    <3>2. CASE u # t
      BY <1>1, <3>1, <3>2 DEF Moving
    <3>3. CASE u = t
      <4>1. pc[t] \in Removing \cup RemovingUnsafe
        BY <1>0, <3>1, <3>3, MovingPlace
      <4>2. op' = op
        BY <1>0, <2>1, <3>1, <3>3, <4>1, RemovingStep, RemovingUnsafeStep
      <4> QED
        BY <3>1, <3>3, <4>2 DEF Moving
    <3> QED
      BY <3>2, <3>3
  <2> QED
    BY <2>2, <2>3
<1>6. ASSUME NEW u \in Threads, op'[u].call = "dealloc", pc'[u] = "free"
      PROVE  op'[u].old \notin live_unsafe_objs'
  <2>1. CASE u # t
    <3>1. op[u].call = "dealloc" /\ pc[u] = "free" /\ op'[u].old = op[u].old
      BY <1>1, <1>6, <2>1
    <3>2. op[u].old \notin live_unsafe_objs
      BY <3>1 DEF UnsafeInv
    <3>3. MarkUnsafe(t) => op[t].found # op[u].old
      BY <1>3, <3>1 DEF Loose, Holds
    <3> QED
      BY <1>2, <3>1, <3>2, <3>3
  <2>2. CASE u = t
    <3>1. RemoveUnsafeObj(t)
      BY <1>0, <1>6, <2>2, FreeStep
    <3>2. ~ Moving(t)
      <4>1. op[t] \in Requests /\ t \in DOMAIN pc
        BY <1>0 DEF BaseInv, TypeInv
      <4> QED
        BY <1>6, <2>2, <3>1, <4>1, RemoveUnsafeObjEffect DEF Moving, Moves
    <3>3. op' = op
      BY <1>0, <3>1, <3>2, RemoveUnsafeFacts
    <3> QED
      BY <1>2, <2>2, <3>1, <3>3
  <2> QED
    BY <2>1, <2>2
<1> QED
  BY <1>4, <1>5, <1>6 DEF UnsafeInv
-----------------------------------------------------------------------------
(* How often they are counted                                               *)

\* The sizes of a class, as the documentation gives them.
Grouped(c) ==
    {n \in Sizes : (c > 0 => n > 2^(c - 1)) /\ (c < OBJ_SIZE_NUM - 1 => n <= 2^c)}

\* They are the sizes that classify_obj_by_size puts into the class.
LEMMA GroupFacts ==
    ASSUME NEW n \in Sizes, NEW c \in Classes
    PROVE  n \in Grouped(c) <=> Class(n) = c
<1> DEFINE k == Class(n)
           last == OBJ_SIZE_NUM - 1
<1>0. n \in Nat /\ c \in Nat /\ c <= last /\ last \in Nat
  BY BoundsFacts, SizesFacts DEF Classes
<1>1. /\ k \in Classes
      /\ k = last \/ n <= 2^k
      /\ \A d \in Classes : d < k => ~ (n <= 2^d)
  BY <1>0, ClassFacts
<1> HIDE DEF k
<1>2. k \in Nat /\ k <= last
  <2>1. k \in Classes
    BY <1>1
  <2> HIDE DEF last
  <2> QED
    BY <2>1, BoundsFacts DEF Classes, last
<1>3. ASSUME k = c PROVE n \in Grouped(c)
  <2>1. ASSUME c > 0 PROVE n > 2^(c - 1)
    <3>1. c - 1 \in Nat /\ c - 1 \in Classes /\ c - 1 < k
      BY <1>0, <1>3, <2>1, BoundsFacts DEF Classes
    <3>2. ~ (n <= 2^(c - 1))
      BY <1>1, <3>1
    <3>3. 2^(c - 1) \in Nat
      <4>1. c - 1 <= c - 1
        BY <3>1
      <4> QED
        BY <3>1, <4>1, PowersGrow
    <3> QED
      BY <1>0, <3>2, <3>3
  <2>2. ASSUME c < last PROVE n <= 2^c
    <3>1. k # last
      BY <1>0, <1>3, <2>2
    <3> QED
      BY <1>1, <1>3, <3>1
  <2> QED
    BY <2>1, <2>2 DEF Grouped
<1>4. ASSUME n \in Grouped(c) PROVE k = c
  <2>1. (c > 0 => n > 2^(c - 1)) /\ (c < last => n <= 2^c)
    BY <1>4 DEF Grouped
  <2>2. ~ (c < k)
    <3>1. SUFFICES ASSUME c < k PROVE FALSE
      OBVIOUS
    <3>2. c < last
      BY <1>0, <1>2, <3>1
    <3>3. n <= 2^c
      BY <2>1, <3>2
    <3> QED
      BY <1>1, <3>1, <3>3
  <2>3. ~ (k < c)
    <3>1. SUFFICES ASSUME k < c PROVE FALSE
      OBVIOUS
    <3>2. c > 0 /\ k <= c - 1 /\ c - 1 \in Nat /\ k # last
      BY <1>0, <1>2, <3>1
    <3>3. n > 2^(c - 1) /\ n <= 2^k
      BY <1>1, <2>1, <3>2
    <3>4. 2^k \in Nat /\ 2^(c - 1) \in Nat /\ 2^k <= 2^(c - 1)
      BY <1>2, <3>2, PowersGrow
    <3> QED
      BY <1>0, <3>3, <3>4
  <2> QED
    BY <1>0, <1>2, <2>2, <2>3
<1> QED
  BY <1>3, <1>4 DEF k

\* A size is counted in the sum of its class and in no other.
LEMMA GroupSum ==
    ASSUME NEW f \in [Sizes -> Nat], NEW g \in [Sizes -> Nat], NEW n \in Sizes, NEW c \in Classes,
           g[n] = f[n] + 1, \A m \in Sizes \ {n} : g[m] = f[m]
    PROVE  SumFunctionOnSet(g, Grouped(c))
             = SumFunctionOnSet(f, Grouped(c)) + (IF Class(n) = c THEN 1 ELSE 0)
<1> DEFINE S == Grouped(c)
<1>1. S \subseteq Sizes /\ IsFiniteSet(S)
  <2>1. S \subseteq Sizes
    BY DEF Grouped
  <2> HIDE DEF S
  <2> QED
    BY <2>1, SizesFacts, FS_Subset
<1>2. n \in S <=> Class(n) = c
  BY GroupFacts
<1> HIDE DEF S
<1>3. \A m \in S : f[m] \in Int /\ g[m] \in Int
  BY <1>1
<1>4. SumFunctionOnSet(f, S) \in Int
  BY <1>1, <1>3, SumType
<1>5. CASE Class(n) = c
  <2>1. n \in S /\ \A m \in S \ {n} : g[m] = f[m]
    BY <1>1, <1>2, <1>5
  <2>2. SumFunctionOnSet(g, S) = SumFunctionOnSet(f, S) - f[n] + g[n]
    BY <1>1, <1>3, <2>1, SumChange
  <2>3. SumFunctionOnSet(g, S) = SumFunctionOnSet(f, S) + 1
    BY <1>4, <2>2
  <2> QED
    BY <1>5, <2>3 DEF S
<1>6. CASE Class(n) # c
  <2>1. \A m \in S : g[m] \in Int /\ g[m] = f[m]
    BY <1>1, <1>2, <1>3, <1>6
  <2>2. SumFunctionOnSet(g, S) = SumFunctionOnSet(f, S)
    BY <1>1, <2>1, SumEqual
  <2>3. SumFunctionOnSet(g, S) = SumFunctionOnSet(f, S) + 0
    BY <1>4, <2>2
  <2> QED
    BY <1>6, <2>3 DEF S
<1> QED
  BY <1>5, <1>6

\* The number of objects and their bytes.
LEMMA FirstsSum ==
    ASSUME NEW f \in [Sizes -> Nat], NEW g \in [Sizes -> Nat], NEW n \in Sizes,
           g[n] = f[n] + 1, \A m \in Sizes \ {n} : g[m] = f[m]
    PROVE  /\ SumFunction(g) = SumFunction(f) + 1
           /\ SumFunction([m \in Sizes |-> m * g[m]]) = SumFunction([m \in Sizes |-> m * f[m]]) + n
<1> DEFINE F == [m \in Sizes |-> m * f[m]]
           G == [m \in Sizes |-> m * g[m]]
<1>0. n \in Nat
  BY SizesFacts
<1>1. IsFiniteSet(Sizes)
  BY SizesFacts
<1>2. \A m \in Sizes : f[m] \in Int /\ g[m] \in Int
  OBVIOUS
<1>3. F \in [Sizes -> Int] /\ G \in [Sizes -> Int]
  <2>1. \A m \in Sizes : m \in Nat /\ f[m] \in Nat /\ g[m] \in Nat
    BY SizesFacts
  <2>2. \A m \in Sizes : m * f[m] \in Int /\ m * g[m] \in Int
    BY <2>1
  <2> QED
    BY <2>2
<1>4. /\ SumFunction(f) = SumFunctionOnSet(f, Sizes) /\ SumFunction(g) = SumFunctionOnSet(g, Sizes)
      /\ SumFunction(F) = SumFunctionOnSet(F, Sizes) /\ SumFunction(G) = SumFunctionOnSet(G, Sizes)
  <2> HIDE DEF F, G
  <2> QED
    BY <1>3, SumOnDomain
<1>5. G[n] = F[n] + n /\ F[n] \in Int /\ \A m \in Sizes \ {n} : G[m] = F[m]
  <2>1. f[n] \in Nat /\ F[n] = n * f[n] /\ G[n] = n * g[n]
    OBVIOUS
  <2>2. \A x \in Nat : n * (x + 1) = n * x + n /\ n * x \in Int
    BY <1>0
  <2>3. G[n] = F[n] + n /\ F[n] \in Int
    <3> HIDE DEF F, G
    <3> QED
      BY <2>1, <2>2
  <2> QED
    BY <2>3
<1> HIDE DEF F, G
<1>6. \A m \in Sizes : F[m] \in Int /\ G[m] \in Int
  BY <1>3
<1>7. SumFunctionOnSet(g, Sizes) = SumFunctionOnSet(f, Sizes) - f[n] + g[n]
  <2>1. \A m \in Sizes \ {n} : g[m] = f[m]
    OBVIOUS
  <2> QED
    BY <1>1, <1>2, <2>1, SumChange
<1>8. SumFunctionOnSet(G, Sizes) = SumFunctionOnSet(F, Sizes) - F[n] + G[n]
  <2>1. \A m \in Sizes \ {n} : G[m] = F[m]
    BY <1>5
  <2> QED
    BY <1>1, <1>6, <2>1, SumChange
<1>9. SumFunctionOnSet(f, Sizes) \in Int /\ SumFunctionOnSet(F, Sizes) \in Int
  BY <1>1, <1>2, <1>6, SumType
<1>10. SumFunction(g) = SumFunction(f) + 1
  BY <1>4, <1>7, <1>9
<1>11. SumFunction(G) = SumFunction(F) + n
  BY <1>0, <1>4, <1>5, <1>8, <1>9
<1> QED
  BY <1>10, <1>11 DEF F, G

\* The bytes of the objects that were first accessed with a size.
FirstSizes == [n \in Sizes |-> n * history.firsts[n]]
\* The three counters are those of the first accesses.
OnceInv ==
    /\ \A c \in Classes :
         stats.unsafe_size_histogram[c] = SumFunctionOnSet(history.firsts, Grouped(c))
    /\ stats.total_unsafe_objs = SumFunction(history.firsts)
    /\ stats.unsafe_mem = SumFunction(FirstSizes)

\* An object that enters the set for the first time.
LEMMA OnceMark ==
    ASSUME TrackInv, LookInv, UnsafeInv, OnceInv, NEW t \in Threads, MarkUnsafe(t),
           op[t].found \notin live_unsafe_objs
    PROVE  OnceInv'
<1> DEFINE n == op[t].size
           o == op[t].found
           f == history.firsts
           g == history'.firsts
           h == stats.unsafe_size_histogram
<1>0. /\ TypeInv /\ history \in Histories /\ f \in [Sizes -> Nat]
      /\ h \in [Classes -> Nat] /\ stats.total_unsafe_objs \in Nat /\ stats.unsafe_mem \in Nat
  BY DEF TrackInv, CoreInv, BaseInv, TypeInv, Histories, Counters
<1>1. o \in Addrs /\ n = mem[o] /\ n \in Sizes /\ Touch(o)
  BY MarksObject
<1>2. o \notin history.touched
  BY MarksOnce
<1>3. /\ stats'.unsafe_mem = stats.unsafe_mem + n
      /\ stats'.total_unsafe_objs = stats.total_unsafe_objs + 1
      /\ stats'.unsafe_size_histogram = Classified(h, n)
  BY <1>0, MarkCounts
<1>4. n \in Nat /\ Class(n) \in Classes
  <2>1. n \in Nat
    BY <1>1, SizesFacts
  <2> QED
    BY <2>1, ClassFacts
<1> HIDE DEF o, n
<1>5. history' \in Histories /\ history'.firsts = [history.firsts EXCEPT ![n] = @ + 1]
  BY <1>0, <1>1, <1>2, TouchFacts
<1>6. g \in [Sizes -> Nat] /\ g[n] = f[n] + 1 /\ \A m \in Sizes \ {n} : g[m] = f[m]
  <2>1. g \in [Sizes -> Nat]
    BY <1>5 DEF Histories
  <2> QED
    BY <1>0, <1>1, <1>5, <2>1
<1> HIDE DEF f, g, h
<1>7. /\ SumFunction(g) = SumFunction(f) + 1
      /\ SumFunction([m \in Sizes |-> m * g[m]]) = SumFunction([m \in Sizes |-> m * f[m]]) + n
  BY <1>0, <1>1, <1>6, FirstsSum
<1>8. /\ \A c \in Classes : h[c] = SumFunctionOnSet(f, Grouped(c))
      /\ stats.total_unsafe_objs = SumFunction(f)
      /\ stats.unsafe_mem = SumFunction([m \in Sizes |-> m * f[m]])
  BY DEF OnceInv, FirstSizes, f, h
<1>9. /\ stats'.total_unsafe_objs = SumFunction(g)
      /\ stats'.unsafe_mem = SumFunction([m \in Sizes |-> m * g[m]])
  BY <1>3, <1>7, <1>8
<1>10. ASSUME NEW c \in Classes
       PROVE  stats'.unsafe_size_histogram[c] = SumFunctionOnSet(g, Grouped(c))
  <2>1. SumFunctionOnSet(g, Grouped(c))
          = SumFunctionOnSet(f, Grouped(c)) + (IF Class(n) = c THEN 1 ELSE 0)
    BY <1>0, <1>1, <1>6, GroupSum
  <2>2. Classified(h, n)[c] = h[c] + (IF Class(n) = c THEN 1 ELSE 0)
    BY <1>0, <1>4 DEF Classified
  <2> QED
    BY <1>3, <1>8, <2>1, <2>2
<1> QED
  BY <1>9, <1>10 DEF OnceInv, FirstSizes, g

\* No other step changes the counters of unsafe objects, or the first accesses.
LEMMA OnceStep ==
    ASSUME TrackInv, LookInv, UnsafeInv, OnceInv, NEW t \in Threads, ThreadStep(t)
    PROVE  OnceInv'
<1>0. BaseInv /\ TypeInv /\ FlagInv /\ history \in Histories
  BY DEF TrackInv, CoreInv, BaseInv, TypeInv
<1>1. CASE MarkUnsafe(t) /\ op[t].found \notin live_unsafe_objs
  BY <1>1, OnceMark
<1>2. CASE ~ (MarkUnsafe(t) /\ op[t].found \notin live_unsafe_objs)
  <2>1. /\ stats'.unsafe_size_histogram = stats.unsafe_size_histogram
        /\ stats'.total_unsafe_objs = stats.total_unsafe_objs
        /\ stats'.unsafe_mem = stats.unsafe_mem
    BY <1>0, <1>2, StatsFrame, AllocCounts, ClassifyCounts, DeallocCounts, InsertCounts,
       RemoveUnsafeCounts, MarkCounts
  <2>2. history'.firsts = history.firsts
    <3>1. CASE ~ MarkUnsafe(t)
      BY <3>1, UnsafeSets
    <3>2. CASE MarkUnsafe(t)
      <4> DEFINE o == op[t].found
      <4>1. o \in Addrs /\ mem[o] \in Sizes /\ Touch(o)
        BY <3>2, MarksObject
      <4>2. o \in history.touched
        BY <1>2, <3>2, MarksOnce
      <4> HIDE DEF o
      <4> QED
        BY <1>0, <4>1, <4>2, TouchFacts
    <3> QED
      BY <3>1, <3>2
  <2> QED
    BY <2>1, <2>2 DEF OnceInv, FirstSizes
<1> QED
  BY <1>1, <1>2

\* Neither does the destructor.
LEMMA UnsafeDump ==
    ASSUME TrackInv, UnsafeInv, OnceInv, DumpStep \/ UNCHANGED vars
    PROVE  UnsafeInv' /\ OnceInv'
<1>1. /\ mem' = mem /\ live_unsafe_objs' = live_unsafe_objs /\ op' = op
      /\ history'.touched = history.touched /\ history'.firsts = history.firsts
      /\ \A t \in Threads : pc'[t] = pc[t] \/ (pc[t] \in Idle /\ pc'[t] \in Idle)
  BY DumpAside DEF TrackInv, CoreInv, BaseInv
<1>2. \A t \in Threads : pc'[t] = "free" <=> pc[t] = "free"
  BY <1>1 DEF Idle
<1>3. /\ stats'.unsafe_size_histogram = stats.unsafe_size_histogram
      /\ stats'.total_unsafe_objs = stats.total_unsafe_objs
      /\ stats'.unsafe_mem = stats.unsafe_mem
  BY DumpKeeps, StutterFrame DEF TrackInv, CoreInv, BaseInv
<1>4. UnsafeInv'
  BY <1>1, <1>2 DEF UnsafeInv, Moving
<1>5. OnceInv'
  BY <1>1, <1>3 DEF OnceInv, FirstSizes
<1> QED
  BY <1>4, <1>5

\* There are none at the start.
LEMMA OnceInit == ASSUME Init PROVE UnsafeInv /\ OnceInv
<1>1. UnsafeInv
  <2>1. DOMAIN mem = {} /\ live_unsafe_objs = {} /\ \A t \in Threads : op[t].call = "none"
    BY DEF Init, NoOp
  <2> QED
    BY <2>1 DEF UnsafeInv
<1>2. /\ history.firsts \in [Sizes -> Nat] /\ \A n \in Sizes : history.firsts[n] = 0
      /\ \A c \in Classes : stats.unsafe_size_histogram[c] = 0
      /\ stats.total_unsafe_objs = 0 /\ stats.unsafe_mem = 0
  BY DEF Init
<1>3. FirstSizes \in [Sizes -> Nat] /\ \A n \in Sizes : FirstSizes[n] = 0
  <2>1. \A n \in Sizes : n \in Nat /\ FirstSizes[n] = n * history.firsts[n]
    BY SizesFacts DEF FirstSizes
  <2>2. \A n \in Nat : n * 0 = 0
    OBVIOUS
  <2>3. \A n \in Sizes : FirstSizes[n] = 0
    BY <1>2, <2>1, <2>2
  <2>4. FirstSizes = [n \in Sizes |-> n * history.firsts[n]]
    BY DEF FirstSizes
  <2> QED
    BY <2>3, <2>4
<1>4. IsFiniteSet(Sizes)
  BY SizesFacts
<1>5. SumFunction(history.firsts) = 0 /\ SumFunction(FirstSizes) = 0
  BY <1>2, <1>3, <1>4, SumOnDomain, SumZero
<1>6. ASSUME NEW c \in Classes PROVE SumFunctionOnSet(history.firsts, Grouped(c)) = 0
  <2>1. Grouped(c) \subseteq Sizes
    BY DEF Grouped
  <2>2. IsFiniteSet(Grouped(c))
    BY <1>4, <2>1, FS_Subset
  <2> QED
    BY <1>2, <2>1, <2>2, SumZero
<1>7. OnceInv
  BY <1>2, <1>5, <1>6 DEF OnceInv
<1> QED
  BY <1>1, <1>7

\* What the lookups find, the two maps and the counters fit each other and the memory.
AccountInv == TrackInv /\ LookInv /\ UnsafeInv /\ OnceInv

\* They do, while no memory is handed out again before the realloc that gave it back is
\* recorded.
THEOREM AccountInvariant ==
    ASSUME ReuseInWindow = FALSE
    PROVE  Spec => []AccountInv
<1>1. Init => AccountInv
  <2>1. Init => LookInv
    BY DEF Init, LookInv, Looked, Found
  <2> QED
    BY <2>1, TrackInit, OnceInit DEF AccountInv
<1>2. AccountInv /\ [Next]_vars => AccountInv'
  BY NextSteps, TrackNext, LookNext, UnsafeStep, OnceStep, UnsafeDump
     DEF AccountInv, TrackInv, CoreInv, BaseInv
<1> QED
  BY <1>1, <1>2, PTL DEF Spec

\* An object is counted as unsafe when unsafe code first accesses it, once, with the
\* size it has then and in the documented class, while no memory is handed out again before
\* the realloc that gave it back is recorded.
THEOREM UnsafeExact ==
    ASSUME ReuseInWindow = FALSE
    PROVE  Spec => []UnsafeCountedOnce
<1>1. AccountInv => UnsafeCountedOnce
  BY DEF AccountInv, OnceInv, FirstSizes, Grouped, UnsafeCountedOnce
<1> QED
  BY <1>1, AccountInvariant, PTL
-----------------------------------------------------------------------------
(* The account of unsafe objects                                            *)

\* Blocks do not overlap, so that the one found is all there is at an address.
LEMMA ObjectsHere ==
    ASSUME TypeInv, BlockInv, NEW addr, NEW found,
           IF addr \in NotHeap THEN found = None
           ELSE found \in DOMAIN mem /\ addr \in Bytes(found, mem[found])
    PROVE  Account!ObjectsAt(addr) = {found} \ {None}
<1>1. \A b : b \in Account!ObjectsAt(addr) <=> b \in DOMAIN mem /\ addr \in Bytes(b, mem[b])
  BY DEF Account!ObjectsAt, Account!Within, Bytes
<1>2. None \notin DOMAIN mem
  BY AddrFacts DEF TypeInv
<1>3. CASE addr \in NotHeap
  <2>1. \A b \in DOMAIN mem : addr \notin Bytes(b, mem[b])
    BY <1>3 DEF BlockInv
  <2>2. Account!ObjectsAt(addr) = {}
    BY <1>1, <2>1
  <2> QED
    BY <1>3, <2>2
<1>4. CASE addr \notin NotHeap
  <2>1. found \in DOMAIN mem /\ addr \in Bytes(found, mem[found])
    BY <1>4
  <2>2. \A b \in DOMAIN mem : addr \in Bytes(b, mem[b]) => b = found
    BY <2>1 DEF BlockInv
  <2>3. Account!ObjectsAt(addr) = {found}
    BY <1>1, <2>1, <2>2
  <2> QED
    BY <1>2, <2>1, <2>3
<1> QED
  BY <1>3, <1>4

\* What a thread asks and knows, by where it is.
LEMMA ViewFacts ==
    ASSUME BaseInv, NEW t \in Threads
    PROVE  /\ Asked[t] = IF op[t].call = "access" THEN {op[t].addr} ELSE {}
           /\ Known[t] = IF pc[t] \in Found THEN {{op[t].found} \ {None}} ELSE {}
           /\ pc[t] \in Found => op[t].call = "access"
<1>1. Called(t) /\ op[t] \in Requests
  BY DEF BaseInv, CallInv, TypeInv
<1>2. pc[t] \in Found => op[t].call = "access"
  BY <1>1 DEF Called, Idle, Inserting, Removing, RemovingUnsafe, Searching, Found, Requests
<1> QED
  BY <1>2 DEF Asked, Known, Found

\* A step changes the view of its own thread only.
LEMMA ViewStep ==
    ASSUME BaseInv, NEW t \in Threads, ThreadStep(t)
    PROVE  /\ Asked' = [Asked EXCEPT ![t] = Asked'[t]]
           /\ Known' = [Known EXCEPT ![t] = Known'[t]]
<1>1. \A u \in Threads \ {t} : pc'[u] = pc[u] /\ op'[u] = op[u]
  BY AsideOthers DEF BaseInv
<1>2. \A u \in Threads \ {t} : Asked'[u] = Asked[u] /\ Known'[u] = Known[u]
  BY <1>1 DEF Asked, Known
<1>3. /\ Asked = [u \in Threads |-> Asked[u]] /\ Asked' = [u \in Threads |-> Asked'[u]]
      /\ Known = [u \in Threads |-> Known[u]] /\ Known' = [u \in Threads |-> Known'[u]]
  BY DEF Asked, Known
<1> HIDE DEF Asked, Known
<1> QED
  BY <1>2, <1>3

\* What is not seen of a step that begins, ends and informs no access.
LEMMA ViewQuiet ==
    ASSUME BaseInv, BaseInv', NEW t \in Threads, ThreadStep(t),
           ~ (Access(t) \/ FindHeapObj(t) \/ AccessSafe(t) \/ MarkUnsafe(t))
    PROVE  Asked' = Asked /\ Known' = Known
<1> DEFINE Same == Asked'[t] = Asked[t] /\ Known'[t] = Known[t]
<1>0. /\ t \in DOMAIN pc /\ t \in DOMAIN op /\ op[t] \in Requests /\ op'[t] \in Requests
      /\ TypeInv /\ Called(t) /\ Called(t)'
  BY DEF BaseInv, TypeInv, CallInv
<1>1. ASSUME pc[t] \notin Searching \cup Found, pc'[t] \notin Searching \cup Found PROVE Same
  <2>1. op[t].call # "access" /\ op'[t].call # "access"
    BY <1>0, <1>1 DEF Called
  <2>2. Asked[t] = {} /\ Known[t] = {}
    BY <1>1, <2>1 DEF Asked, Known, Found
  <2>3. Asked'[t] = {} /\ Known'[t] = {}
    BY <1>1, <2>1 DEF Asked, Known, Found
  <2> QED
    BY <2>2, <2>3
<1>2. ASSUME op'[t] = op[t], pc'[t] \in Found <=> pc[t] \in Found PROVE Same
  BY <1>2 DEF Asked, Known, Found
<1> HIDE DEF Same
<1>3. ASSUME Alloc(t) \/ ClassifyObj(t) \/ Dealloc(t) \/ Realloc(t) \/ SystemDealloc(t) PROVE Same
  <2>1. pc[t] \in {"app", "classify", "free"} /\ pc'[t] \in {"app", "classify", "insert", "remove"}
    BY <1>0, <1>3, AllocFacts, ClassifyObjEffect, DeallocFacts, ReallocFacts, SystemDeallocEffect
       DEF Reallocated, Moves
  <2> QED
    BY <1>1, <2>1 DEF Searching, Found
<1>4. ASSUME LockInsert(t) \/ LockRemove(t) \/ LockRemoveUnsafe(t) \/ InsertObj(t) \/ RemoveObj(t)
      PROVE  Same
  <2>1. /\ pc[t] \in {"insert", "remove", "remove unsafe", "inserting", "removing"}
        /\ pc'[t] \in {"inserting", "removing", "removing unsafe", "app", "remove unsafe"}
    BY <1>0, <1>4, LockInsertEffect, LockRemoveEffect, LockRemoveUnsafeEffect, InsertObjEffect,
       RemoveObjEffect DEF Moves, BaseInv
  <2> QED
    BY <1>1, <2>1 DEF Searching, Found
<1>5. ASSUME RemoveUnsafeObj(t) PROVE Same
  <2>1. pc[t] = "removing unsafe" /\ pc'[t] \in {"free", "classify"}
    BY <1>0, <1>5, RemoveUnsafeObjEffect DEF Moves
  <2> QED
    BY <1>1, <2>1 DEF Searching, Found
<1>6. ASSUME LockFind(t) \/ LockMark(t) \/ AccessUnsafe(t) PROVE Same
  <2>1. /\ op' = op
        /\ \/ pc[t] = "find" /\ pc'[t] = "finding"
           \/ pc[t] \in {"mark", "found"} /\ pc'[t] \in {"marking", "mark"}
    BY <1>0, <1>6, LockFindEffect, LockMarkEffect, AccessUnsafeEffect DEF Moves
  <2> QED
    BY <1>2, <2>1 DEF Found
<1>7. Same
  BY <1>3, <1>4, <1>5, <1>6 DEF ThreadStep
<1>8. Asked'[t] = Asked[t] /\ Known'[t] = Known[t]
  BY <1>7 DEF Same
<1>9. Asked' = [Asked EXCEPT ![t] = Asked[t]] /\ Known' = [Known EXCEPT ![t] = Known[t]]
  BY <1>8, ViewStep
<1>10. Asked = [u \in Threads |-> Asked[u]] /\ Known = [u \in Threads |-> Known[u]]
  BY DEF Asked, Known
<1> HIDE DEF Asked, Known
<1> QED
  BY <1>9, <1>10

\* Only a first access changes the count.
LEMMA CountedStep ==
    ASSUME TypeInv, FlagInv, NEW t \in Threads, ThreadStep(t),
           ~ (MarkUnsafe(t) /\ op[t].found \notin live_unsafe_objs)
    PROVE  Counted' = Counted
<1>1. /\ stats'.unsafe_size_histogram = stats.unsafe_size_histogram
      /\ stats'.total_unsafe_objs = stats.total_unsafe_objs
      /\ stats'.unsafe_mem = stats.unsafe_mem
  BY StatsFrame, AllocCounts, ClassifyCounts, DeallocCounts, InsertCounts, RemoveUnsafeCounts,
     MarkCounts
<1> QED
  BY <1>1 DEF Counted

\* A range that the system allocator hands out has no object in it.
LEMMA RangeAvailable ==
    ASSUME NEW b, NEW n, NEW own, Free(b, n, own)
    PROVE  Account!Available(b, n, own)
<1>1. Bytes(b, n) \subseteq Addrs \ NotHeap
  BY FreeFacts
<1>2. ASSUME NEW addr \in Bytes(b, n), NEW c \in Account!ObjectsAt(addr)
      PROVE  c = own
  <2>1. c \in DOMAIN mem /\ addr \in Bytes(c, mem[c])
    BY <1>2 DEF Account!ObjectsAt, Account!Within, Bytes
  <2> QED
    BY <1>2, <2>1, FreeFacts
<1> QED
  BY <1>1, <1>2 DEF Account!Available, Account!Within, Bytes

\* A block that no access is to is unused.
LEMMA BlockUnused ==
    ASSUME NEW b,
           \A t \in Threads : op[t].call = "access" => op[t].addr \notin Bytes(b, mem[b])
    PROVE  Account!Unused(b)
<1>1. ASSUME NEW t \in Threads, NEW addr \in Asked[t] PROVE b \notin Account!ObjectsAt(addr)
  <2>1. op[t].call = "access" /\ addr = op[t].addr
    BY <1>1 DEF Asked
  <2>2. addr \notin Bytes(b, mem[b])
    BY <2>1
  <2> QED
    BY <2>2 DEF Account!ObjectsAt, Account!Within, Bytes
<1> QED
  BY <1>1 DEF Account!Unused

\* From here to MarkAccount: each action that is seen from outside is one of the account's.
LEMMA AllocAccount ==
    ASSUME TrackInv, TrackInv', NEW t \in Threads, Alloc(t)
    PROVE  \E b \in Addrs, n \in Sizes : Account!Allocate(b, n)
<1>0. BaseInv /\ BaseInv' /\ TypeInv /\ FlagInv /\ ThreadStep(t)
  BY DEF TrackInv, CoreInv, BaseInv, ThreadStep
<1>1. PICK b \in Addrs, n \in Sizes : /\ Free(b, n, None) /\ mem' = Put(mem, b, n)
                                      /\ pc[t] = "app" /\ pc'[t] = "classify"
  BY <1>0, AllocFacts
<1>2. b \notin DOMAIN mem
  BY <1>0, <1>1, FreeIsFresh, AddrFacts
<1>3. Account!Available(b, n, b)
  <2>1. Account!Available(b, n, None)
    BY <1>1, RangeAvailable
  <2>2. \A addr : None \notin Account!ObjectsAt(addr)
    BY <1>0, AddrFacts DEF TypeInv, Account!ObjectsAt
  <2> QED
    BY <2>1, <2>2 DEF Account!Available
<1>4. mem' = Account!Replaced(b, b, n)
  <2>1. DOMAIN mem \cup {b} = (DOMAIN mem \ {b}) \cup {b}
    OBVIOUS
  <2> QED
    BY <1>1, <2>1 DEF Put, Account!Replaced
<1>5. ~ (Access(t) \/ FindHeapObj(t) \/ AccessSafe(t) \/ MarkUnsafe(t))
  BY <1>0, <1>1, AccessEffect, FindFacts, AccessSafeEffect, MarkUnsafeEffect DEF Moves, TypeInv
<1>6. Asked' = Asked /\ Known' = Known /\ Counted' = Counted
  BY <1>0, <1>5, ViewQuiet, CountedStep
<1>7. history' = history
  BY DEF Alloc
<1> QED
  BY <1>2, <1>3, <1>4, <1>6, <1>7 DEF Account!Allocate

LEMMA ReallocAccount ==
    ASSUME TrackInv, TrackInv', NEW t \in Threads, Realloc(t)
    PROVE  \E b \in DOMAIN mem, c \in Addrs, n \in Sizes : Account!Reallocate(b, c, n)
<1>0. BaseInv /\ BaseInv' /\ TypeInv /\ FlagInv /\ ThreadStep(t)
  BY DEF TrackInv, CoreInv, BaseInv, ThreadStep
<1>1. PICK b \in DOMAIN mem, c \in Addrs, n \in Sizes : Reallocated(t, b, c, n)
  BY <1>0, ReallocFacts
<1>2. /\ Users(b) = {} /\ Free(c, n, b) /\ mem' = Put(Drop(mem, b), c, n)
      /\ pc[t] = "app" /\ pc'[t] \in {"insert", "remove"}
      /\ op'[t].new = c /\ op'[t].old = b
  BY <1>1 DEF Reallocated
<1>3. Account!Unused(b)
  BY <1>2, UnusedBlock, BlockUnused
<1>4. Account!Available(c, n, b)
  BY <1>2, RangeAvailable
<1>5. mem' = Account!Replaced(b, c, n)
  <2>1. /\ DOMAIN Drop(mem, b) = DOMAIN mem \ {b}
        /\ \A d \in DOMAIN mem \ {b} : Drop(mem, b)[d] = mem[d]
    BY DropFacts
  <2> DEFINE f == Drop(mem, b)
  <2>2. mem' = [z \in DOMAIN f \cup {c} |-> IF z = c THEN n ELSE f[z]]
    BY <1>2 DEF Put
  <2> HIDE DEF f
  <2>3. DOMAIN f = DOMAIN mem \ {b} /\ \A d \in DOMAIN mem \ {b} : f[d] = mem[d]
    BY <2>1 DEF f
  <2> QED
    BY <2>2, <2>3 DEF Account!Replaced
<1>6. ~ (Access(t) \/ FindHeapObj(t) \/ AccessSafe(t) \/ MarkUnsafe(t))
  BY <1>0, <1>2, AccessEffect, FindFacts, AccessSafeEffect, MarkUnsafeEffect DEF Moves, TypeInv
<1>7. Asked' = Asked /\ Known' = Known /\ Counted' = Counted
  BY <1>0, <1>6, ViewQuiet, CountedStep
<1>8. history'.touched = history.touched \ ({b} \ {c})
  BY <1>0, <1>2, ReallocHistory
<1> QED
  BY <1>3, <1>4, <1>5, <1>7, <1>8 DEF Account!Reallocate

LEMMA FreeAccount ==
    ASSUME TrackInv, TrackInv', NEW t \in Threads, SystemDealloc(t)
    PROVE  \E b \in DOMAIN mem : Account!Free(b)
<1>0. BaseInv /\ BaseInv' /\ TypeInv /\ FlagInv /\ BlockInv /\ ThreadStep(t)
  BY DEF TrackInv, CoreInv, BaseInv, ThreadStep
<1> DEFINE b == op[t].old
<1>1. /\ b \in DOMAIN mem /\ op[t].call = "dealloc" /\ mem' = Drop(mem, b)
      /\ history'.touched = history.touched \ {b} /\ pc[t] = "free" /\ pc'[t] = "app"
  BY <1>0, SystemDeallocHistory
<1>2. Holds(t, b)
  BY <1>1 DEF Holds
<1> HIDE DEF b
<1>3. ASSUME NEW u \in Threads, op[u].call = "access" PROVE op[u].addr \notin Bytes(b, mem[b])
  <2>1. op[u].addr \in NotHeap \/ \E c \in Loose : op[u].addr \in Bytes(c, mem[c])
    BY <1>0, <1>3 DEF BaseInv, ReachInv, Reached
  <2>2. b \notin Loose /\ Loose \subseteq DOMAIN mem
    BY <1>2 DEF Loose
  <2> QED
    BY <1>0, <1>1, <2>1, <2>2 DEF BlockInv
<1>4. Account!Unused(b)
  BY <1>3, BlockUnused
<1>5. mem' = Account!Without(b)
  BY <1>1, Zenon DEF Drop, Restrict, Account!Without
<1>6. ~ (Access(t) \/ FindHeapObj(t) \/ AccessSafe(t) \/ MarkUnsafe(t))
  BY <1>0, <1>1, AccessEffect, FindFacts, AccessSafeEffect, MarkUnsafeEffect DEF Moves, TypeInv
<1>7. Asked' = Asked /\ Known' = Known /\ Counted' = Counted
  BY <1>0, <1>6, ViewQuiet, CountedStep
<1> QED
  BY <1>1, <1>4, <1>5, <1>7 DEF Account!Free

LEMMA AccessAccount ==
    ASSUME TrackInv, TrackInv', NEW t \in Threads, Access(t)
    PROVE  \E addr \in Addrs : Account!Access(t, addr)
<1>0. BaseInv /\ BaseInv' /\ TypeInv /\ FlagInv /\ BlockInv /\ ThreadStep(t) /\ Called(t)
  BY DEF TrackInv, CoreInv, BaseInv, CallInv, ThreadStep
<1>1. PICK addr \in Accessible :
        /\ Moves(t, "app", "find") /\ Asks(t, AccessRequest(addr)) /\ mem' = mem
  BY AccessEffect
<1>2. /\ pc[t] = "app" /\ pc'[t] = "find" /\ op'[t].call = "access" /\ op'[t].addr = addr
  BY <1>0, <1>1 DEF Moves, Asks, AccessRequest, TypeInv
<1>3. Asked[t] = {} /\ Known[t] = {} /\ op[t].call = "none"
  BY <1>0, <1>2, ViewFacts DEF Found, Called, Idle
<1>4. Asked'[t] = {addr} /\ Known'[t] = {}
  BY <1>2 DEF Asked, Known
<1>5. addr \in Addrs
  BY <1>0, AccessibleAddrs
<1>6. addr \in NotHeap \/ Account!ObjectsAt(addr) # {}
  <2>1. ASSUME NEW b \in DOMAIN mem, addr \in Bytes(b, mem[b]) PROVE b \in Account!ObjectsAt(addr)
    BY <2>1 DEF Account!ObjectsAt, Account!Within, Bytes
  <2> QED
    BY <2>1 DEF Accessible
<1>7. ~ MarkUnsafe(t)
  BY <1>2, MarkUnsafeEffect DEF Moves
<1>8. Counted' = Counted /\ history' = history
  BY <1>0, <1>7, CountedStep DEF Access
<1>9. Known = [Known EXCEPT ![t] = Known[t]]
  BY DEF Known
<1>10. Asked' = [Asked EXCEPT ![t] = {addr}] /\ Known' = Known
  BY <1>0, <1>3, <1>4, <1>9, ViewStep, Zenon
<1> QED
  BY <1>1, <1>3, <1>5, <1>6, <1>8, <1>10 DEF Account!Access

LEMMA FindAccount ==
    ASSUME TrackInv, LookInv', NEW t \in Threads, FindHeapObj(t)
    PROVE  \E addr \in Asked[t] : Account!Tell(t, addr)
<1>0. BaseInv /\ TypeInv /\ FlagInv /\ BlockInv /\ ThreadStep(t)
  BY DEF TrackInv, CoreInv, BaseInv, ThreadStep
<1> DEFINE addr == op[t].addr
           found == op'[t].found
<1>1. /\ op[t].call = "access" /\ addr \in Addrs /\ op'[t].addr = addr
      /\ pc[t] = "finding" /\ pc'[t] = "found"
  BY <1>0, FindFacts
<1>2. mem' = mem /\ history' = history /\ op'[t].call = "access"
  BY <1>0, <1>1, FindHeapObjEffect DEF FindHeapObj, TypeInv
<1>3. IF addr \in NotHeap THEN found = None
      ELSE found \in DOMAIN mem /\ addr \in Bytes(found, mem[found])
  <2>1. Looked(t)'
    BY DEF LookInv
  <2>2. Loose' \subseteq DOMAIN mem'
    BY DEF Loose
  <2> QED
    BY <1>1, <1>2, <2>1, <2>2 DEF Looked, Found
<1>4. Account!ObjectsAt(addr) = {found} \ {None}
  BY <1>0, <1>3, ObjectsHere
<1>5. Asked[t] = {addr} /\ Known[t] = {}
  BY <1>0, <1>1, ViewFacts DEF Found
<1>6. Asked'[t] = {addr} /\ Known'[t] = {{found} \ {None}}
  BY <1>1, <1>2 DEF Asked, Known
<1>7. ~ MarkUnsafe(t)
  BY <1>1, MarkUnsafeEffect DEF Moves
<1>8. Counted' = Counted
  BY <1>0, <1>7, CountedStep
<1>9. Asked = [Asked EXCEPT ![t] = Asked[t]]
  BY DEF Asked
<1> HIDE DEF addr, found
<1>10. Asked' = Asked /\ Known' = [Known EXCEPT ![t] = {Account!ObjectsAt(addr)}]
  BY <1>0, <1>4, <1>5, <1>6, <1>9, ViewStep, Zenon
<1>11. Account!Tell(t, addr)
  BY <1>2, <1>5, <1>8, <1>10 DEF Account!Tell
<1> QED
  BY <1>5, <1>11

\* What a thread knows when it returns is still so.
LEMMA ReturnAccount ==
    ASSUME TrackInv, LookInv, NEW t \in Threads, ThreadStep(t), pc[t] \in Found, op'[t] = NoOp,
           pc'[t] = "app"
    PROVE  Account!Return(t)
<1>0. BaseInv /\ TypeInv /\ BlockInv /\ Looked(t)
  BY DEF TrackInv, CoreInv, BaseInv, LookInv
<1>1. Asked[t] = {op[t].addr} /\ Known[t] = {{op[t].found} \ {None}}
  BY <1>0, ViewFacts
<1>2. IF op[t].addr \in NotHeap THEN op[t].found = None
      ELSE op[t].found \in DOMAIN mem /\ op[t].addr \in Bytes(op[t].found, mem[op[t].found])
  BY <1>0 DEF Looked, Loose
<1>3. Known[t] = {Account!ObjectsAt(op[t].addr)}
  BY <1>0, <1>1, <1>2, ObjectsHere
<1>4. Asked'[t] = {} /\ Known'[t] = {}
  BY DEF Asked, Known, NoOp
<1>5. Asked' = [Asked EXCEPT ![t] = {}] /\ Known' = [Known EXCEPT ![t] = {}]
  BY <1>0, <1>4, ViewStep
<1> HIDE DEF Asked, Known
<1> QED
  BY <1>1, <1>3, <1>5 DEF Account!Return

LEMMA SafeAccount ==
    ASSUME TrackInv, LookInv, NEW t \in Threads, AccessSafe(t)
    PROVE  Account!AccessedSafely(t)
<1>0. BaseInv /\ TypeInv /\ FlagInv /\ ThreadStep(t)
  BY DEF TrackInv, CoreInv, BaseInv, ThreadStep
<1>1. pc[t] = "found" /\ pc'[t] = "app" /\ op'[t] = NoOp /\ mem' = mem /\ history' = history
  BY <1>0, AccessSafeEffect DEF Moves, Asks, TypeInv, AccessSafe
<1>2. ~ MarkUnsafe(t)
  BY <1>1, MarkUnsafeEffect DEF Moves
<1>3. Counted' = Counted
  BY <1>0, <1>2, CountedStep
<1>4. Account!Return(t)
  BY <1>0, <1>1, ReturnAccount DEF Found
<1> QED
  BY <1>1, <1>3, <1>4 DEF Account!AccessedSafely

LEMMA MarkAccount ==
    ASSUME TrackInv, LookInv, UnsafeInv, NEW t \in Threads, MarkUnsafe(t)
    PROVE  \E b \in DOMAIN mem : Account!Accessed(t, b)
<1>0. BaseInv /\ TypeInv /\ FlagInv /\ ThreadStep(t) /\ history \in Histories
  BY DEF TrackInv, CoreInv, BaseInv, TypeInv, ThreadStep
<1> DEFINE b == op[t].found
           n == op[t].size
           h == stats.unsafe_size_histogram
<1>1. /\ b \in DOMAIN mem /\ b \in Addrs /\ n = mem[b] /\ n \in Sizes
      /\ mem' = mem /\ pc[t] = "marking" /\ op'[t] = NoOp
  BY MarksObject
<1>2. pc'[t] = "app"
  BY <1>0, MarkUnsafeEffect DEF Moves, TypeInv
<1>3. Account!Return(t)
  BY <1>0, <1>1, <1>2, ReturnAccount DEF Found
<1>4. Known[t] = {{b}}
  <2>1. Known[t] = {{b} \ {None}}
    BY <1>0, <1>1, ViewFacts DEF Found
  <2> QED
    BY <1>1, <2>1, AddrFacts
<1>5. history'.touched = history.touched \cup {b}
  BY <1>0, <1>1, MarksObject, TouchFacts
<1>6. b \in live_unsafe_objs <=> b \in history.touched
  BY MarksOnce
<1>7. ASSUME b \in history.touched PROVE Counted' = Counted
  BY <1>0, <1>6, <1>7, CountedStep
<1>8. ASSUME b \notin history.touched PROVE Counted' = Account!CountFirst(mem[b])
  <2>1. /\ stats'.unsafe_mem = stats.unsafe_mem + n
        /\ stats'.total_unsafe_objs = stats.total_unsafe_objs + 1
        /\ stats'.unsafe_size_histogram = Classified(h, n)
    BY <1>0, <1>6, <1>8, MarkCounts
  <2>2. h \in [Classes -> Nat]
    BY <1>0 DEF TypeInv, Counters
  <2>3. ASSUME NEW c \in Classes PROVE Class(n) = c <=> Account!InClass(n, c)
    <3>1. n \in Grouped(c) <=> Class(n) = c
      BY <1>1, GroupFacts
    <3>2. c + 1 \in Classes <=> c < OBJ_SIZE_NUM - 1
      BY BoundsFacts DEF Classes
    <3> QED
      BY <1>1, <3>1, <3>2 DEF Grouped, Account!InClass
  <2> HIDE DEF h, n
  <2>4. Classified(h, n) = [c \in Classes |-> IF Account!InClass(n, c) THEN h[c] + 1 ELSE h[c]]
    BY <2>2, <2>3 DEF Classified
  <2>5. Counted = [objects |-> stats.total_unsafe_objs, bytes |-> stats.unsafe_mem, sizes |-> h]
    BY DEF Counted, h
  <2>6. Counted' = [objects |-> stats.total_unsafe_objs + 1, bytes |-> stats.unsafe_mem + n,
                    sizes |-> Classified(h, n)]
    BY <2>1 DEF Counted
  <2> QED
    BY <1>1, <2>4, <2>5, <2>6 DEF Account!CountFirst
<1> HIDE DEF b, n, h
<1>9. Account!Accessed(t, b)
  BY <1>1, <1>3, <1>4, <1>5, <1>7, <1>8 DEF Account!Accessed
<1> QED
  BY <1>1, <1>9

\* Every other step leaves the account as it is.
LEMMA QuietAccount ==
    ASSUME TrackInv, TrackInv', NEW t \in Threads, ThreadStep(t),
           ~ (Alloc(t) \/ Realloc(t) \/ SystemDealloc(t)),
           ~ (Access(t) \/ FindHeapObj(t) \/ AccessSafe(t) \/ MarkUnsafe(t))
    PROVE  UNCHANGED Account!vars
<1>1. BaseInv /\ BaseInv' /\ TypeInv /\ FlagInv
  BY DEF TrackInv, CoreInv, BaseInv
<1>2. mem' = mem /\ history'.touched = history.touched
  <2>1. ClassifyObj(t) => history'.touched = history.touched
    BY <1>1, ClassifyCounts DEF TypeInv, Histories
  <2> QED
    BY <2>1, MemFrame, HistoryFrame
<1>3. Asked' = Asked /\ Known' = Known /\ Counted' = Counted
  BY <1>1, ViewQuiet, CountedStep
<1> QED
  BY <1>2, <1>3 DEF Account!vars

\* The destructor does too.
LEMMA DumpAccount ==
    ASSUME TrackInv, DumpStep \/ UNCHANGED vars
    PROVE  UNCHANGED Account!vars
<1>1. /\ mem' = mem /\ op' = op /\ history'.touched = history.touched
      /\ \A t \in Threads : pc'[t] = pc[t] \/ (pc[t] \in Idle /\ pc'[t] \in Idle)
  BY DumpAside DEF TrackInv, CoreInv, BaseInv
<1>2. \A t \in Threads : pc'[t] \in Found <=> pc[t] \in Found
  BY <1>1 DEF Idle, Found
<1>3. /\ stats'.unsafe_size_histogram = stats.unsafe_size_histogram
      /\ stats'.total_unsafe_objs = stats.total_unsafe_objs
      /\ stats'.unsafe_mem = stats.unsafe_mem
  BY DumpKeeps, StutterFrame DEF TrackInv, CoreInv, BaseInv
<1>4. Asked' = Asked /\ Known' = Known /\ Counted' = Counted
  BY <1>1, <1>2, <1>3 DEF Asked, Known, Counted, Found
<1> QED
  BY <1>1, <1>4 DEF Account!vars

\* A step of the allocator changes the objects, unless one keeps its place and its size.
LEMMA AllocatorSeen == ASSUME Account!Allocator PROVE Account!Next \/ UNCHANGED Account!vars
<1>1. ASSUME NEW b, NEW n, Account!Allocate(b, n) PROVE mem' # mem
  <2>1. b \notin DOMAIN mem /\ b \in DOMAIN mem'
    BY <1>1 DEF Account!Allocate, Account!Replaced
  <2> QED
    BY <2>1
<1>2. ASSUME NEW b \in DOMAIN mem, Account!Free(b) PROVE mem' # mem
  <2>1. b \notin DOMAIN mem'
    BY <1>2 DEF Account!Free, Account!Without
  <2> QED
    BY <1>2, <2>1
<1>3. ASSUME NEW b \in DOMAIN mem, NEW c, NEW n, Account!Reallocate(b, c, n), mem' = mem
      PROVE  UNCHANGED Account!vars
  <2>1. b = c
    <3>1. DOMAIN mem' = (DOMAIN mem \ {b}) \cup {c}
      BY <1>3 DEF Account!Reallocate, Account!Replaced
    <3> QED
      BY <1>3, <3>1
  <2>2. history'.touched = history.touched
    BY <1>3, <2>1 DEF Account!Reallocate
  <2> QED
    BY <1>3, <2>2 DEF Account!Reallocate, Account!vars
<1>4. CASE mem' # mem
  BY <1>4 DEF Account!Next
<1>5. CASE mem' = mem
  BY <1>1, <1>2, <1>3, <1>5 DEF Account!Allocator
<1> QED
  BY <1>4, <1>5

\* A hook's step changes what its thread has asked or been told.
LEMMA HooksSeen == ASSUME NEW t \in Threads, Account!Hooks(t) PROVE Account!Next
<1>1. t \in DOMAIN Asked /\ t \in DOMAIN Known
  BY DEF Asked, Known
<1> HIDE DEF Asked, Known
<1>2. Asked'[t] # Asked[t] \/ Known'[t] # Known[t]
  <2>1. ASSUME NEW addr, Account!Access(t, addr) PROVE Asked'[t] # Asked[t]
    BY <1>1, <2>1 DEF Account!Access
  <2>2. ASSUME NEW addr, Account!Tell(t, addr) PROVE Known'[t] # Known[t]
    BY <1>1, <2>2 DEF Account!Tell
  <2>3. ASSUME Account!Return(t) PROVE Asked'[t] # Asked[t]
    BY <1>1, <2>3 DEF Account!Return
  <2> QED
    BY <2>1, <2>2, <2>3 DEF Account!Hooks, Account!Accessed, Account!AccessedSafely
<1>3. <<Asked, Known>>' # <<Asked, Known>>
  BY <1>2
<1> QED
  BY <1>3 DEF Account!Next

\* Each step is one of the account's, or is not seen.
LEMMA AccountStep ==
    ASSUME TrackInv, TrackInv', LookInv, LookInv', UnsafeInv, [Next]_vars
    PROVE  [Account!Next]_(Account!vars)
<1>1. ASSUME NEW t \in Threads, ThreadStep(t) PROVE Account!Next \/ UNCHANGED Account!vars
  <2>1. CASE Alloc(t) \/ Realloc(t) \/ SystemDealloc(t)
    <3>1. Account!Allocator
      BY <2>1, AllocAccount, ReallocAccount, FreeAccount DEF Account!Allocator
    <3> QED
      BY <3>1, AllocatorSeen
  <2>2. CASE Access(t) \/ FindHeapObj(t)
    <3>1. Account!Hooks(t)
      BY <2>2, AccessAccount, FindAccount DEF Account!Hooks
    <3> QED
      BY <3>1, HooksSeen
  <2>3. CASE AccessSafe(t) \/ MarkUnsafe(t)
    <3>1. Account!Hooks(t)
      BY <2>3, SafeAccount, MarkAccount DEF Account!Hooks
    <3> QED
      BY <3>1, HooksSeen
  <2> QED
    BY <1>1, <2>1, <2>2, <2>3, QuietAccount
<1> QED
  BY <1>1, NextSteps, DumpAccount DEF TrackInv, CoreInv, BaseInv

\* At the start nothing is allocated, asked or counted.
LEMMA AccountInit == ASSUME Init PROVE Account!Init
<1>1. /\ mem = << >> /\ history.touched = {} /\ stats.total_unsafe_objs = 0 /\ stats.unsafe_mem = 0
      /\ stats.unsafe_size_histogram = [c \in Classes |-> 0]
      /\ \A t \in Threads : op[t].call = "none" /\ pc[t] = "app"
  BY DEF Init, NoOp
<1>2. Asked = [t \in Threads |-> {}] /\ Known = [t \in Threads |-> {}]
  BY <1>1 DEF Asked, Known
<1> QED
  BY <1>1, <1>2 DEF Account!Init, Counted

\* Unless memory is handed out again within realloc's window, the two maps, the lookups and
\* the counters together are the account of unsafe objects: each access finds its object, and
\* counts it if it is the first from unsafe code.
THEOREM AccountKept ==
    ASSUME ReuseInWindow = FALSE
    PROVE  Spec => ImplementsAccount
<1>1. Init => Account!Init
  BY AccountInit
<1>2. AccountInv /\ AccountInv' /\ [Next]_vars => [Account!Next]_(Account!vars)
  BY AccountStep DEF AccountInv
<1>3. Spec => []AccountInv
  BY AccountInvariant
<1> QED
  BY <1>1, <1>2, <1>3, PTL DEF Spec, ImplementsAccount, Account!Spec
=============================================================================
