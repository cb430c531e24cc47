# A verification project for the Unsafe Rust benchmark runtime

The repository measures how much `unsafe` code real Rust crates execute. A
modified compiler inserts calls of hooks into a crate; a runtime library,
`unsafe_perf_source`, implements the hooks and writes a report when the program
ends; `run_pipeline.py` builds crates against one variant of the library (one
Cargo feature per experiment), runs their benchmarks and collects the reports.
The numbers of the reports are the artifact's result, so the question of this
project is: **do the counters and the reports say what the program did**, for
every interleaving of the program's threads with one another and with the exit
of the process?

Paths below are relative to `src/unsafe_perf_source/src/` unless they say more.

## Inventory

| Component | State | Operations | Interacts with | Model |
|---|---|---|---|---|
| Thread registry (`cpu_cycle_counter.rs`) | table of `ThreadStats` (state, nine counters, times), `next_slot`, `stats_written`; per thread `THREAD_SLOT` | `initialize_thread`, `allocate_slot`, `thread_cleanup`, `pthread_create` interposition, exit report | every thread; hooks call it late; destructors | `ThreadRegistry`, `SlotPool` |
| Context accounting (`cpu_cycle_counter.rs`) | per thread `CONTEXT_STACK`, `STACK_DEPTH`; its slot's counters | `transition_state`, `push_context`, `pop_context`, the four hooks, final charge | registry (the slot), compiler pass (nesting of hooks) | `CycleContext` |
| Heap tracker (`heap_tracker.rs`) | `live_objs`, `live_unsafe_objs` under a mutex each; atomic counters; per thread `SKIP_TRACKING` | global allocator (`alloc`, `alloc_zeroed`, `dealloc`, `realloc`), access hooks, report | system allocator; its own maps allocate through it | `HeapTracker`, `UnsafeObjects` |
| Unsafe counter (`unsafe_counter.rs`) | function table, call counters, bitset, instruction counters, `stats_written` | `init_metadata`, `record_function`, `record_block`, `dump_stats` | module constructors and destructors, all threads | `UnsafeCounter` |
| Unsafe coverage (`unsafe_coverage.rs`) | two sets under a mutex each, `stats_written`, `run_counter` | register, track, percentage, `reset`, `write_stats` | constructors, all threads, output file | `UnsafeCoverage`, `CoverageSnapshots` |
| Coverage analysis (`../analyze_coverage.py`) | current section, two sets | parse the reports of all runs, percentage | output file of the coverage tracker | `CoverageReport` |
| Shared runtime (`lib.rs`) | `RUNTIME_INITIALIZED`, `GLOBAL_SKIP_TRACKING` | `write_output`, `initialize_runtime`, `get_output_dir` | all trackers; output files | `Pipeline`, in part |
| Pipeline (`src/run_pipeline.py`) | staged library, output directory, `/tmp` | `build_perf`, `run_crate`, `run_cmd` with a timeout | processes under test, output files | `Pipeline` |
| Compiler passes, prebuilt libraries, toolchain, benchmark crates, tests, container scripts, data | | | | not modelled |

What is hard in each, and what makes it correct:

- **Registry.** Threads claim slots without a lock: a scan, a compare-exchange
  on `Terminated` slots, else a `fetch_add` that is undone when the table is
  full. Slots are reused, threads retry later, and the report reads the table
  while all this goes on. Correct means: one owner per slot, no slot lost, what
  a thread recorded stays until its slot is claimed again, one report.
- **Context accounting.** Blocks and calls nest, the stack overflows silently,
  a thread may get its slot in the middle of a block. Correct means: no cycle
  lost or counted twice, and time is charged to what the thread was doing.
- **Heap tracker.** Allocation, bookkeeping and lookup are separate steps under
  separate locks, and the bookkeeping itself allocates. Correct means: the maps
  follow the memory, lookups find the object that is accessed, an object is
  counted as unsafe once, no thread waits for a lock it holds.
- **Unsafe counter.** A call is two atomic updates, the report a loop of reads.
  Correct means: the report lies between what was recorded when it began and
  when it ended, and there is one.
- **Coverage.** Two functions hold both mutexes at a time, hooks of other
  threads come between any two locks, `reset` clears four variables one by one.
  Correct means: no deadlock, what is read under the two locks fits together, a
  report is complete, and there is one for each time the flag was cleared.
- **Pipeline.** A timeout kills the shell and not the program under test; results
  are passed on through a file with a fixed name, to which every process appends.
  Correct means: libraries of different experiments never mix, a result has all
  reports of its crate, and the analysis reads out what was written in.

`PROJECT.json` lists the hazards at their lines, with the properties that would
catch each, or the reason why none does yet.

## Modules

| Module | What it is |
|---|---|
| `SlotPool` | abstract specification of the registry: accounts with at most one owner |
| `ThreadRegistry` | the registry, one action per atomic access |
| `ThreadRegistryProofs` | type correctness, exclusive slots, slots accounted for, none lost without late hooks, one report |
| `ThreadRegistryPoolProofs` | statistics kept, report bounded, refinement of `SlotPool` |
| `CycleContext` | the accounting of one thread, one action per hook |
| `CycleContextProofs` | type correctness, no time lost, stack discipline, time classified |
| `UnsafeObjects` | abstract specification of the heap tracker: an account of the objects unsafe code has accessed |
| `HeapTracker` | allocator, maps, byte totals, size classes, access hooks and report, one action per step under a lock |
| `HeapTrackerProofs` | types, no deadlock, byte total, report; map, lookups, counts, unsafe objects and refinement of `UnsafeObjects` when ranges are not reused at once |
| `UnsafeCounter` | table, hooks and report, one action per atomic access |
| `UnsafeCounterProofs` | types, bits exact, report bounded, seen functions have calls, one report |
| `CoverageSnapshots` | abstract specification of the coverage tracker: every answer is a snapshot |
| `UnsafeCoverage` | sets, percentage, report and reset, one action per critical section or atomic access |
| `UnsafeCoverageProofs` | types, no deadlock, coverage bounded, reports complete and not repeated, refinement of `CoverageSnapshots` |
| `CoverageReport` | the report's lines and the parser that reads them back |
| `Pipeline` | the loops of the pipeline, its files, and the processes that write them; extends `CoverageReport` |
| `PipelineProofs` | types, libraries apart, results complete, strangers explained, analysis right |
| `FiniteLemmas` | sums over finite sets, extremes of finite sets, joins and lists of sequences, for the proofs |
| `MC...` | names, symmetry and small workloads for the model checker |

Operators whose comment begins with *Mutant* are never used by a specification.
Each stands for a plausible mistake in the code, next to the definition it would
replace; put in its place, the checker finds the property that `PROJECT.json`
pairs it with violated.

### ThreadRegistry

`state`, `next_slot` and `stats_written` are the atomics; `cycles` stands for
the nine counters of a slot, which are reset and charged together as far as
ownership goes. `pc`, `bound`, `slot` and `back` are a thread's locals and its
place in `allocate_slot`, `initialize_thread` or the destructor. `LoadBound`,
`ScanSlot`, `ScanExhausted`, `ClaimWon`, `ClaimLost`, `ResetSlot`,
`GrowRegistry`, `UndoGrow` and `Activate` are `allocate_slot` and
`initialize_thread` step by step; `RetryInit` is a hook that finds `THREAD_SLOT`
empty; `FinalCharge`, `MarkTerminated` and `Die` are `thread_cleanup` and what
comes after it in the thread; `PrintStats` to `WriteReport` are the destructors
of the process. `LateHooks` is the set of threads whose thread-local destructors
contain instrumented code: their hooks run after `thread_cleanup` and find
`THREAD_SLOT` still set. A write to a slot's nine counters is one step; no
property tells their order apart.

A slot that has been handed out is in one of three states. A living thread has
it (`Holds`); or it is `Terminated`, and a later scan can claim it; or it is lost
(`LostBy`): a thread was refused a slot when it started, `thread_cleanup` found
none to release, a hook of a later thread-local destructor got it one, and the
thread ended. `SlotAccounting` says that there is no fourth.

`done`, `released`, `evicted` and `due` are history variables: they are read by
properties, and by no guard that the code does not have (`MaxWork` bounds
`done`).

### CycleContext

One thread, because a hook touches only its own slot and thread-locals once it
has one. `now` is the time stamp counter; it is taken to be monotonic, which the
code guards against by charging only when `now > start`. `stack` and `depth` are
`CONTEXT_STACK` and `STACK_DEPTH`; a hook of a thread without a slot either gets
one (`AttachIn`, `AttachCalling`) or does nothing (`NoSlot`), whichever the
registry decides. `calls` and `blocks` are the program: which external calls
and unsafe blocks are really open. `spent` is the time really spent in each
state, `strayed` whether the nesting has left what the hooks can follow.

### HeapTracker

`mem` is the system allocator, which may hand out any free range; the rest is
the struct and the flag. `stats` is the atomic counters: the byte totals and the
two histograms included. `op` is the request on a thread's stack. An object is
counted by the step that allocates it and entered in the histogram by a later
one, `ClassifyObj`. Every map operation is a `Lock...` action (set the flag, take
the mutex) and one that does the work. In between the tree may allocate nodes
(`AllocNode`: insertions in the map and in the set) or free them (`FreeNode`:
removals from either), through this same allocator and any number of times. Under
the flag such a request changes nothing; without it, it is one like the program's,
of which the model keeps the mutexes that it asks for. `NoCircularWait` is about
those: it fails when an operation forgets the flag, or takes the mutexes in
another order. `Realloc` gives the old range back first, as the code does (line 290),
and `op.freed` is that range until both maps have forgotten it;
`ReuseInWindow` says whether the system allocator may hand it out within that
time. `NotHeap` are addresses of stacks and statics, which hooks are also called
for. The program is assumed free of data races: it frees, moves or resizes an
object only while no other thread uses it. An allocation that fails changes
nothing and has no action. The two access hooks begin with the same lookup, and
which of them it was is told apart after it.

Sizes are in KB, so `Class` compares a size with 1, 2, 4, ... as
`classify_obj_by_size` compares bytes with their multiples of 1024; with that a
size is at, below or above a bound of a class, which is where a comparison can
be wrong. `UnsafeCountedOnce` states the classes the other way round, by the
ranges that the report prints. The subtraction and addition at the end of
`realloc` are one step, `op.growth`. `UsageBalances` says that the total is what
is allocated and what has been freed, although a reallocation is counted long after
its memory has changed hands, and never below zero.

The end of `realloc` (lines 304-309) is outside the test of the flag, so
`total_usage` also changes by the growth of memory that was never added to it. The
tracker reallocates nothing under the flag but the strings of its report, which
only grow: that is `FormatReport`, and `history.untracked` is what it adds. All
counters have been read by then, so that the report does not show it.

`history.touched` and `history.firsts` are the truth that the unsafe counters
are compared with: the live objects that unsafe code has accessed, and how many
there were of each size when it first did.

The report is a sequence of reads, between which other threads run: `DumpStats`
reads `total_alloc`, `SetFlag` `total_realloc`, and `ReadClass` one class at a time.
So its figures need not agree. `ReportConsistent` says by how much they may
differ: the classes miss, of the objects counted, at most one for each other
thread, which has counted it and not yet classified it; and they hold nothing but
objects of the program. The comment of lines 205-211 wonders why the histogram was
one too great without the flag. `PrepareFormat` has the reason: the vector of the
strings is allocated, through this allocator, after the counters were read and
before the first element of the histogram is. `SetNoFlag` does so without the flag,
and breaks the second bound.

`UnsafeObjects` is what a reader of the counters may take them for. It has no maps
and no locks: memory, the objects unsafe code has accessed, and a count of them.
An access is told at one moment which object it is to, and nobody frees or moves
that object before it returns; if the code is unsafe and the object new to the
count it is counted, with the size that it has then, in the documented class.
`Asked`, `Known` and `Counted` map a thread's request, its place and the counters
to it. `LiveTracked`, `LookupRight` and `UnsafeCountedOnce` speak of states; this
one says of each step what it may do to the account, and that it does it at once.

Left out: three counters that are added to and printed and nothing else (memory
instructions, unsafe loads, unsafe stores).

### UnsafeCounter

`InitMetadata` is a module constructor, run on the main thread before anything
else; only the first registers a table, and one that is too long registers none
and still counts as the first. A call is `CountCall` then `MarkSeen`; a block is
`CountInstruction`, then for an unsafe one `CountUnsafe` and `CountKind` (one
counter for the six kinds, one instruction per block). Atomics are sequentially
consistent here, while the code asks for `Relaxed`. On x86-64, the one
processor for which the cycle counter is built and hence all experiments exist, a
read-modify-write is a full barrier and loads are not reordered with one another.
But `lib.rs` (lines 156-157) builds this module and the heap tracker for any
architecture: elsewhere `SeenIsCalled`, and the order of a count and its class in
`ReportConsistent`, would need stronger orderings. The report keeps the
terms of the sums that it prints. `dump_stats` is called twice at exit, by the
destructor of the module and that of the library. `started` and `before` are
history.

### UnsafeCoverage

`mutex` has the holders of the two mutexes. `register_unsafe_line` and
`track_unsafe_line_execution` are one critical section each. The percentage and
`write_stats` share `LockFirst` and `LockSecond`, which differ only in who calls
them; `Locks` is the order in which they lock. `frame` is what such a call has
on its stack: the sets it has read, and, as history, the lines that had been
tracked when it began (`due`). `Swap` is `write_stats` up to the first lock: a
flag that is found set ends the call. `ResetRegistered` to `ResetCounter` are
the four statements of `reset`. `dump_coverage_at_exit` is called by the
destructors of the module and of the library, on the main thread, while others
run. A line is registered by the constructor of its module before its code
runs, which is how the compiler pass uses the functions; libraries that are
loaded later are why this goes on while lines are tracked and reports are
written. A module has one line.

`CoverageSnapshots` is what the percentage and the report promise: whoever asks
looks at both sets at one moment, and what was seen is still so at the answer.
`Asked` and `Seen` map a thread's frame to its question and its snapshot, which
is taken at `LockSecond`. A reset is no snapshot there either: it forgets one
set, then the other, then the flag, with anything in between. So the refinement
holds of every program; that the sets also fit each other is left to
`CoverageWithin100`, for programs without resets.

`history` counts what the properties relate: lines loaded and tracked, calls,
resets, clearings of the flag, reports. No guard of the code's reads it.

### CoverageReport

The report as the sequence of lines that `write_detailed_stats` formats, and
`analyze_unsafe_coverage` as a recursive function over the lines of a file.
A line is a heading, the empty line, a figure or a location. What a process
appends is two writes, the report and the newline of `writeln!`; a file is a
sequence of such writes, from any number of processes.

### Pipeline

`pc`, `exp`, `crate` and `cmd` are the three loops of `main` and `run_crate`.
`PERF_RLIB` is the library that is linked, `staged` the experiments whose files
are in the directory it is in: a shipped one is copied into a fresh directory,
others are built, after a `cargo clean` whose result the code ignores.
`disk` maps the files that exist to what has been written to them: per
experiment the common output file and its fallback in `/tmp`, and one result per
crate. `proc` is the process that a command has started: it links the library
that is staged at that moment, opens the output file, appends its report and its
newline. It can die in between. `CommandTimesOut` kills the shell; the process
goes on, or was the shell itself and ends. `Move` renames a file under a process
that has it open, which then writes on to the new name, as on any POSIX file
system. All experiments have reports of the form of the coverage report, so that
the parser can be run on every result.

The output directory is fresh, `/tmp` is not: `Leftovers` is the set of the
experiments of which an earlier use may have left a file there, and a behaviour
starts with any of these files. One of them may also be saved as a result, by the
branch of lines 336-340.

`failed`, `passed`, `unclean`, `faults` and `wrote` are history; `wrote` is what
each process has appended, wherever the file is now, so that `ResultComplete` also
sees a report that was overwritten or deleted. `MaxFaults` bounds how often
something goes wrong.

## Runs

All runs check for deadlock; where the program ends there is a stuttering step
(`Ended`, `Gone`, `Stopped`, `Finished`).

| Run | Question | Instance |
|---|---|---|
| `registry` | slots exclusive, accounted for, statistics kept, report bounded and written once; implements `SlotPool` | main and 3 threads, 2 slots, 1 unit of work each |
| `registry_live` | allocation and exit end; with hooks after `thread_cleanup` too, slots are accounted for and the report is bounded | main and 2 threads, 2 slots, one thread with late hooks |
| `registry_reuse` | is every thread in the report? **No** | main and 2 threads, 2 slots |
| `context` | no cycle lost, stack in step, time classified | stack of 2, 3 calls, 2 blocks, 5 instants |
| `context_nested` | does a block survive an inner one? **No** | stack of 3, 2 calls, 2 blocks |
| `heap` | maps, lookups, counts, byte total, no circular wait, report; implements `UnsafeObjects` | 3 threads, 3 addresses of which 1 is not heap, sizes 1 and 2, 2 classes, 3 allocations |
| `heap_moved` | the same when ranges are reused at once: are live objects tracked? **No** | 2 threads, 4 addresses |
| `counter` | bits and counters agree, report bounded and written once | 3 threads, 3 functions in words of 2 bits, 2 modules, 3 events |
| `coverage` | no deadlock, at most 100 percent, reports complete and written once; implements `CoverageSnapshots` | main and 2 threads, 2 lines, 4 calls of the functions for programmatic access |
| `pipeline` | libraries apart, results complete, strangers explained, analysis right | 3 experiments (one shipped, one built, the native one), 3 crates (two commands, skipped, one command), 2 faults |
| `pipeline_stale` | does a result hold reports of its own crate only? **No** | 1 experiment, the same crates |
| `pipeline_native` | does the native experiment leave `/tmp` alone? **No** | the native experiment, the same crates |

Why these bounds are enough for the interesting cases:

- *Registry*: more threads than slots, so that the table is full, a thread is
  refused, a slot is reused, two threads race for one terminated slot, and two
  `fetch_add`s overshoot together. One unit of work tells apart a slot that kept
  its statistics from one that lost them or got someone else's; the theorems are
  for any `MaxWork` and any number of threads and slots.
- *Context*: three calls on a stack of two overflow and return through it; two
  blocks per activation nest; five instants let time pass in every state of such
  a history. Again the theorems hold for all sizes.
- *Heap*: with addresses 0 and 1 for the heap and 2 for something else, an
  object of size 1 has a neighbour, and can move or grow in place when that is
  gone, one of size 2 has its end at foreign memory and can shrink; sizes 1 and 2
  lie in different classes, and 1 on the bound of the first. Three allocations
  with two workers let one object be freed or moved while others are looked up,
  marked and inserted, and let both workers be between a count and its class while
  main reports. `heap_moved` has one address more, room for a third object.
- *Counter*: three functions lie in two words of the bitset; three events let
  two threads meet in one word, or in one function, while main reports.
- *Coverage*: with four calls one thread can be between its two locks while another
  waits for the first and a third resets, or they print, reset and print again; two
  lines tell a module that is loaded before a report from one that is loaded
  within it. The theorems are for any number of threads, lines and calls.
- *Pipeline*: two faults let a process outlive its command and another command
  fail, or the same crate's `cargo clean` fail before; the skipped crate lies
  between the others; the first crate's two commands have their reports in one
  file. An earlier use of the pipeline may have left a library, and files in `/tmp`
  for any of the experiments with a library. The two runs that expect a violation
  start without such files, so that what they show is the pipeline's own doing.

Symmetry is used in runs of safety properties only; the threads other than
`Main` (and those with late hooks) are interchangeable there.

### Fairness

`FairSpec` of `ThreadRegistry` has weak fairness of each thread's steps within
`allocate_slot` and of main's steps in the exit path: these are straight code
and loops without locks or waiting, so the scheduler's running every runnable
thread is all they need. Nothing forces the program to call hooks, to end a
thread or to exit. `AllocationEnds` is then a property of the algorithm: the
scan is bounded by the `next_slot` it has read, and a lost compare-exchange
moves on instead of retrying.

### Disagreements between the code and its comments

The first five are a run each; the counterexamples are short.

- `registry_reuse`: *"accurate tracking of the entire lifecycle of every
  thread"* (`cpu_cycle_counter.rs:2-3`). Claiming a terminated slot zeroes its
  statistics, which nothing else has kept: the report misses that thread.
- `context_nested`: *"proper nesting context"* (line 122); open blocks are not
  counted, the first end ends them all.
- `heap_moved`: *"ranges of all active heap objects"* (`heap_tracker.rs:53`).
  `realloc` returns the old range before it removes it from the maps; a thread
  that is given the same address in between has its entry removed. The same race
  takes the new object out of the unsafe set, so that it is counted twice.
- `pipeline_stale`: *"the per-binary .stat files in the results directory are the
  source of truth"* (`run_pipeline.py:413-415`). What a failed or timed-out crate,
  or a process that outlives it, writes under the common name is there when the next
  crate ends, and is renamed as that crate's result (lines 325-334).
  `StrangersExplained` says that there is no other way, apart from reports that
  were in `/tmp` before.
- `pipeline_native`: *"compile/bench only"* (line 360). The file name of the
  native experiment is empty, and `Path("/tmp") / ""` is `/tmp`, which exists and
  is moved into the results.

Met while modelling, and not the subject of a run:

- A slot can be lost. A thread that was refused one when it started gets one from a
  hook in its thread-local destructors (`cpu_cycle_counter.rs:207`, `380`), after
  `thread_cleanup` has found none to release (lines 334-335); the slot stays
  `Active` when the thread is gone. `SlotAccounting` says that this is the only way.
- *"Maximum number of threads exceeded"* (`cpu_cycle_counter.rs:186`) is also
  reported when a slot behind the scan was released meanwhile.
- `thread_cleanup` leaves `THREAD_SLOT` set and the top context running, so a
  hook in a later thread-local destructor charges a slot that may belong to
  another thread by then, and charges the same time again.
- *"External call from unsafe code"* (line 131): a call out of an
  `ExternalUnsafe` context becomes `ExternalSafe`.
- `total_realloc` counts only the reallocations that moved their object
  (`heap_tracker.rs:294`), and `total_alloc` counts none, while the comments
  (lines 47-50) say otherwise; an object that grows or shrinks in place after
  unsafe code has accessed it leaves `unsafe_mem` at its old size.
- *"Total allocated heap objects in bytes"*: the last lines of `realloc` (304-309)
  change `total_usage` under `SKIP_TRACKING` as well, for memory that was never
  added to it (see `HeapTracker`).
- `run_counter` is a variable of the process: every process of a run of several
  numbers its report 1, while the comment speaks of multiple runs
  (`unsafe_coverage.rs:20`).
- *"percentage >= 0.0 && percentage <= 100.0"* (`lib.rs:313`), which a test asserts
  after a reset, is not so of programs that reset: only the constructors of modules
  register lines, so lines that are tracked again after `reset`, or between its
  first two statements, are executed and no longer registered.
- `GLOBAL_SKIP_TRACKING` is set by `write_output` and read by no tracker, while
  its comment (`lib.rs:82`) says that it keeps the trackers from seeing those
  allocations.

## Proofs

All are for arbitrary constants that satisfy the named assumptions of the
modules, and none uses a bound of a run.

- **`ThreadRegistryProofs`**: `TypeCorrect`, `SlotsExclusive` and
  `SlotsAccountedFor` (`SlotAccounting`), for any late hooks. The three are one
  inductive invariant, `SafeInv == TypeOK /\ LocalInv /\ SlotExclusive /\
  SlotAccounting`. None is inductive alone: that two threads do not own a slot needs
  that a `Terminated` slot has no owner and that slots past `next_slot` are
  untouched (accounting); that accounting is kept needs that the slot a thread
  releases was its own (exclusiveness); that `next_slot` is never decremented below
  zero, a matter of types, needs that it exceeds the table by exactly the
  `fetch_add`s to be undone. `LocalInv` relates each thread's place in the code to
  its locals. Most actions change no ownership; `Quiet` collects them and one lemma
  treats them all, so that only `ClaimWon`, `GrowRegistry` and `MarkTerminated` need
  an argument of their own. `SlotsNeverLost` follows under the assumption `LateHooks = {}`:
  a slot that is not claimable then has a living owner. With late hooks there
  is `LostBy`, and the theorem is false. `OneReport` has an invariant of its own,
  `OnceInv`: what the flag says at each place of main's exit path, which no other
  thread touches (`StepAside`).
- **`ThreadRegistryPoolProofs`**, under the assumption `LateHooks = {}`:
  `SlotsKeepTheirWork` (`OwnWorkOnly`) adds `TenantInv`, which follows a slot's
  last tenant until the slot is claimed again. `ReportBounded` says for any
  number of threads that a report made while they run, start, end and replace
  one another is neither too low nor too high. Its invariant `BoundsInv` carries
  the two bounds along main's loop: at each slot, the sum so far lies between
  what was due of the slots already passed and what has been recorded in them
  (`SumInv`). A slot that is added holds no less than is due of its tenant
  (`OwnWorkOnly`) and no more than somebody has recorded (`EarnedInv`); a slot
  that is passed as `Uninitialized` belongs to nobody to whom anything is due
  (`LiveInv`); and the loop's bound, read once, is past every slot of which
  something is due (`DueInv`). `RegistryImplementsPool` maps an
  owner to the holder of the slot and a balance to its counter, and shows that
  every step is an `Acquire`, a `Deposit`, a `Release` or a stutter.
  The assumption is needed: see the hooks after `thread_cleanup` above.
- **`CycleContextProofs`**: `TypeCorrect` and `StackKept` for every program;
  `TimeKept` (`NoTimeLost`) for threads that call no hook after
  `thread_cleanup`. `MachineInv` says where the frames of the stack come from
  (`TopInv`: the running frame was started, not in the future) and that the sum
  of the four counters telescopes (`TimeInv`): each hook charges exactly the
  time since the top frame was started and restarts a frame at that instant, be
  it the same one, a new one, or the one that resumes.
  `TimeInItsState` (`TimeClassified`) holds of late hooks too. Its invariant
  `ClassInv` says, for programs whose nesting the hooks follow, which state each
  frame of the stack is in, given the blocks and calls that are open (`Nested`),
  and that the counters are behind the time really spent by the run of the top
  frame, in its state, and by nothing else (`Classified`).
- **`UnsafeCoverageProofs`**: `NoDeadlock`, `CoverageBounded`,
  `ReportsComplete`, `ReportsOnce`, `SnapshotsTaken` (`ImplementsSnapshots`) and
  `TypeCorrect`, from one invariant `IInv`.
  `LockInv` says who holds which mutex at which place: whoever waits for the
  second mutex holds the first, and whoever holds the second waits for nothing,
  so that no two can wait for each other. `FrameInv` is what the mutexes are for: a
  set does not change between being read and the release of its mutex, so the two
  sets in a frame are still those of the process, also while somebody resets.
  With one lock at a time it fails, and with it the refinement and the bound of
  100 percent. `SnapshotsTaken` follows from it step by step: `LockSecond` looks,
  the two returns answer, and everything else is seen from outside as what it does
  to the sets and the flag, or not at all. `DataInv` says what the sets are until
  somebody resets, the executed one within the registered one. `CountInv` counts a
  report from the moment when it sets the flag, `Cardinality(Reporting)` being
  those under way, and `ExitInv` follows the flag through main's destructors. The
  only assumptions are that threads and lines are finitely many.
- **`UnsafeCounterProofs`**: `TypeCorrect`, `BitsExact` (`SeenExact`),
  `ReportBounded`, `SeenHasCalls` (`SeenIsCalled`) and `OneReport`, from one
  invariant `IInv`. `CallInv` and `BlockInv` account for what has begun: a
  counter and the threads still on their way to it, as a cardinality, add up to
  the calls begun; a function's bit is set when fewer threads are between the two
  updates than it has calls. `BeforeInv` compares what had ended when the report
  began with the counters, which only grow; `ReportInv` and `LoopInv` compare what
  the report has read with both, term by term, up to the loop's index. That a
  function seen has calls in the same report rests on the order of the two
  updates in `record_function` (first the counter) and of the two reads (first
  the bit). `FlagInv` and `OnceInv` follow the flag through the two destructors
  and a constructor that registers no table.
- **`HeapTrackerProofs`**: for any threads, addresses, sizes and classes, and
  whatever the system allocator hands out, `NoDeadlock` (`NoCircularWait`),
  `TypeCorrect`, `UsageExact` (`UsageBalances`) and `ReportExact`
  (`ReportConsistent`); for `ReuseInWindow = FALSE`, `MapExact` (`LiveTracked`),
  `LookupExact` (`LookupRight`), `CountsExact` (`CountsBalance`), `UnsafeExact`
  (`UnsafeCountedOnce`) and `AccountKept` (`ImplementsAccount`). The hypothesis is
  needed: `heap_moved` is the counterexample without it. `NoDeadlock` has an
  invariant that says who holds a mutex (`MutexInv`): only a thread in one of the
  operations under it, and from there nobody asks for a mutex, unless a tree's
  request for a node finds the flag clear, which `FlagInv` excludes. `CoreInv`
  relates each thread's place to its request, to the flag and to the memory: blocks
  do not overlap, and no two calls are at work on one block (`AloneInv`). `UsageInv`
  adds to the byte total what each reallocation under way has still to count, each
  less than the block it has allocated, which is why the total does not go below
  zero, and takes from it what untracked strings have grown by. For `ReportExact`,
  `HistogramInv` says that the histogram is behind the counters by the threads that
  have not classified yet (`Unclassified`), and `ReportInv` that what the report has
  read, with the classes still to be read, stays within the bounds. `TrackInv` is
  about the window of `realloc`: what has been given back and not yet removed is
  nobody's memory (`FreedInv`), so that the map holds every block at rest, with its
  size, and beyond them only what is in the hands of a call or has been moved by a
  `realloc` that has yet to remove it (`MapInv`). `LookInv` keeps a lookup's result
  true until it is used, `CountInv` counts the blocks that no `dealloc` has counted,
  `UnsafeInv` says who is in the unsafe set, and `OnceInv` that the unsafe counters
  are those of first accesses. Together they are `AccountInv`, from which
  `AccountKept` follows with one lemma for each action that is seen from outside;
  `QuietAccount` has the others, all locks and all changes of the maps among them.
- **`PipelineProofs`**: `LibrariesApart` (`FeaturesNeverMix`), `ResultsHaveAll`
  (`ResultComplete`), `StrangersHaveReasons` (`StrangersExplained`) and
  `TypeCorrect`, for any experiments, crates, commands and number of faults. The
  loops reach each run once (`OrderInv`). A process that writes belongs to the run
  under way or to one that has failed (`WriterInv`), and only the former is sure to
  have the file of its experiment open and its library linked (`LinkInv`). So the
  reports of a run that has passed are in its result, and those of a run that has
  not failed are nowhere else (`ReporterInv`). Nothing that a run has written is
  lost before it passes: its chunks are in the file under the common name until that
  is renamed to the result, which no later run touches (`WroteInv`). A file found in
  `/tmp` is moved at most once and nobody has it open (`ManualInv`). No experiment
  and no crate is listed twice (`NamesAssumption`), as in the tables of
  `run_pipeline.py`. `AnalysisRight` (`AnalysisAgrees`) is about data, and holds of
  any file that consists of reports and newlines, whoever has written them
  (`FileRead`): by induction over the file, after each report and each newline the
  parser is in no section, and what it has counted is what the reports so far had.
  Within a report it is by induction over the list of locations (`LocationsRead`),
  none of which is a heading (`LinesAssumption`), and which are finitely many
  (`FiniteAssumption`).
- **`FiniteLemmas`**: what the proofs need of two functions that are defined by
  recursion over data. `SumFunctionOnSet` takes the elements of a set in the order
  of `CHOOSE`. A sum is turned into the cardinality of a set of pairs, for which
  order does not matter; then follow its splitting, changing and comparison
  (`SumSplit`, `SumChange`, `SumBelow`, `SumGrows`). `FlattenSeq` joins a sequence
  of sequences: that its recursion has one solution, and what one element more
  adds to it (`FlattenAppend`).

The library's induction theorems take an operator as a parameter and cannot be
instantiated. Induction is therefore over a *set* of good subsets, numbers or
sequences (`SubsetInduction`, `NumberInduction`, `SequenceInduction`), each by a
minimal counterexample. The recursive function of `analyze_unsafe_coverage` is
treated as in the usual justification of such a definition: it has a solution
for every list of lines (`ParsesExist`), the solutions for a list and a longer
one agree (`ParsesAgree`), so that `CHOOSE` picks one that goes line by line
(`AnalysisSteps`).

All safety invariants and the three refinements of the passing runs are theorems.
Only model-checked:

- liveness (`AllocationEnds`, `ExitEnds`), whose fairness is out of the prover's
  reach;
- the registry's `ReportBounds` with late hooks (`registry_live`);
- the properties of the runs that expect a violation, which are false.

## Not modelled

- Order of the nine counters of a slot within one reset or one charge, and torn
  reports across them; the report's bounds are about one counter.
- The fallback of the interposed `pthread_create` when the real function is not
  found, and panics that unwind through a hook or poison a mutex.
- Weak memory orderings (see `UnsafeCounter`); the orderings of the registry are
  acquire and release on the one atomic that transfers a slot.
- `initialize_runtime` and `GLOBAL_SKIP_TRACKING`, which no tracker reads, and
  the three counters named under `HeapTracker`.
- In the pipeline: a relative output directory together with a working directory
  of the command, `RUSTFLAGS` that the shell passes on to the native experiment,
  instrumented build scripts, the exact flags and paths, the table of crates, a
  `cargo build` of the library that goes on after its timeout, when the pipeline
  has ended, and results of an earlier use in the same `--output` directory.
- The compiler passes, which are not in the repository: that hooks are paired,
  which ids functions get, which accesses are unsafe.
- Benchmarks, tests of third-party crates, binaries, containers, data.

## Plan

1. A composition of `ThreadRegistry` and `CycleContext`: threads that get slots
   late, and the sum of their states in the report.
2. An abstract specification of a tracker's report (a snapshot between two
   states of the counters) which the reports of `UnsafeCounter` and of the
   registry implement.
3. A second module's constructor of `UnsafeCounter`, whose table is ignored: a
   property of the functions that are looked up in the wrong table.
