---------------------------- MODULE CycleContext ----------------------------
(***************************************************************************)
(* The time accounting of one thread in the CPU cycle counter              *)
(* (unsafe_perf_source/src/cpu_cycle_counter.rs).  The thread keeps a      *)
(* stack of contexts in thread-local storage; instrumented code calls a    *)
(* hook around every unsafe block, which changes the state of the top      *)
(* context, and around every external call, which pushes and pops one.     *)
(* Each hook first charges the time since the last one to the state the    *)
(* top context was in.                                                     *)
(*                                                                         *)
(* A hook runs on its own thread and touches nothing that another thread   *)
(* writes, once the thread has a slot; so one hook is one action.  Whether *)
(* a hook of a thread without a slot gets one is up to ThreadRegistry, and *)
(* nondeterministic here.  The program the hooks are called by is modelled *)
(* by its structure: calls and blocks are what it has really open.         *)
(***************************************************************************)
EXTENDS Integers

CONSTANTS
    MaxDepth,   \* MAX_CONTEXT_DEPTH, the size of the stack
    MaxTime,    \* bound: the last instant
    MaxCalls,   \* bound: external calls open at a time
    MaxBlocks,  \* bound: unsafe blocks open at a time within one activation
    LateHooks   \* whether hooks are called after thread_cleanup

ASSUME MaxDepthAssumption == MaxDepth \in Nat \ {0}
ASSUME BoundsAssumption == MaxTime \in Nat \ {0} /\ MaxCalls \in Nat /\ MaxBlocks \in Nat
ASSUME LateHooksAssumption == LateHooks \in BOOLEAN

VARIABLES
    now,            \* the time stamp counter
    stack,          \* CONTEXT_STACK
    depth,          \* STACK_DEPTH; 0 as long as the thread has no slot
    start_tsc,      \* ThreadStats.start_tsc
    last_known_tsc, \* ThreadStats.last_known_tsc
    cycles,         \* ThreadStats.normal_cycles, unsafe_cycles, ...
    cleaned,        \* thread_cleanup has run
    calls,          \* the program: external calls open
    blocks,         \* the program: unsafe blocks open in each activation
    spent,          \* history: time spent in each state since the slot was got
    strayed         \* history: the hooks have been nested in a way they do not follow

program == <<calls, blocks>>
vars == <<now, stack, depth, start_tsc, last_known_tsc, cycles, cleaned,
          program, spent, strayed>>

ExecutionState == {"Normal", "Unsafe", "ExternalSafe", "ExternalUnsafe"}
Instants == 0 .. MaxTime
Frames == [state : ExecutionState, start : Instants]
Places == 0 .. MaxDepth - 1

Frame(state, start) == [state |-> state, start |-> start]
Untouched == Frame("Normal", 0)

BlockOpen == \E i \in 0 .. calls : blocks[i] > 0

\* What the thread is really doing, in the terms of ExecutionState.
Doing ==
    IF calls = 0
    THEN IF BlockOpen THEN "Unsafe" ELSE "Normal"
    ELSE IF BlockOpen THEN "ExternalUnsafe" ELSE "ExternalSafe"

\* initialize_thread may find the registry full; it is tried again by later hooks.
Init ==
    /\ now = 1
    /\ cleaned = FALSE
    /\ calls = 0
    /\ blocks = [i \in 0 .. MaxCalls |-> 0]
    /\ cycles = [s \in ExecutionState |-> 0]
    /\ spent = [s \in ExecutionState |-> 0]
    /\ strayed = FALSE
    /\ \/ /\ depth = 1
          /\ stack = [i \in Places |-> IF i = 0 THEN Frame("Normal", now) ELSE Untouched]
          /\ start_tsc = now
          /\ last_known_tsc = now
       \/ /\ depth = 0
          /\ stack = [i \in Places |-> Untouched]
          /\ start_tsc = 0
          /\ last_known_tsc = 0
-----------------------------------------------------------------------------
(* The parts of a hook                                                     *)

Attached == depth > 0
Top == stack[depth - 1]

\* Time since the frame was started goes to the state it is in.
Charge(frame) ==
    cycles' = IF frame.start > 0 /\ now > frame.start
              THEN [cycles EXCEPT ![frame.state] = @ + (now - frame.start)]
              ELSE cycles

\* initialize_thread in a hook: the slot is new, the stack holds one context.
\* The hook goes on in state new, at the same instant.
AttachIn(new) ==
    /\ ~ Attached
    /\ start_tsc' = now
    /\ last_known_tsc' = now
    /\ stack' = [stack EXCEPT ![0] = Frame(new, now)]
    /\ depth' = 1
    /\ UNCHANGED cycles

\* The same in external_call_start: the new context is pushed on the first one.
AttachCalling ==
    /\ ~ Attached
    /\ start_tsc' = now
    /\ last_known_tsc' = now
    /\ IF MaxDepth = 1
       THEN /\ stack' = [stack EXCEPT ![0] = Frame("Normal", now)]
            /\ depth' = 1
       ELSE /\ stack' = [stack EXCEPT ![0] = Frame("Normal", now),
                                      ![1] = Frame("ExternalSafe", now)]
            /\ depth' = 2
    /\ UNCHANGED cycles

\* initialize_thread finds no slot: the hook does nothing.
NoSlot ==
    /\ ~ Attached
    /\ UNCHANGED <<stack, depth, start_tsc, last_known_tsc, cycles>>

transition_state(new) ==
    /\ Attached
    /\ Charge(Top)
    /\ stack' = [stack EXCEPT ![depth - 1] = Frame(new, now)]
    /\ UNCHANGED <<depth, start_tsc, last_known_tsc>>

\* Mutant: off by one in the test for a full stack.
PushPastEnd(new) ==
    /\ Attached
    /\ IF depth > MaxDepth
       THEN UNCHANGED <<stack, depth, cycles>>
       ELSE /\ Charge(Top)
            /\ stack' = [stack EXCEPT ![depth] = Frame(new, now)]
            /\ depth' = depth + 1
    /\ UNCHANGED <<start_tsc, last_known_tsc>>

push_context(new) ==
    /\ Attached
    /\ IF depth >= MaxDepth
       THEN UNCHANGED <<stack, depth, cycles>>
       ELSE /\ Charge(Top)
            /\ stack' = [stack EXCEPT ![depth] = Frame(new, now)]
            /\ depth' = depth + 1
    /\ UNCHANGED <<start_tsc, last_known_tsc>>

\* Mutant: the context that resumes keeps the time it was first started.
PopStale ==
    /\ IF depth <= 1
       THEN UNCHANGED <<stack, depth, cycles>>
       ELSE /\ Charge(Top)
            /\ depth' = depth - 1
            /\ UNCHANGED stack
    /\ UNCHANGED <<start_tsc, last_known_tsc>>

\* Mutant: a call that took no measurable time is not popped.
PopIfCharged ==
    /\ IF depth <= 1 \/ now = Top.start
       THEN UNCHANGED <<stack, depth, cycles>>
       ELSE /\ Charge(Top)
            /\ stack' = [stack EXCEPT ![depth - 2].start = now]
            /\ depth' = depth - 1
    /\ UNCHANGED <<start_tsc, last_known_tsc>>

\* The context below resumes: its time starts again.
pop_context ==
    /\ IF depth <= 1
       THEN UNCHANGED <<stack, depth, cycles>>
       ELSE /\ Charge(Top)
            /\ stack' = [stack EXCEPT ![depth - 2].start = now]
            /\ depth' = depth - 1
    /\ UNCHANGED <<start_tsc, last_known_tsc>>

\* The state a hook moves to from the state it finds on top.
Entered(state) ==
    CASE state = "Normal" -> "Unsafe"
      [] state = "ExternalSafe" -> "ExternalUnsafe"
      [] OTHER -> state

Left(state) ==
    CASE state = "Unsafe" -> "Normal"
      [] state = "ExternalUnsafe" -> "ExternalSafe"
      [] OTHER -> state

\* Mutant: the state of the caller is not looked at.
CalledSafe(state) == "ExternalSafe"

Called(state) == IF state = "Unsafe" THEN "ExternalUnsafe" ELSE "ExternalSafe"
-----------------------------------------------------------------------------
(* The hooks                                                               *)

CallsHooks == ~cleaned \/ LateHooks

Stray(badly) == strayed' = (strayed \/ badly)

\* cpu_cycle_start_measurement
EnterUnsafe ==
    /\ CallsHooks
    /\ blocks[calls] < MaxBlocks
    /\ blocks' = [blocks EXCEPT ![calls] = @ + 1]
    /\ \/ NoSlot
       \/ AttachIn("Unsafe")
       \/ transition_state(Entered(Top.state))
    /\ Stray(BlockOpen \/ (~Attached /\ calls > 0))
    /\ UNCHANGED <<now, cleaned, calls, spent>>

\* cpu_cycle_end_measurement
LeaveUnsafe ==
    /\ CallsHooks
    /\ blocks[calls] > 0
    /\ blocks' = [blocks EXCEPT ![calls] = @ - 1]
    /\ \/ NoSlot
       \/ AttachIn("Normal")
       \/ transition_state(Left(Top.state))
    /\ Stray(~Attached)
    /\ UNCHANGED <<now, cleaned, calls, spent>>

\* external_call_start
EnterExternal ==
    /\ CallsHooks
    /\ calls < MaxCalls
    /\ calls' = calls + 1
    /\ \/ NoSlot
       \/ Attached /\ push_context(Called(Top.state))
       \/ AttachCalling
    /\ Stray(\/ BlockOpen /\ (calls > 0 \/ ~Attached)
             \/ depth >= MaxDepth
             \/ ~Attached /\ (calls > 0 \/ MaxDepth = 1))
    /\ UNCHANGED <<now, cleaned, blocks, spent>>

\* external_call_end
LeaveExternal ==
    /\ CallsHooks
    /\ calls > 0
    /\ blocks[calls] = 0
    /\ calls' = calls - 1
    /\ pop_context
    /\ UNCHANGED <<now, cleaned, blocks, spent, strayed>>

\* thread_cleanup charges the top context, and leaves the stack as it is.
Cleanup ==
    /\ ~cleaned
    /\ calls = 0
    /\ blocks[0] = 0
    /\ cleaned' = TRUE
    /\ IF Attached
       THEN Charge(Top) /\ last_known_tsc' = now
       ELSE UNCHANGED <<cycles, last_known_tsc>>
    /\ UNCHANGED <<now, stack, depth, start_tsc, program, spent, strayed>>

Tick ==
    /\ now < MaxTime
    /\ now' = now + 1
    /\ spent' = IF Attached /\ ~cleaned THEN [spent EXCEPT ![Doing] = @ + 1] ELSE spent
    /\ UNCHANGED <<stack, depth, start_tsc, last_known_tsc, cycles, cleaned,
                   program, strayed>>

\* The thread is gone.
Gone == cleaned /\ UNCHANGED vars

Next ==
    \/ EnterUnsafe \/ LeaveUnsafe \/ EnterExternal \/ LeaveExternal
    \/ Cleanup \/ Tick \/ Gone

Spec == Init /\ [][Next]_vars
-----------------------------------------------------------------------------
(* Properties                                                              *)

\* The values of the thread-local cells, the statistics and the program.
TypeOK ==
    /\ now \in Instants \ {0}
    /\ stack \in [Places -> Frames]
    /\ depth \in 0 .. MaxDepth
    /\ start_tsc \in Instants
    /\ last_known_tsc \in Instants
    /\ cycles \in [ExecutionState -> Nat]
    /\ cleaned \in BOOLEAN
    /\ calls \in 0 .. MaxCalls
    /\ blocks \in [0 .. MaxCalls -> 0 .. MaxBlocks]
    /\ spent \in [ExecutionState -> Nat]
    /\ strayed \in BOOLEAN

Total ==
    cycles["Normal"] + cycles["Unsafe"] + cycles["ExternalSafe"] + cycles["ExternalUnsafe"]

\* "Time spent in each mutually exclusive state": whatever the nesting of blocks
\* and calls, overflows of the stack included, every cycle from the moment the
\* thread got its slot to its last hook is in exactly one of the four counters.
\* (For a thread that calls no hook after thread_cleanup.)
NoTimeLost ==
    Attached => Total = (IF cleaned THEN last_known_tsc ELSE Top.start) - start_tsc

\* The stack never holds more contexts than the program has calls open (and one
\* for its own code), even when pushes have failed and their pops have not: when
\* the outermost call has returned, the two agree again.
StackFollowsCalls == Attached => depth \in 1 .. calls + 1

\* As long as blocks and calls are nested in the ways the hooks follow, the
\* counters say what the thread really did.
TimeClassified ==
    Attached /\ ~cleaned /\ ~strayed =>
      \A s \in ExecutionState :
        spent[s] = cycles[s] + (IF s = Top.state THEN now - Top.start ELSE 0)

\* "proper nesting context": in the thread's own code, an unsafe block that ends
\* inside another one leaves the thread in unsafe code.
NestedBlocksClassified ==
    [][Attached /\ calls = 0 /\ Top.state = "Unsafe" /\ calls' = 0 /\ BlockOpen'
         => stack'[0].state = "Unsafe"]_vars

=============================================================================
