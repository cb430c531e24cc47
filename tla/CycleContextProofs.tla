------------------------- MODULE CycleContextProofs -------------------------
(***************************************************************************)
(* Proofs, for any size of the context stack and any nesting of blocks and *)
(* calls, that the cycle counter loses no time and counts none twice, that *)
(* the context stack never runs ahead of the calls of the program, and     *)
(* that time goes to the state the program is in while blocks and calls    *)
(* are nested in the ways the hooks follow.                                *)
(*                                                                         *)
(* NoTimeLost says nothing of a thread without a slot, or of the start of  *)
(* the top context; the invariant adds that nothing has been charged yet   *)
(* in the one case, and that the start lies in the past in the other.      *)
(***************************************************************************)
EXTENDS CycleContext, TLAPS


\* The part of the state that the hooks work on, typed.
MachineOK ==
    /\ stack \in [Places -> Frames]
    /\ depth \in 0 .. MaxDepth
    /\ start_tsc \in Instants
    /\ last_known_tsc \in Instants
    /\ cycles \in [ExecutionState -> Nat]

\* Whoever has a slot has a running top context that started in the past.
TopInv == Attached => Top.start > 0 /\ Top.start <= now

\* All time so far is charged, up to the start of the top context.
TimeInv ==
    ~LateHooks =>
      IF Attached
      THEN Total = (IF cleaned THEN last_known_tsc ELSE Top.start) - start_tsc
      ELSE Total = 0

MachineInv == MachineOK /\ TopInv /\ TimeInv

USE DEF Attached, Top

-----------------------------------------------------------------------------
(* Charging a context                                                      *)

\* A charge adds the time since the start of the context to one counter.
LEMMA ChargeAdds ==
    ASSUME now \in Nat, cycles \in [ExecutionState -> Nat], NEW frame,
           frame.state \in ExecutionState, frame.start \in Nat,
           0 < frame.start, frame.start <= now, Charge(frame)
    PROVE  /\ cycles' \in [ExecutionState -> Nat]
           /\ Total' = Total + (now - frame.start)
<1>1. CASE now > frame.start
  <2>1. cycles' = [cycles EXCEPT ![frame.state] = @ + (now - frame.start)]
    BY <1>1 DEF Charge
  <2>2. cycles[frame.state] + (now - frame.start) \in Nat
    BY <1>1
  <2>3. cycles' \in [ExecutionState -> Nat]
    BY <2>1, <2>2
  <2>4. Total' = Total + (now - frame.start)
    BY <2>1 DEF Total, ExecutionState
  <2> QED
    BY <2>3, <2>4
<1>2. CASE now = frame.start
  <2>1. cycles' = cycles
    BY <1>2 DEF Charge
  <2>2. Total \in Nat
    BY DEF Total, ExecutionState
  <2> QED
    BY <1>2, <2>1, <2>2 DEF Total
<1> QED
  BY <1>1, <1>2

\* The same for the top context.
LEMMA ChargeTop ==
    ASSUME MachineOK, TopInv, now \in Nat, Attached, Charge(Top)
    PROVE  /\ cycles' \in [ExecutionState -> Nat]
           /\ Total' = Total + (now - Top.start)
<1>1. stack[depth - 1] \in Frames
  BY MaxDepthAssumption DEF MachineOK, Places
<1>2. stack[depth - 1].state \in ExecutionState /\ stack[depth - 1].start \in Nat
  BY <1>1, BoundsAssumption DEF Frames, Instants
<1> QED
  BY <1>2, ChargeAdds DEF MachineOK, TopInv

-----------------------------------------------------------------------------
(* The parts of a hook                                                     *)

\* The counters and the stack of a new thread.
LEMMA InitInv == Init => TypeOK /\ MachineInv /\ StackFollowsCalls
<1> SUFFICES ASSUME Init PROVE TypeOK /\ MachineInv /\ StackFollowsCalls
  OBVIOUS
<1> USE MaxDepthAssumption, BoundsAssumption DEF Init
<1>1. Frame("Normal", 1) \in Frames /\ Untouched \in Frames
  BY DEF Frames, Frame, Untouched, Instants, ExecutionState
<1>2. stack \in [Places -> Frames]
  BY <1>1 DEF Places
<1>3. TypeOK
  <2>1. /\ now \in Instants \ {0}
        /\ depth \in 0 .. MaxDepth
        /\ start_tsc \in Instants
        /\ last_known_tsc \in Instants
    BY DEF Instants
  <2>2. /\ cycles \in [ExecutionState -> Nat]
        /\ spent \in [ExecutionState -> Nat]
        /\ calls \in 0 .. MaxCalls
        /\ blocks \in [0 .. MaxCalls -> 0 .. MaxBlocks]
    OBVIOUS
  <2> QED
    BY <1>2, <2>1, <2>2 DEF TypeOK
<1>4. Total = 0
  BY DEF Total, ExecutionState
<1> QED
  BY <1>3, <1>4 DEF TypeOK, MachineInv, MachineOK, TopInv, TimeInv,
     StackFollowsCalls, Places, Frame

\* A thread gets its slot: nothing is charged yet.
LEMMA AttachInv ==
    ASSUME TypeOK, MachineInv, NEW new \in ExecutionState, CallsHooks,
           UNCHANGED <<now, cleaned>>, AttachIn(new)
    PROVE  MachineInv' /\ depth' = 1
<1> USE MaxDepthAssumption, BoundsAssumption
<1>1. Frame(new, now) \in Frames /\ now \in Instants \ {0}
  BY DEF Frames, Frame, TypeOK, Instants
<1>2. stack' \in [Places -> Frames] /\ stack'[0] = Frame(new, now) /\ depth' = 1
  BY <1>1 DEF AttachIn, MachineInv, MachineOK, Places
<1>3. MachineOK'
  BY <1>1, <1>2 DEF MachineOK, MachineInv, AttachIn
<1>4. Total' = Total
  BY DEF AttachIn, Total
<1> QED
  BY <1>1, <1>2, <1>3, <1>4 DEF MachineInv, TopInv, TimeInv, AttachIn, CallsHooks, Frame, Instants

\* The same in a hook that goes on to push a context.
LEMMA AttachCallingInv ==
    ASSUME TypeOK, MachineInv, CallsHooks, UNCHANGED <<now, cleaned>>, AttachCalling
    PROVE  MachineInv'
<1> USE MaxDepthAssumption, BoundsAssumption
<1>1. /\ Frame("Normal", now) \in Frames /\ Frame("ExternalSafe", now) \in Frames
      /\ now \in Instants \ {0}
  BY DEF Frames, Frame, TypeOK, Instants, ExecutionState
<1>2. CASE MaxDepth = 1
  <2>1. stack' \in [Places -> Frames] /\ stack'[0] = Frame("Normal", now) /\ depth' = 1
    BY <1>1, <1>2 DEF AttachCalling, MachineInv, MachineOK, Places
  <2> QED
    BY <1>1, <2>1 DEF MachineInv, MachineOK, TopInv, TimeInv, AttachCalling,
       CallsHooks, Frame, Instants, Total
<1>3. CASE MaxDepth # 1
  <2>1. stack' \in [Places -> Frames] /\ stack'[1] = Frame("ExternalSafe", now) /\ depth' = 2
    BY <1>1, <1>3 DEF AttachCalling, MachineInv, MachineOK, Places
  <2> QED
    BY <1>1, <1>3, <2>1 DEF MachineInv, MachineOK, TopInv, TimeInv, AttachCalling,
       CallsHooks, Frame, Instants, Total
<1> QED
  BY <1>2, <1>3

\* No slot to be had: nothing changes.
LEMMA NoSlotInv ==
    ASSUME MachineInv, UNCHANGED <<now, cleaned>>, NoSlot
    PROVE  MachineInv' /\ depth' = depth
BY DEF MachineInv, MachineOK, TopInv, TimeInv, NoSlot, Total

\* The top context changes its state and starts again.
LEMMA TransitionInv ==
    ASSUME TypeOK, MachineInv, NEW new \in ExecutionState, CallsHooks,
           UNCHANGED <<now, cleaned>>, transition_state(new)
    PROVE  MachineInv' /\ depth' = depth
<1> USE MaxDepthAssumption, BoundsAssumption DEF MachineInv
<1>1. Frame(new, now) \in Frames /\ now \in Instants \ {0} /\ now \in Nat
  BY DEF Frames, Frame, TypeOK, Instants
<1>2. /\ cycles' \in [ExecutionState -> Nat]
      /\ Total' = Total + (now - Top.start)
  BY <1>1, ChargeTop DEF transition_state
<1>3. /\ stack' \in [Places -> Frames]
      /\ stack'[depth - 1] = Frame(new, now)
      /\ depth' = depth /\ depth > 0
  BY <1>1 DEF transition_state, MachineOK, Places
<1>4. MachineOK'
  BY <1>2, <1>3 DEF MachineOK, transition_state
<1>5. TopInv'
  BY <1>1, <1>3 DEF TopInv, Frame, Instants
<1>6. TimeInv'
  BY <1>1, <1>2, <1>3, ChargeTop
     DEF TimeInv, CallsHooks, transition_state, Frame, MachineOK, Instants, Places, Frames
<1> QED
  BY <1>3, <1>4, <1>5, <1>6

\* A new context starts on top, unless the stack is full.
LEMMA PushInv ==
    ASSUME TypeOK, MachineInv, NEW new \in ExecutionState, CallsHooks,
           UNCHANGED <<now, cleaned>>, push_context(new)
    PROVE  MachineInv' /\ depth' \in {depth, depth + 1}
<1> USE MaxDepthAssumption, BoundsAssumption DEF MachineInv
<1>1. Frame(new, now) \in Frames /\ now \in Instants \ {0} /\ now \in Nat
  BY DEF Frames, Frame, TypeOK, Instants
<1>2. CASE depth >= MaxDepth
  BY <1>2 DEF push_context, MachineOK, TopInv, TimeInv, Total
<1>3. CASE ~ (depth >= MaxDepth)
  <2>1. /\ cycles' \in [ExecutionState -> Nat]
        /\ Total' = Total + (now - Top.start)
    BY <1>1, <1>3, ChargeTop DEF push_context
  <2>2. /\ stack' \in [Places -> Frames]
        /\ depth \in Places /\ stack'[depth] = Frame(new, now)
        /\ depth' = depth + 1 /\ depth' - 1 = depth
    BY <1>1, <1>3 DEF push_context, MachineOK, Places
  <2>3. MachineOK'
    BY <1>3, <2>1, <2>2 DEF MachineOK, push_context
  <2>4. TopInv'
    BY <1>1, <2>2 DEF TopInv, Frame, Instants
  <2>5. TimeInv'
    <3>1. stack[depth - 1].start \in Nat \/ depth = 0
      BY <2>2 DEF MachineOK, Frames, Instants, Places
    <3>2. start_tsc \in Nat /\ start_tsc' = start_tsc
      BY DEF MachineOK, Instants, push_context
    <3>3. depth > 0 /\ depth' > 0 /\ stack'[depth' - 1].start = now
      BY <2>2 DEF push_context, Frame, Places
    <3> QED
      BY <1>1, <2>1, <3>1, <3>2, <3>3 DEF TimeInv, CallsHooks
  <2> QED
    BY <2>2, <2>3, <2>4, <2>5
<1> QED
  BY <1>2, <1>3

\* The context below starts again, unless there is none.
LEMMA PopInv ==
    ASSUME TypeOK, MachineInv, CallsHooks, UNCHANGED <<now, cleaned>>, pop_context
    PROVE  MachineInv' /\ (IF depth <= 1 THEN depth' = depth ELSE depth' = depth - 1)
<1> USE MaxDepthAssumption, BoundsAssumption DEF MachineInv
<1>1. CASE depth <= 1
  BY <1>1 DEF pop_context, MachineOK, TopInv, TimeInv, Total
<1>2. CASE ~ (depth <= 1)
  <2>1. now \in Instants \ {0} /\ now \in Nat
    BY DEF TypeOK, Instants
  <2>2. /\ cycles' \in [ExecutionState -> Nat]
        /\ Total' = Total + (now - Top.start)
    BY <1>2, <2>1, ChargeTop DEF pop_context, MachineOK
  <2>3. depth - 2 \in Places /\ depth - 1 \in Places /\ depth > 0
    BY <1>2 DEF MachineOK, Places
  <2>4. stack[depth - 2] \in Frames
    BY <2>3 DEF MachineOK
  <2>5. [stack[depth - 2] EXCEPT !.start = now] \in Frames
    BY <2>1, <2>4 DEF Frames
  <2>6. /\ stack' \in [Places -> Frames]
        /\ stack'[depth - 2].start = now
        /\ depth' = depth - 1 /\ depth' - 1 = depth - 2
    BY <1>2, <2>3, <2>4, <2>5 DEF pop_context, MachineOK, Frames
  <2>7. MachineOK'
    BY <1>2, <2>2, <2>3, <2>6 DEF MachineOK, pop_context, Places
  <2>8. TopInv'
    BY <2>1, <2>6 DEF TopInv, Instants
  <2>9. TimeInv'
    <3>1. stack[depth - 1].start \in Nat
      BY <2>3 DEF MachineOK, Frames, Instants
    <3>2. start_tsc \in Nat /\ start_tsc' = start_tsc
      BY DEF MachineOK, Instants, pop_context
    <3>3. depth' > 0
      BY <1>2, <2>6 DEF MachineOK
    <3> QED
      BY <2>1, <2>2, <2>3, <2>6, <3>1, <3>2, <3>3 DEF TimeInv, CallsHooks
  <2> QED
    BY <1>2, <2>6, <2>7, <2>8, <2>9
<1> QED
  BY <1>1, <1>2

-----------------------------------------------------------------------------
(* The steps                                                               *)

\* The state the hooks choose from is the one they find on top.
LEMMA TopState == MachineOK /\ Attached => Top.state \in ExecutionState
BY MaxDepthAssumption DEF MachineOK, Places, Frames

\* Every step keeps the books of the thread.
LEMMA MachineStep == TypeOK /\ MachineInv /\ [Next]_vars => MachineInv'
<1> SUFFICES ASSUME TypeOK, MachineInv, [Next]_vars PROVE MachineInv'
  OBVIOUS
<1> USE MaxDepthAssumption, BoundsAssumption
<1>1. CASE EnterUnsafe
  <2>1. Attached => Entered(Top.state) \in ExecutionState
    BY TopState DEF MachineInv, Entered, ExecutionState
  <2>2. "Unsafe" \in ExecutionState
    BY DEF ExecutionState
  <2>3. CallsHooks /\ UNCHANGED <<now, cleaned>>
    BY <1>1 DEF EnterUnsafe
  <2>4. NoSlot \/ AttachIn("Unsafe") \/ transition_state(Entered(Top.state))
    BY <1>1 DEF EnterUnsafe
  <2>5. transition_state(Entered(Top.state)) => Attached
    BY DEF transition_state
  <2> QED
    BY <2>1, <2>2, <2>3, <2>4, <2>5, NoSlotInv, AttachInv, TransitionInv
<1>2. CASE LeaveUnsafe
  <2>1. Attached => Left(Top.state) \in ExecutionState
    BY TopState DEF MachineInv, Left, ExecutionState
  <2>2. "Normal" \in ExecutionState
    BY DEF ExecutionState
  <2>3. CallsHooks /\ UNCHANGED <<now, cleaned>>
    BY <1>2 DEF LeaveUnsafe
  <2>4. NoSlot \/ AttachIn("Normal") \/ transition_state(Left(Top.state))
    BY <1>2 DEF LeaveUnsafe
  <2>5. transition_state(Left(Top.state)) => Attached
    BY DEF transition_state
  <2> QED
    BY <2>1, <2>2, <2>3, <2>4, <2>5, NoSlotInv, AttachInv, TransitionInv
<1>3. CASE EnterExternal
  <2>1. Called(Top.state) \in ExecutionState
    BY DEF Called, ExecutionState
  <2>2. CallsHooks /\ UNCHANGED <<now, cleaned>>
    BY <1>3 DEF EnterExternal
  <2>3. CASE NoSlot
    BY <2>2, <2>3, NoSlotInv
  <2>4. CASE Attached /\ push_context(Called(Top.state))
    BY <2>1, <2>2, <2>4, PushInv
  <2>5. CASE AttachCalling
    BY <2>2, <2>5, AttachCallingInv
  <2> QED
    BY <1>3, <2>3, <2>4, <2>5 DEF EnterExternal
<1>4. CASE LeaveExternal
  BY <1>4, PopInv DEF LeaveExternal
<1>5. CASE Cleanup
  <2>1. CASE Attached
    <3>1. now \in Instants /\ now \in Nat
      BY DEF TypeOK, Instants
    <3>2. Charge(Top) /\ last_known_tsc' = now /\ cleaned' /\ ~cleaned
      BY <1>5, <2>1 DEF Cleanup
    <3>3. /\ cycles' \in [ExecutionState -> Nat]
          /\ Total' = Total + (now - Top.start)
      BY <2>1, <3>1, <3>2, ChargeTop DEF MachineInv
    <3>4. UNCHANGED <<now, stack, depth, start_tsc>>
      BY <1>5 DEF Cleanup
    <3>5. MachineOK' /\ TopInv'
      BY <3>1, <3>2, <3>3, <3>4 DEF MachineInv, MachineOK, TopInv
    <3>6. start_tsc \in Nat /\ stack[depth - 1].start \in Nat
      BY <2>1 DEF MachineInv, MachineOK, Frames, Instants, Places
    <3> QED
      BY <2>1, <3>1, <3>2, <3>3, <3>4, <3>5, <3>6 DEF MachineInv, TimeInv
  <2>2. CASE ~Attached
    BY <1>5, <2>2 DEF Cleanup, MachineInv, MachineOK, TopInv, TimeInv, Total
  <2> QED
    BY <2>1, <2>2
<1>6. CASE Tick
  <2>1. now' = now + 1 /\ now \in Nat
    BY <1>6 DEF Tick, TypeOK, Instants
  <2>2. UNCHANGED <<stack, depth, start_tsc, last_known_tsc, cycles, cleaned>>
    BY <1>6 DEF Tick
  <2>3. depth > 0 => stack[depth - 1].start \in Nat
    BY DEF MachineInv, MachineOK, Frames, Instants, Places
  <2> QED
    BY <2>1, <2>2, <2>3 DEF MachineInv, MachineOK, TopInv, TimeInv, Total
<1>7. CASE Gone \/ UNCHANGED vars
  BY <1>7 DEF Gone, vars, MachineInv, MachineOK, TopInv, TimeInv, Total
<1> QED
  BY <1>1, <1>2, <1>3, <1>4, <1>5, <1>6, <1>7 DEF Next

\* The clock, the program and the history stay in their types too.
LEMMA TypeStep == TypeOK /\ MachineInv /\ [Next]_vars => TypeOK'
<1> SUFFICES ASSUME TypeOK, MachineInv, [Next]_vars PROVE TypeOK'
  OBVIOUS
<1> USE MaxDepthAssumption, BoundsAssumption
<1>1. MachineOK'
  BY MachineStep DEF MachineInv
<1>2. CASE EnterUnsafe
  <2>1. blocks[calls] + 1 \in 0 .. MaxBlocks
    BY <1>2 DEF EnterUnsafe, TypeOK
  <2>2. blocks' \in [0 .. MaxCalls -> 0 .. MaxBlocks]
    BY <1>2, <2>1 DEF EnterUnsafe, TypeOK
  <2> QED
    BY <1>1, <1>2, <2>2 DEF EnterUnsafe, TypeOK, MachineOK, Stray
<1>3. CASE LeaveUnsafe
  <2>1. blocks[calls] - 1 \in 0 .. MaxBlocks
    BY <1>3 DEF LeaveUnsafe, TypeOK
  <2>2. blocks' \in [0 .. MaxCalls -> 0 .. MaxBlocks]
    BY <1>3, <2>1 DEF LeaveUnsafe, TypeOK
  <2> QED
    BY <1>1, <1>3, <2>2 DEF LeaveUnsafe, TypeOK, MachineOK, Stray
<1>4. CASE EnterExternal
  BY <1>1, <1>4 DEF EnterExternal, TypeOK, MachineOK, Stray
<1>5. CASE LeaveExternal
  BY <1>1, <1>5 DEF LeaveExternal, TypeOK, MachineOK
<1>6. CASE Cleanup
  BY <1>1, <1>6 DEF Cleanup, TypeOK, MachineOK, program
<1>7. CASE Tick
  <2>1. now' \in Instants \ {0}
    BY <1>7 DEF Tick, TypeOK, Instants
  <2>2. Doing \in ExecutionState
    BY DEF Doing, ExecutionState
  <2>3. spent' \in [ExecutionState -> Nat]
    BY <1>7, <2>2 DEF Tick, TypeOK
  <2> QED
    BY <1>1, <1>7, <2>1, <2>3 DEF Tick, TypeOK, MachineOK, program
<1>8. CASE Gone \/ UNCHANGED vars
  BY <1>8 DEF Gone, vars, TypeOK, program
<1> QED
  BY <1>2, <1>3, <1>4, <1>5, <1>6, <1>7, <1>8 DEF Next

\* A failed push leaves the stack behind the calls, never ahead of them, and a
\* pop never takes the last context away.
LEMMA StackStep ==
    TypeOK /\ MachineInv /\ StackFollowsCalls /\ [Next]_vars => StackFollowsCalls'
<1> SUFFICES ASSUME TypeOK, MachineInv, StackFollowsCalls, [Next]_vars
             PROVE  StackFollowsCalls'
  OBVIOUS
<1> USE MaxDepthAssumption, BoundsAssumption DEF StackFollowsCalls
<1>1. calls \in Nat /\ depth \in Nat
  BY DEF TypeOK
<1>2. CASE EnterUnsafe
  BY <1>1, <1>2 DEF EnterUnsafe, NoSlot, AttachIn, transition_state
<1>3. CASE LeaveUnsafe
  BY <1>1, <1>3 DEF LeaveUnsafe, NoSlot, AttachIn, transition_state
<1>4. CASE EnterExternal
  BY <1>1, <1>4 DEF EnterExternal, NoSlot, push_context, AttachCalling
<1>5. CASE LeaveExternal
  BY <1>1, <1>5 DEF LeaveExternal, pop_context
<1>6. CASE Cleanup \/ Tick \/ Gone \/ UNCHANGED vars
  BY <1>1, <1>6 DEF Cleanup, Tick, Gone, vars, program
<1> QED
  BY <1>2, <1>3, <1>4, <1>5, <1>6 DEF Next

\* The invariant holds in every reachable state.
LEMMA Invariant == Spec => [](TypeOK /\ MachineInv /\ StackFollowsCalls)
<1>1. TypeOK /\ MachineInv /\ StackFollowsCalls /\ [Next]_vars
        => (TypeOK /\ MachineInv /\ StackFollowsCalls)'
  BY MachineStep, TypeStep, StackStep
<1> QED
  BY InitInv, <1>1, PTL DEF Spec

\* All variables stay in their types: no hook reads or writes outside the stack.
THEOREM TypeCorrect == Spec => []TypeOK
BY Invariant, PTL

\* Every cycle between the slot of a thread and its last hook is counted, once
\* (transition_state, push_context, pop_context, thread_cleanup).
THEOREM TimeKept == ASSUME ~LateHooks PROVE Spec => []NoTimeLost
<1>1. MachineInv => NoTimeLost
  BY DEF MachineInv, TimeInv, NoTimeLost
<1> QED
  BY Invariant, <1>1, PTL

\* The stack is in step with the calls again when the outermost one has returned.
THEOREM StackKept == Spec => []StackFollowsCalls
BY Invariant, PTL
-----------------------------------------------------------------------------
(* What the time is charged to                                             *)

\* Blocks are open in activations that exist; before the slot no time counts.
ProgramInv ==
    /\ \A i \in calls + 1 .. MaxCalls : blocks[i] = 0
    /\ ~Attached => \A s \in ExecutionState : spent[s] = 0 /\ cycles[s] = 0

\* Blocks and calls as the hooks can follow them: one block at a time, in the current
\* activation or around the only call; each context is in the state of its activation.
Nested ==
    /\ depth = calls + 1
    /\ \A i \in 0 .. calls :
         blocks[i] > 0 => blocks[i] = 1 /\ (i = calls \/ (i = 0 /\ calls = 1))
    /\ \A i, j \in 0 .. calls : blocks[i] > 0 /\ blocks[j] > 0 => i = j
    /\ stack[0].state = IF blocks[0] > 0 THEN "Unsafe" ELSE "Normal"
    /\ \A i \in 1 .. calls :
         stack[i].state = IF blocks[0] > 0 \/ blocks[i] > 0 THEN "ExternalUnsafe" ELSE "ExternalSafe"

Classified ==
    \A s \in ExecutionState : spent[s] = cycles[s] + (IF s = Top.state THEN now - Top.start ELSE 0)

Followed == Attached /\ ~cleaned /\ ~strayed
ClassInv == ProgramInv /\ (Followed => Nested /\ Classified)

\* Then the context on top is in the state that the program is in.
LEMMA TopDoing ==
    ASSUME TypeOK, Nested
    PROVE  /\ Top = stack[calls] /\ depth - 1 = calls /\ calls \in Places /\ Top.state = Doing
           /\ ~ BlockOpen => /\ \A i \in 0 .. calls : blocks[i] = 0
                             /\ stack[0].state = "Normal"
                             /\ \A i \in 1 .. calls : stack[i].state = "ExternalSafe"
<1> USE MaxDepthAssumption, BoundsAssumption
<1>1. calls \in Nat /\ calls <= MaxCalls /\ \A i \in 0 .. calls : blocks[i] \in Nat
  BY DEF TypeOK
<1>2. depth - 1 = calls /\ calls \in Places
  BY <1>1 DEF Nested, TypeOK, Places
<1>3. ~ BlockOpen => \A i \in 0 .. calls : blocks[i] = 0
  BY <1>1 DEF BlockOpen
<1>4. ~ BlockOpen => /\ stack[0].state = "Normal"
                     /\ \A i \in 1 .. calls : stack[i].state = "ExternalSafe"
  BY <1>1, <1>3 DEF Nested
<1>5. CASE calls = 0
  <2>1. BlockOpen <=> blocks[0] > 0
    BY <1>1, <1>5 DEF BlockOpen
  <2>2. Doing = IF BlockOpen THEN "Unsafe" ELSE "Normal"
    BY <1>5 DEF Doing
  <2> QED
    BY <1>2, <1>3, <1>4, <1>5, <2>1, <2>2 DEF Nested
<1>6. CASE calls # 0
  <2>1. BlockOpen <=> blocks[0] > 0 \/ blocks[calls] > 0
    BY <1>1, <1>6 DEF BlockOpen, Nested
  <2>2. Doing = IF BlockOpen THEN "ExternalUnsafe" ELSE "ExternalSafe"
    BY <1>6 DEF Doing
  <2>3. stack[calls].state = IF BlockOpen THEN "ExternalUnsafe" ELSE "ExternalSafe"
    BY <1>1, <1>6, <2>1 DEF Nested
  <2> QED
    BY <1>2, <1>3, <1>4, <2>2, <2>3
<1> QED
  BY <1>5, <1>6

\* A charge of the top context accounts for all time up to now.
LEMMA ChargeClassified ==
    ASSUME TypeOK, TopInv, Attached, Classified, Charge(Top), spent' = spent
    PROVE  \A s \in ExecutionState : spent'[s] = cycles'[s]
<1> USE MaxDepthAssumption, BoundsAssumption
<1>1. Top.state \in ExecutionState /\ Top.start \in Nat
  BY DEF TypeOK, Places, Frames, Instants
<1>2. now \in Nat /\ Top.start > 0 /\ Top.start <= now
  BY DEF TopInv, TypeOK, Instants
<1>3. ASSUME NEW s \in ExecutionState PROVE spent[s] = cycles'[s]
  <2>0. cycles[s] \in Nat /\ cycles \in [ExecutionState -> Nat]
    BY DEF TypeOK
  <2>1. spent[s] = cycles[s] + (IF s = Top.state THEN now - Top.start ELSE 0)
    BY DEF Classified
  <2>2. CASE now > Top.start
    <3>1. cycles' = [cycles EXCEPT ![Top.state] = @ + (now - Top.start)]
      BY <1>2, <2>2 DEF Charge
    <3> QED
      BY <1>1, <1>2, <2>0, <2>1, <3>1
  <2>3. CASE now = Top.start
    BY <1>2, <2>0, <2>1, <2>3 DEF Charge
  <2> QED
    BY <1>1, <1>2, <2>2, <2>3
<1> QED
  BY <1>3

\* The context that is on top afterwards starts now.
LEMMA RestartClassified ==
    ASSUME TypeOK, \A s \in ExecutionState : spent'[s] = cycles'[s],
           cycles' \in [ExecutionState -> Nat], now' = now, stack'[depth' - 1].start = now
    PROVE  Classified'
<1>1. now \in Nat
  BY BoundsAssumption DEF TypeOK, Instants
<1> QED
  BY <1>1 DEF Classified

\* A block begins: it is the only one.
LEMMA EnterUnsafeClass ==
    ASSUME TypeOK, MachineInv, TypeOK', ClassInv, EnterUnsafe
    PROVE  ClassInv'
<1> USE MaxDepthAssumption, BoundsAssumption
<1>1. /\ blocks' = [blocks EXCEPT ![calls] = @ + 1] /\ UNCHANGED <<now, cleaned, calls, spent>>
      /\ strayed' = (strayed \/ BlockOpen \/ (~Attached /\ calls > 0))
  BY DEF EnterUnsafe, Stray
<1>2. calls \in Nat /\ calls <= MaxCalls /\ \A i \in 0 .. MaxCalls : blocks[i] \in Nat
  BY DEF TypeOK
<1>3. \A i \in 0 .. MaxCalls : blocks'[i] = IF i = calls THEN blocks[i] + 1 ELSE blocks[i]
  BY <1>1, <1>2 DEF TypeOK
<1>4. \A i \in calls' + 1 .. MaxCalls : blocks'[i] = 0
  BY <1>1, <1>2, <1>3 DEF ClassInv, ProgramInv
<1>5. CASE NoSlot
  BY <1>1, <1>4, <1>5 DEF NoSlot, ClassInv, ProgramInv, Followed
<1>6. CASE AttachIn("Unsafe")
  <2>1. depth' = 1 /\ stack'[0] = Frame("Unsafe", now) /\ cycles' = cycles /\ ~ Attached
    BY <1>6 DEF AttachIn, TypeOK, Places
  <2>2. \A s \in ExecutionState : spent'[s] = cycles'[s]
    BY <1>1, <2>1 DEF ClassInv, ProgramInv
  <2>3. stack'[depth' - 1].start = now /\ stack'[0].state = "Unsafe"
    BY <2>1 DEF Frame
  <2>4. Classified'
    BY <1>1, <2>1, <2>2, <2>3, RestartClassified DEF TypeOK
  <2>5. Followed' => Nested'
    <3>1. Followed' => calls = 0 /\ ~ BlockOpen
      <4>1. Followed' => ~ (BlockOpen \/ (~Attached /\ calls > 0))
        BY <1>1, Zenon DEF Followed
      <4> QED
        BY <1>2, <2>1, <4>1
    <3>2. Followed' => calls' = 0 /\ blocks'[0] = 1
      BY <1>1, <1>2, <1>3, <3>1 DEF BlockOpen
    <3> QED
      BY <2>1, <2>3, <3>2 DEF Nested
  <2> QED
    BY <1>4, <2>1, <2>4, <2>5 DEF ClassInv, ProgramInv
<1>7. CASE transition_state(Entered(Top.state))
  <2>1. /\ Attached /\ Charge(Top) /\ depth' = depth
        /\ stack' = [stack EXCEPT ![depth - 1] = Frame(Entered(Top.state), now)]
    BY <1>7 DEF transition_state
  <2>2. SUFFICES ASSUME Followed' PROVE Nested' /\ Classified'
    BY <1>4, <2>1 DEF ClassInv, ProgramInv
  <2>3. Followed /\ Nested /\ Classified /\ ~ BlockOpen
    BY <1>1, <2>1, <2>2 DEF Followed, ClassInv
  <2>4. /\ depth - 1 = calls /\ calls \in Places /\ Top = stack[calls]
        /\ \A i \in 0 .. calls : blocks[i] = 0
        /\ stack[0].state = "Normal" /\ \A i \in 1 .. calls : stack[i].state = "ExternalSafe"
    BY <2>3, TopDoing
  <2>5. stack'[calls] = Frame(Entered(Top.state), now) /\ \A i \in 0 .. calls - 1 : stack'[i] = stack[i]
    BY <1>2, <2>1, <2>4 DEF TypeOK, Places
  <2>6. stack'[calls].start = now /\ stack'[calls].state = IF calls = 0 THEN "Unsafe" ELSE "ExternalUnsafe"
    BY <1>2, <2>4, <2>5 DEF Frame, Entered
  <2>7. \A i \in 0 .. calls : blocks'[i] = IF i = calls THEN 1 ELSE 0
    BY <1>2, <1>3, <2>4
  <2>8. Nested'
    BY <1>1, <1>2, <2>1, <2>3, <2>4, <2>5, <2>6, <2>7 DEF Nested
  <2>9. Classified'
    <3>1. \A s \in ExecutionState : spent'[s] = cycles'[s]
      BY <1>1, <2>1, <2>3, ChargeClassified DEF MachineInv
    <3>2. stack'[depth' - 1].start = now
      BY <2>1, <2>4, <2>6
    <3> QED
      BY <1>1, <3>1, <3>2, RestartClassified DEF TypeOK
  <2> QED
    BY <2>8, <2>9
<1> QED
  BY <1>5, <1>6, <1>7 DEF EnterUnsafe

\* A block ends: none is open.
LEMMA LeaveUnsafeClass ==
    ASSUME TypeOK, MachineInv, TypeOK', ClassInv, LeaveUnsafe
    PROVE  ClassInv'
<1> USE MaxDepthAssumption, BoundsAssumption
<1>1. /\ blocks' = [blocks EXCEPT ![calls] = @ - 1] /\ UNCHANGED <<now, cleaned, calls, spent>>
      /\ strayed' = (strayed \/ ~Attached) /\ blocks[calls] > 0
  BY DEF LeaveUnsafe, Stray
<1>2. calls \in Nat /\ calls <= MaxCalls /\ \A i \in 0 .. MaxCalls : blocks[i] \in Nat
  BY DEF TypeOK
<1>3. \A i \in 0 .. MaxCalls : blocks'[i] = IF i = calls THEN blocks[i] - 1 ELSE blocks[i]
  BY <1>1, <1>2 DEF TypeOK
<1>4. \A i \in calls' + 1 .. MaxCalls : blocks'[i] = 0
  BY <1>1, <1>2, <1>3 DEF ClassInv, ProgramInv
<1>5. CASE NoSlot
  BY <1>1, <1>4, <1>5 DEF NoSlot, ClassInv, ProgramInv, Followed
<1>6. CASE AttachIn("Normal")
  <2>1. ~ Attached /\ depth' = 1
    BY <1>6 DEF AttachIn
  <2>2. strayed'
    BY <1>1, <2>1
  <2> QED
    BY <1>4, <2>1, <2>2 DEF ClassInv, ProgramInv, Followed
<1>7. CASE transition_state(Left(Top.state))
  <2>1. /\ Attached /\ Charge(Top) /\ depth' = depth
        /\ stack' = [stack EXCEPT ![depth - 1] = Frame(Left(Top.state), now)]
    BY <1>7 DEF transition_state
  <2>2. SUFFICES ASSUME Followed' PROVE Nested' /\ Classified'
    BY <1>4, <2>1 DEF ClassInv, ProgramInv
  <2>3. Followed /\ Nested /\ Classified
    BY <1>1, <2>1, <2>2 DEF Followed, ClassInv
  <2>4. /\ depth - 1 = calls /\ calls \in Places /\ Top = stack[calls]
    BY <2>3, TopDoing
  <2>5. /\ blocks[calls] = 1 /\ \A i \in 0 .. calls - 1 : blocks[i] = 0
    BY <1>1, <1>2, <2>3 DEF Nested
  <2>6. stack'[calls] = Frame(Left(Top.state), now) /\ \A i \in 0 .. calls - 1 : stack'[i] = stack[i]
    BY <1>2, <2>1, <2>4 DEF TypeOK, Places
  <2>7. stack[calls].state = IF calls = 0 THEN "Unsafe" ELSE "ExternalUnsafe"
    BY <1>2, <2>3, <2>5 DEF Nested
  <2>8. stack'[calls].start = now /\ stack'[calls].state = IF calls = 0 THEN "Normal" ELSE "ExternalSafe"
    BY <2>4, <2>6, <2>7 DEF Frame, Left
  <2>9. \A i \in 0 .. calls : blocks'[i] = 0
    BY <1>2, <1>3, <2>5
  <2>10. Nested'
    BY <1>1, <1>2, <2>1, <2>3, <2>5, <2>6, <2>8, <2>9 DEF Nested
  <2>11. Classified'
    <3>1. \A s \in ExecutionState : spent'[s] = cycles'[s]
      BY <1>1, <2>1, <2>3, ChargeClassified DEF MachineInv
    <3>2. stack'[depth' - 1].start = now
      BY <2>1, <2>4, <2>8
    <3> QED
      BY <1>1, <3>1, <3>2, RestartClassified DEF TypeOK
  <2> QED
    BY <2>10, <2>11
<1> QED
  BY <1>5, <1>6, <1>7 DEF LeaveUnsafe

\* A call begins: its context is in the state of what calls it.
LEMMA EnterExternalClass ==
    ASSUME TypeOK, MachineInv, TypeOK', ClassInv, EnterExternal
    PROVE  ClassInv'
<1> USE MaxDepthAssumption, BoundsAssumption
<1>1. /\ calls' = calls + 1 /\ UNCHANGED <<now, cleaned, blocks, spent>>
      /\ strayed' = (strayed \/ (\/ BlockOpen /\ (calls > 0 \/ ~Attached)
                                 \/ depth >= MaxDepth
                                 \/ ~Attached /\ (calls > 0 \/ MaxDepth = 1)))
  BY DEF EnterExternal, Stray
<1>2. calls \in Nat /\ calls < MaxCalls /\ \A i \in 0 .. MaxCalls : blocks[i] \in Nat
  BY DEF TypeOK, EnterExternal
<1>3. blocks[calls + 1] = 0 /\ \A i \in calls' + 1 .. MaxCalls : blocks'[i] = 0
  BY <1>1, <1>2 DEF ClassInv, ProgramInv
<1>4. Followed' => /\ ~ strayed /\ ~ (BlockOpen /\ (calls > 0 \/ ~Attached)) /\ ~ (depth >= MaxDepth)
                   /\ ~ (~Attached /\ (calls > 0 \/ MaxDepth = 1))
  BY <1>1, Zenon DEF Followed
<1>5. CASE NoSlot
  BY <1>1, <1>3, <1>5 DEF NoSlot, ClassInv, ProgramInv, Followed
<1>6. CASE AttachCalling
  <2>1. cycles' = cycles /\ ~ Attached /\ depth' \in {1, 2}
    BY <1>6 DEF AttachCalling
  <2>2. SUFFICES ASSUME Followed' PROVE Nested' /\ Classified'
    BY <1>3, <2>1 DEF ClassInv, ProgramInv
  <2>3. calls = 0 /\ MaxDepth > 1 /\ ~ BlockOpen
    BY <1>2, <1>4, <2>1, <2>2
  <2>4. /\ depth' = 2 /\ stack'[0] = Frame("Normal", now) /\ stack'[1] = Frame("ExternalSafe", now)
    BY <1>6, <2>3 DEF AttachCalling, TypeOK, Places
  <2>5. blocks[0] = 0
    BY <1>2, <2>3 DEF BlockOpen
  <2>6. /\ stack'[0].state = "Normal" /\ stack'[1].state = "ExternalSafe" /\ stack'[1].start = now
    BY <2>4 DEF Frame
  <2>7. Nested'
    BY <1>1, <1>2, <1>3, <2>3, <2>4, <2>5, <2>6 DEF Nested
  <2>8. \A s \in ExecutionState : spent'[s] = cycles'[s]
    BY <1>1, <2>1 DEF ClassInv, ProgramInv
  <2>9. Classified'
    BY <1>1, <2>4, <2>6, <2>8, RestartClassified DEF TypeOK
  <2> QED
    BY <2>7, <2>9
<1>7. CASE Attached /\ push_context(Called(Top.state))
  <2>1. depth' \in Nat /\ depth' > 0 /\ Attached
    BY <1>7 DEF push_context, TypeOK
  <2>2. SUFFICES ASSUME Followed' PROVE Nested' /\ Classified'
    BY <1>3, <2>1 DEF ClassInv, ProgramInv
  <2>3. Followed /\ Nested /\ Classified
    BY <1>1, <1>4, <2>1, <2>2 DEF Followed, ClassInv
  <2>4. /\ Charge(Top) /\ depth' = depth + 1
        /\ stack' = [stack EXCEPT ![depth] = Frame(Called(Top.state), now)]
    BY <1>4, <1>7, <2>2 DEF push_context
  <2>5. /\ depth = calls + 1 /\ depth \in Places /\ depth - 1 = calls /\ Top = stack[calls]
        /\ Top.state = Doing
    BY <1>2, <1>4, <2>2, <2>3, TopDoing DEF Nested, Places, TypeOK
  <2>6. stack'[calls + 1] = Frame(Called(Top.state), now) /\ \A i \in 0 .. calls : stack'[i] = stack[i]
    BY <1>2, <2>4, <2>5 DEF TypeOK, Places
  <2>7. stack'[calls + 1].start = now /\ stack'[calls + 1].state = Called(Top.state)
    BY <2>6 DEF Frame
  <2>8. ASSUME BlockOpen PROVE Nested'
    <3>1. calls = 0
      BY <1>2, <1>4, <2>2, <2>8
    <3>2. blocks[0] = 1
      BY <1>2, <2>3, <2>8, <3>1 DEF BlockOpen, Nested
    <3>3. stack[0].state = "Unsafe" /\ Called(Top.state) = "ExternalUnsafe"
      BY <2>3, <2>5, <3>1, <3>2 DEF Nested, Called
    <3> QED
      BY <1>1, <1>2, <1>3, <2>3, <2>4, <2>5, <2>6, <2>7, <3>1, <3>2, <3>3 DEF Nested
  <2>9. ASSUME ~ BlockOpen PROVE Nested'
    <3>1. /\ \A i \in 0 .. calls : blocks[i] = 0
          /\ stack[0].state = "Normal" /\ \A i \in 1 .. calls : stack[i].state = "ExternalSafe"
      BY <2>3, <2>9, TopDoing
    <3>2. Called(Top.state) = "ExternalSafe"
      BY <1>2, <2>5, <3>1 DEF Called
    <3> QED
      BY <1>1, <1>2, <1>3, <2>4, <2>5, <2>6, <2>7, <3>1, <3>2 DEF Nested
  <2>10. Classified'
    <3>1. \A s \in ExecutionState : spent'[s] = cycles'[s]
      BY <1>1, <2>3, <2>4, <1>7, ChargeClassified DEF MachineInv
    <3>2. stack'[depth' - 1].start = now
      BY <1>2, <2>4, <2>5, <2>7
    <3> QED
      BY <1>1, <3>1, <3>2, RestartClassified DEF TypeOK
  <2> QED
    BY <2>8, <2>9, <2>10
<1> QED
  BY <1>5, <1>6, <1>7 DEF EnterExternal

\* A call ends: the context below is still in the state it was called from.
LEMMA LeaveExternalClass ==
    ASSUME TypeOK, MachineInv, TypeOK', ClassInv, LeaveExternal
    PROVE  ClassInv'
<1> USE MaxDepthAssumption, BoundsAssumption
<1>1. /\ calls' = calls - 1 /\ UNCHANGED <<now, cleaned, blocks, spent, strayed>>
      /\ pop_context /\ calls > 0 /\ blocks[calls] = 0
  BY DEF LeaveExternal
<1>2. calls \in Nat /\ calls <= MaxCalls /\ \A i \in 0 .. MaxCalls : blocks[i] \in Nat
  BY DEF TypeOK
<1>3. \A i \in calls' + 1 .. MaxCalls : blocks'[i] = 0
  BY <1>1, <1>2 DEF ClassInv, ProgramInv
<1>4. CASE ~ Attached
  <2>1. cycles' = cycles /\ depth' = depth
    BY <1>1, <1>4 DEF pop_context, TypeOK
  <2> QED
    BY <1>1, <1>3, <1>4, <2>1 DEF ClassInv, ProgramInv, Followed
<1>5. CASE Attached
  <2>1. depth' \in Nat /\ depth' > 0
    BY <1>1, <1>5 DEF pop_context, TypeOK
  <2>2. SUFFICES ASSUME Followed' PROVE Nested' /\ Classified'
    BY <1>3, <2>1 DEF ClassInv, ProgramInv
  <2>3. Followed /\ Nested /\ Classified
    BY <1>1, <1>5, <2>2 DEF Followed, ClassInv
  <2>4. /\ depth = calls + 1 /\ depth - 2 = calls - 1 /\ depth - 2 \in Places
        /\ depth > 1 /\ depth \in Nat
    BY <1>1, <1>2, <2>3 DEF Nested, Places, TypeOK
  <2>5. Charge(Top) /\ depth' = depth - 1 /\ stack' = [stack EXCEPT ![depth - 2].start = now]
    BY <1>1, <2>4 DEF pop_context
  <2>6. \A i \in Places : stack'[i].state = stack[i].state
    BY <2>4, <2>5 DEF TypeOK, Frames
  <2>7. stack'[depth - 2].start = now
    BY <2>4, <2>5 DEF TypeOK, Frames
  <2>8. \A i \in 0 .. calls : i \in Places
    BY <1>2, <2>4 DEF TypeOK, Places
  <2>9. Nested'
    BY <1>1, <1>2, <2>3, <2>4, <2>5, <2>6, <2>8 DEF Nested
  <2>10. Classified'
    <3>1. \A s \in ExecutionState : spent'[s] = cycles'[s]
      BY <1>1, <1>5, <2>3, <2>5, ChargeClassified DEF MachineInv
    <3>2. stack'[depth' - 1].start = now
      BY <2>4, <2>5, <2>7
    <3> QED
      BY <1>1, <3>1, <3>2, RestartClassified DEF TypeOK
  <2> QED
    BY <2>9, <2>10
<1> QED
  BY <1>4, <1>5

\* Time passes, in the state that the program is in.
LEMMA TickClass ==
    ASSUME TypeOK, MachineInv, ClassInv, Tick
    PROVE  ClassInv'
<1> USE MaxDepthAssumption, BoundsAssumption
<1>1. /\ now' = now + 1 /\ UNCHANGED <<stack, depth, cycles, cleaned, calls, blocks, strayed>>
      /\ spent' = IF Attached /\ ~cleaned THEN [spent EXCEPT ![Doing] = @ + 1] ELSE spent
  BY DEF Tick, program
<1>2. ProgramInv'
  BY <1>1 DEF ClassInv, ProgramInv
<1>3. ASSUME Followed' PROVE Nested' /\ Classified'
  <2>1. Followed /\ Nested /\ Classified
    BY <1>1, <1>3 DEF Followed, ClassInv
  <2>2. Nested'
    BY <1>1, <2>1 DEF Nested
  <2>3. /\ Top.state = Doing /\ Top' = Top /\ Top.start \in Nat /\ Top.start <= now /\ now \in Nat
        /\ Top.state \in ExecutionState
    <3>1. Top \in Frames
      BY <2>1, TopDoing DEF TypeOK
    <3> QED
      BY <1>1, <2>1, <3>1, TopDoing DEF TypeOK, Frames, Instants, MachineInv, TopInv, Followed
  <2>4. spent' = [spent EXCEPT ![Doing] = @ + 1]
    BY <1>1, <2>1 DEF Followed
  <2>5. ASSUME NEW s \in ExecutionState
        PROVE  spent'[s] = cycles'[s] + (IF s = Top'.state THEN now' - Top'.start ELSE 0)
    <3>1. spent[s] = cycles[s] + (IF s = Top.state THEN now - Top.start ELSE 0)
      BY <2>1 DEF Classified
    <3>2. spent[s] \in Nat /\ cycles[s] \in Nat /\ spent'[s] = IF s = Top.state THEN spent[s] + 1 ELSE spent[s]
      BY <2>3, <2>4 DEF TypeOK
    <3> QED
      BY <1>1, <2>3, <3>1, <3>2
  <2> QED
    BY <2>2, <2>5 DEF Classified
<1> QED
  BY <1>2, <1>3 DEF ClassInv

\* The states of the contexts follow the program.
LEMMA ClassStep == TypeOK /\ MachineInv /\ TypeOK' /\ ClassInv /\ [Next]_vars => ClassInv'
<1> SUFFICES ASSUME TypeOK, MachineInv, TypeOK', ClassInv, [Next]_vars PROVE ClassInv'
  OBVIOUS
<1>1. CASE Cleanup
  <2>1. /\ cleaned' /\ UNCHANGED <<depth, calls, blocks, spent>>
        /\ ~ Attached => cycles' = cycles
    BY <1>1 DEF Cleanup, program
  <2> QED
    BY <2>1 DEF ClassInv, ProgramInv, Followed
<1>2. CASE Gone \/ UNCHANGED vars
  BY <1>2 DEF Gone, vars, program, ClassInv, ProgramInv, Followed, Nested, Classified
<1> QED
  BY <1>1, <1>2, EnterUnsafeClass, LeaveUnsafeClass, EnterExternalClass, LeaveExternalClass,
     TickClass DEF Next

\* With a slot from the start or without one, no time has passed.
LEMMA ClassInit == Init => ClassInv
<1> SUFFICES ASSUME Init PROVE ClassInv
  OBVIOUS
<1> USE MaxDepthAssumption, BoundsAssumption
<1>1. /\ calls = 0 /\ \A i \in 0 .. MaxCalls : blocks[i] = 0
      /\ \A s \in ExecutionState : cycles[s] = 0 /\ spent[s] = 0
  BY DEF Init
<1>2. Attached => depth = 1 /\ stack[0].state = "Normal" /\ stack[0].start = now /\ now = 1
  BY DEF Init, Places, Frame
<1> QED
  BY <1>1, <1>2 DEF ClassInv, ProgramInv, Followed, Nested, Classified

\* As long as blocks and calls are nested in the ways the hooks follow, the time of
\* each state is the time the program has spent in it (the four hooks and Entered,
\* Left and Called, which choose a state from the one they find).
THEOREM TimeInItsState == Spec => []TimeClassified
<1>1. ClassInv => TimeClassified
  BY DEF ClassInv, Followed, Classified, TimeClassified
<1>2. Spec => []ClassInv
  BY Invariant, ClassInit, ClassStep, PTL DEF Spec
<1> QED
  BY <1>1, <1>2, PTL
=============================================================================
