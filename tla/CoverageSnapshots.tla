------------------------- MODULE CoverageSnapshots -------------------------
(***************************************************************************)
(* What the coverage tracker promises to those who ask it: a snapshot.     *)
(* Between question and answer there is a moment at which somebody who     *)
(* asks sees both sets at once, and what was seen is still so when it is   *)
(* answered.  The flag lets one question for the report pass, until it is  *)
(* cleared.  A reset is no snapshot: it takes place bit by bit.            *)
(***************************************************************************)

CONSTANTS Lines, Threads

VARIABLES
    registered, executed,   \* lines
    written,                \* the flag of the report
    asked,                  \* per thread: what it has asked for
    seen                    \* per thread: the set of its snapshots, empty or a singleton

vars == <<registered, executed, written, asked, seen>>

Now == [registered |-> registered, executed |-> executed]

Init ==
    /\ registered = {} /\ executed = {}
    /\ written = FALSE
    /\ asked = [t \in Threads |-> "none"]
    /\ seen = [t \in Threads |-> {}]

Register(line) ==
    registered' = registered \cup {line} /\ UNCHANGED <<executed, written, asked, seen>>

Execute(line) ==
    executed' = executed \cup {line} /\ UNCHANGED <<registered, written, asked, seen>>

AskPercentage(t) ==
    /\ asked[t] = "none"
    /\ asked' = [asked EXCEPT ![t] = "percentage"]
    /\ UNCHANGED <<registered, executed, written, seen>>

AskReport(t) ==
    /\ asked[t] = "none" /\ ~written
    /\ asked' = [asked EXCEPT ![t] = "report"]
    /\ written' = TRUE
    /\ UNCHANGED <<registered, executed, seen>>

Look(t) ==
    /\ asked[t] # "none" /\ seen[t] = {}
    /\ seen' = [seen EXCEPT ![t] = {Now}]
    /\ UNCHANGED <<registered, executed, written, asked>>

Answer(t) ==
    /\ seen[t] = {Now}
    /\ seen' = [seen EXCEPT ![t] = {}]
    /\ asked' = [asked EXCEPT ![t] = "none"]
    /\ UNCHANGED <<registered, executed, written>>

ForgetRegistered == registered' = {} /\ UNCHANGED <<executed, written, asked, seen>>
ForgetExecuted == executed' = {} /\ UNCHANGED <<registered, written, asked, seen>>
ForgetWritten == written' = FALSE /\ UNCHANGED <<registered, executed, asked, seen>>

Next ==
    \/ \E line \in Lines : Register(line) \/ Execute(line)
    \/ \E t \in Threads : AskPercentage(t) \/ AskReport(t) \/ Look(t) \/ Answer(t)
    \/ ForgetRegistered \/ ForgetExecuted \/ ForgetWritten

Spec == Init /\ [][Next]_vars
=============================================================================
