------------------------------ MODULE SlotPool ------------------------------
(***************************************************************************)
(* What the thread registry promises: a pool of accounts.  A thread owns   *)
(* at most one account at a time and an account has at most one owner;     *)
(* acquiring one empties it, only its owner adds to it, and what is in it  *)
(* stays after its owner has given it back, until it is acquired again.    *)
(***************************************************************************)
EXTENDS Integers

CONSTANTS Threads, Slots

VARIABLES
    owner,   \* per slot: the set of its owners, empty or a singleton
    balance  \* per slot: what has been added since it was acquired

vars == <<owner, balance>>

Init ==
    /\ owner = [s \in Slots |-> {}]
    /\ balance = [s \in Slots |-> 0]

Acquire(t, s) ==
    /\ owner[s] = {}
    /\ \A other \in Slots : t \notin owner[other]
    /\ owner' = [owner EXCEPT ![s] = {t}]
    /\ balance' = [balance EXCEPT ![s] = 0]

Deposit(t, s) ==
    /\ owner[s] = {t}
    /\ balance'[s] >= balance[s]
    /\ balance' = [balance EXCEPT ![s] = balance'[s]]
    /\ UNCHANGED owner

Release(t, s) ==
    /\ owner[s] = {t}
    /\ owner' = [owner EXCEPT ![s] = {}]
    /\ UNCHANGED balance

Next ==
    \E t \in Threads, s \in Slots : Acquire(t, s) \/ Deposit(t, s) \/ Release(t, s)

Spec == Init /\ [][Next]_vars
=============================================================================
