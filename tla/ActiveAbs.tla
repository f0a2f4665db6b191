----------------------------- MODULE ActiveAbs ------------------------------
(***************************************************************************)
(* What a kernel of crates/qf promises to an active object: its events are *)
(* handled one at a time, each once, in the order in which they were       *)
(* posted to it.                                                           *)
(***************************************************************************)
EXTENDS Naturals, Sequences

CONSTANTS
    Prios,
    Events   \* positive numbers

VARIABLES
    pending,   \* events waiting for each object, oldest first
    running    \* the event each object is handling, or 0

absVars == <<pending, running>>

Init ==
    /\ pending = [p \in Prios |-> <<>>]
    /\ running = [p \in Prios |-> 0]

Post(p, e) ==
    /\ pending' = [pending EXCEPT ![p] = Append(@, e)]
    /\ UNCHANGED running

Begin(p) ==
    /\ running[p] = 0
    /\ pending[p] # <<>>
    /\ running' = [running EXCEPT ![p] = Head(pending[p])]
    /\ pending' = [pending EXCEPT ![p] = Tail(@)]

End(p) ==
    /\ running[p] # 0
    /\ running' = [running EXCEPT ![p] = 0]
    /\ UNCHANGED pending

Next == \E p \in Prios : (\E e \in Events : Post(p, e)) \/ Begin(p) \/ End(p)

Spec == Init /\ [][Next]_absVars
=============================================================================
