------------------------------ MODULE PoolAbs -------------------------------
(***************************************************************************)
(* What the event pools promise the rest of the framework: memory blocks   *)
(* that threads take, share and give back.  A block is only handed out     *)
(* when nobody holds it, and only a holder can share it.                   *)
(***************************************************************************)
EXTENDS Naturals

CONSTANT Blocks

VARIABLE holders    \* how many owners each block has

Init == holders = [b \in Blocks |-> 0]

Take(b)    == holders[b] = 0 /\ holders' = [holders EXCEPT ![b] = 1]
Share(b)   == holders[b] > 0 /\ holders' = [holders EXCEPT ![b] = @ + 1]
Release(b) == holders[b] > 0 /\ holders' = [holders EXCEPT ![b] = @ - 1]

Next == \E b \in Blocks : Take(b) \/ Share(b) \/ Release(b)

Spec == Init /\ [][Next]_holders
=============================================================================
