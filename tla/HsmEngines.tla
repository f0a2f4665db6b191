----------------------------- MODULE HsmEngines -----------------------------
(***************************************************************************)
(* The two engines on the state of Hsm.tla: `engine` says which one runs.  *)
(***************************************************************************)
EXTENDS Hsm

VARIABLE engine

H == INSTANCE QHsm
M == INSTANCE QMsm

Init == \/ engine = "QHsm" /\ H!Init
        \/ engine = "QMsm" /\ M!Init

Next == /\ UNCHANGED engine
        /\ \/ engine = "QHsm" /\ H!Next
           \/ engine = "QMsm" /\ M!Next

Spec == Init /\ [][Next]_<<vars, engine>>

(* When the exit actions of a transition have run, exactly the states that  *)
(* source and target share are still active; a self-transition has exited   *)
(* its source ("so the source state itself is exited and re-entered"),      *)
(* except that QMsm does not exit an outermost state.                       *)
ScopeOrOutermostSelf ==
    [][pc = "exit" /\ pc' = "enter" =>
        \/ active = Kept
        \/ engine = "QMsm" /\ source = target /\ super[source] = Top]_<<vars, engine>>
=============================================================================
