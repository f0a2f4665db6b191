-------------------------------- MODULE QMsm --------------------------------
(***************************************************************************)
(* QMsm<S> of crates/qf/src/hsm/qmsm.rs: states are static table nodes     *)
(* with a superstate reference and optional entry, exit and initial        *)
(* actions; ancestry paths have no length limit.                           *)
(***************************************************************************)
EXTENDS Hsm, SequencesExt

path_to_top(x) == Ancestry[x]

(* The first state of path1 that is in path2, or None. *)
find_lca(path1, path2) ==
    LET i == SelectInSeq(path1, LAMBDA a : a \in ToSet(path2))
    IN  IF i = 0 THEN Top ELSE path1[i]

(* What lies below x on path, outermost first; the whole path if x is not   *)
(* on it.                                                                   *)
Below(path, x) ==
    LET i == SelectInSeq(path, LAMBDA a : a = x)
    IN  Reverse(IF i = 0 THEN path ELSE SubSeq(path, 1, i - 1))

(* execute_tran: a self-transition looks for the ancestor from the          *)
(* superstate of source, or from source itself when it has none.            *)
lca ==
    find_lca(path_to_top(IF source = target /\ super[source] # Top
                           THEN super[source] ELSE source),
             path_to_top(target))

-----------------------------------------------------------------------------
(* new: `state` already holds the initial state, none of which is entered. *)
Init ==
    /\ super \in Hierarchies
    /\ state \in States
    /\ history = [x \in States |-> Top]
    /\ pc = "new"
    /\ source = Top /\ target = state /\ s = Top
    /\ entering = <<>>
    /\ active = {}
    /\ last_child = [x \in States |-> Top]

(* init: enter `temp` from the outermost state inward. *)
init ==
    /\ pc = "new"
    /\ entering' = Reverse(path_to_top(target))
    /\ pc' = "enter"
    /\ UNCHANGED <<super, state, history, source, target, s, active, last_child>>

execute_tran(src, t) ==
    /\ source' = src
    /\ target' = t
    /\ s' = state
    /\ pc' = "exit"
    /\ UNCHANGED <<super, state, history, entering, active, last_child>>

(* dispatch: the handler that does not answer Super asks for Tran(t) or     *)
(* TranHist(p).                                                             *)
dispatch_tran ==
    /\ pc = "stable"
    /\ \E src \in ToSet(Ancestry[state]), t \in States : execute_tran(src, t)

dispatch_tran_hist ==
    /\ pc = "stable"
    /\ \E src \in ToSet(Ancestry[state]), p \in States :
        execute_tran(src, IF history[p] = Top THEN p ELSE history[p])

(* Handled, Ignored and Unhandled. *)
dispatch_no_tran == pc = "stable" /\ UNCHANGED vars

(* One round of the exit loop. *)
exit_state ==
    /\ pc = "exit"
    /\ s # lca /\ s # Top
    /\ history' = IF super[s] # Top THEN [history EXCEPT ![super[s]] = s] ELSE history
    /\ active' = active \ {s}
    /\ s' = super[s]
    /\ UNCHANGED <<super, state, pc, source, target, entering, last_child>>

exits_done ==
    /\ pc = "exit"
    /\ s \in {lca, Top}
    /\ entering' = Below(path_to_top(target), lca)
    /\ pc' = "enter"
    /\ UNCHANGED <<super, state, history, source, target, s, active, last_child>>

enter_state ==
    /\ pc = "enter" /\ entering # <<>>
    /\ LET x == Head(entering)
       IN  /\ active' = active \cup {x}
           /\ last_child' = IF super[x] = Top THEN last_child
                                              ELSE [last_child EXCEPT ![super[x]] = x]
    /\ entering' = Tail(entering)
    /\ UNCHANGED <<super, state, history, pc, source, target, s>>

EntersDone(x) ==
    /\ pc = "enter" /\ entering = <<>>
    /\ state' = x
    /\ pc' = "init"
    /\ UNCHANGED <<super, history, source, target, s, entering, active, last_child>>

enters_done == EntersDone(target)

(* One round of handle_nested_init. *)
handle_nested_init ==
    /\ pc = "init"
    /\ \/ \E next \in Substates(state) :
            /\ target' = next
            /\ entering' = Below(path_to_top(next), state)
            /\ pc' = "enter"
       \/ pc' = "stable" /\ UNCHANGED <<target, entering>>
    /\ UNCHANGED <<super, state, history, source, s, active, last_child>>

Step == exit_state \/ exits_done \/ enter_state \/ enters_done \/ handle_nested_init

Next == init \/ dispatch_tran \/ dispatch_tran_hist \/ dispatch_no_tran \/ Step
=============================================================================
