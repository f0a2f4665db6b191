-------------------------------- MODULE QHsm --------------------------------
(***************************************************************************)
(* QHsm<S> of crates/qf/src/hsm/qhsm.rs: states are handler functions, the *)
(* superstate of a state is what its handler answers to Q_EMPTY_SIG, and   *)
(* ancestry paths are arrays of MAX_NEST_DEPTH entries.                    *)
(***************************************************************************)
EXTENDS Hsm, SequencesExt

(* Mutant: one entry of the array is never used. *)
path_to_top_short(x) ==
    LET path == Ancestry[x]
    IN  SubSeq(path, 1, IF Len(path) < MAX_NEST_DEPTH - 1 THEN Len(path)
                                                          ELSE MAX_NEST_DEPTH - 1)

(* The chain from x upward, cut off after MAX_NEST_DEPTH states. *)
path_to_top(x) ==
    LET path == Ancestry[x]
    IN  SubSeq(path, 1, IF Len(path) < MAX_NEST_DEPTH THEN Len(path) ELSE MAX_NEST_DEPTH)

(* The first state of path1 that is in path2, or top_state. *)
find_lca(path1, path2) ==
    LET i == SelectInSeq(path1, LAMBDA a : a \in ToSet(path2))
    IN  IF i = 0 THEN Top ELSE path1[i]

(* What lies below x on path, outermost first; the whole path if x is not   *)
(* on it.                                                                   *)
Below(path, x) ==
    LET i == SelectInSeq(path, LAMBDA a : a = x)
    IN  Reverse(IF i = 0 THEN path ELSE SubSeq(path, 1, i - 1))

(* Mutant: a self-transition is treated like any other. *)
lca_plain == find_lca(path_to_top(source), path_to_top(target))

(* execute_tran: a self-transition looks for the ancestor from super(source). *)
lca ==
    find_lca(path_to_top(IF source = target THEN super[source] ELSE source),
             path_to_top(target))

-----------------------------------------------------------------------------
Init ==
    /\ super \in Hierarchies
    /\ state = Top
    /\ history = [x \in States |-> Top]
    /\ pc = "new"
    /\ source = Top /\ target = Top /\ s = Top
    /\ entering = <<>>
    /\ active = {}
    /\ last_child = [x \in States |-> Top]

(* init: the initial pseudo-state asks for a transition to some state. *)
init ==
    /\ pc = "new"
    /\ \E t \in States : target' = t /\ entering' = Reverse(path_to_top(t))
    /\ pc' = "enter"
    /\ UNCHANGED <<super, state, history, source, s, active, last_child>>

(* execute_tran(src, t): the exit loop starts at the current state. *)
execute_tran(src, t) ==
    /\ source' = src
    /\ target' = t
    /\ s' = state
    /\ pc' = "exit"
    /\ UNCHANGED <<super, state, history, entering, active, last_child>>

(* dispatch: the handler of the current state or, through Super answers, of *)
(* one of its superstates asks for Tran(t) or TranHist(p); without history  *)
(* the latter is a transition to p itself.                                  *)
dispatch_tran ==
    /\ pc = "stable"
    /\ \E src \in ToSet(Ancestry[state]), t \in States : execute_tran(src, t)

dispatch_tran_hist ==
    /\ pc = "stable"
    /\ \E src \in ToSet(Ancestry[state]), p \in States :
        execute_tran(src, IF history[p] = Top THEN p ELSE history[p])

(* Handled, Ignored and Unhandled, top_state's Ignored included. *)
dispatch_no_tran == pc = "stable" /\ UNCHANGED vars

ExitState(hist) ==
    /\ pc = "exit"
    /\ s # lca /\ s # Top
    /\ history' = hist
    /\ active' = active \ {s}
    /\ s' = super[s]
    /\ UNCHANGED <<super, state, pc, source, target, entering, last_child>>

(* Mutant: history is recorded for the current state only. *)
exit_state_leaf_history ==
    ExitState(IF s = state /\ super[s] # Top THEN [history EXCEPT ![super[s]] = s] ELSE history)

(* One round of the exit loop: record s as the last active child of its     *)
(* superstate, call its exit action, go up.                                 *)
exit_state ==
    ExitState(IF super[s] # Top THEN [history EXCEPT ![super[s]] = s] ELSE history)

exits_done ==
    /\ pc = "exit"
    /\ s \in {lca, Top}
    /\ entering' = Below(path_to_top(target), lca)
    /\ pc' = "enter"
    /\ UNCHANGED <<super, state, history, source, target, s, active, last_child>>

EnterNext(x, rest) ==
    /\ pc = "enter" /\ entering # <<>>
    /\ active' = active \cup {x}
    /\ last_child' = IF super[x] = Top THEN last_child ELSE [last_child EXCEPT ![super[x]] = x]
    /\ entering' = rest
    /\ UNCHANGED <<super, state, history, pc, source, target, s>>

(* Mutant: the path is walked from the target outward. *)
enter_state_inner_first ==
    entering # <<>> /\ EnterNext(entering[Len(entering)], SubSeq(entering, 1, Len(entering) - 1))

enter_state == EnterNext(Head(entering), Tail(entering))

enters_done ==
    /\ pc = "enter" /\ entering = <<>>
    /\ state' = target
    /\ pc' = "init"
    /\ UNCHANGED <<super, history, source, target, s, entering, active, last_child>>

(* One round of handle_nested_init: the current state answers Q_INIT_SIG    *)
(* with a transition to one of its substates, or has none to take.          *)
handle_nested_init ==
    /\ pc = "init"
    /\ \/ \E next \in Substates(state) :
            /\ target' = next
            /\ entering' = Below(path_to_top(next), state)
            /\ pc' = "enter"
       \/ pc' = "stable" /\ UNCHANGED <<target, entering>>
    /\ UNCHANGED <<super, state, history, source, s, active, last_child>>

Step == exit_state \/ exits_done \/ enter_state \/ enters_done \/ handle_nested_init

Next == init \/ dispatch_tran \/ dispatch_tran_hist \/ dispatch_no_tran \/ Step
=============================================================================
