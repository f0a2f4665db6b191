-------------------------------- MODULE Hsm ---------------------------------
(***************************************************************************)
(* What the two state machine engines of crates/qf/src/hsm share: QHsm     *)
(* (states are handler functions) and QMsm (states are table nodes).  The  *)
(* module holds the state of an engine, the hierarchy it runs on, and what *)
(* a transition means in terms of that hierarchy alone; the engines are in *)
(* QHsm.tla and QMsm.tla.                                                  *)
(*                                                                         *)
(* A dispatch runs to completion without interruption, but every entry and *)
(* exit action is a call of application code that can see what has been    *)
(* entered and exited so far, so each is a step of its own.  What handlers *)
(* answer depends on application data the engine never looks at: it is a   *)
(* choice, limited to the contract in the comments of the actions.         *)
(***************************************************************************)
EXTENDS Naturals, Sequences

CONSTANTS
    States,           \* the application's states
    Top,              \* top_state of QHsm; superstate = None of QMsm
    Hierarchies,      \* superstate functions to run the engine on
    MAX_NEST_DEPTH    \* nesting depth the application keeps to

(* Every hierarchy is a forest no deeper than MAX_NEST_DEPTH. *)
ASSUME HierarchyAssumption ==
    /\ Top \notin States
    /\ MAX_NEST_DEPTH \in Nat
    /\ \A h \in Hierarchies :
        /\ h \in [States -> States \cup {Top}]
        /\ \E depth \in [States -> 1..MAX_NEST_DEPTH] : \A x \in States :
            depth[x] = IF h[x] = Top THEN 1 ELSE depth[h[x]] + 1

VARIABLES
    super,      \* the hierarchy: superstate of every state; never changes
    state,      \* QHsm::state, QMsm::state: the current state
    history,    \* last active direct child of a composite state, or Top
    pc,         \* where init() or dispatch() stands
    source,     \* the state whose handler asked for the transition
    target,     \* the state to be entered
    s,          \* cursor of the exit loop
    entering,   \* states still to be entered, outermost first
    active,     \* ghost: states entered and not exited
    last_child  \* ghost: the direct child of each state entered last, or Top

vars == <<super, state, history, pc, source, target, s, entering, active, last_child>>

-----------------------------------------------------------------------------
(* The hierarchy *)

(* s, its superstate, and so on up to the outermost state. *)
Ancestry[x \in States \cup {Top}] ==
    IF x = Top THEN <<>> ELSE <<x>> \o Ancestry[super[x]]

Children(p) == {x \in States : super[x] = p}

(* Reference: the smallest set that contains x and is closed under super.   *)
AncestorsOrSelf(x) ==
    {a \in States : \A C \in SUBSET States :
        (x \in C /\ \A c \in C : super[c] \in C \cup {Top}) => a \in C}

Substates(x) == {y \in States \ {x} : x \in AncestorsOrSelf(y)}

(* Reference: what a transition leaves active.  A self-transition exits its *)
(* source, any other one exits up to the states source and target share.   *)
Kept ==
    (AncestorsOrSelf(source) \cap AncestorsOrSelf(target))
        \ (IF source = target THEN {source} ELSE {})

-----------------------------------------------------------------------------
(* Properties of an engine *)

(* When init() or dispatch() has returned, exactly the current state and    *)
(* its superstates have been entered and not exited.                        *)
ActiveConfiguration == pc = "stable" => active = AncestorsOrSelf(state)

(* Entry and exit actions run in the order of the nesting: a state is       *)
(* entered at most once before it is exited, inside its active superstate,  *)
(* and exited after its substates.                                          *)
EntryExitOrder ==
    [][/\ \A x \in active' \ active : super[x] \in active \cup {Top}
       /\ \A x \in active \ active' : Children(x) \cap active = {}
       /\ pc = "enter" /\ entering' # entering => active' # active
       /\ pc = "exit" /\ s' # s => active' # active]_vars

(* Shallow history: once the direct child of p that was entered last has    *)
(* been exited, by whatever transition and from whatever depth, it is what  *)
(* TranHist(p) goes back to.                                                *)
HistoryIsLastActive ==
    \A p \in States :
        last_child[p] # Top /\ last_child[p] \notin active => history[p] = last_child[p]

=============================================================================
