-------------------------------- MODULE MCHsm -------------------------------
(***************************************************************************)
(* Both engines over every forest of N states.  Numbering a forest from    *)
(* the outside in gives every superstate a smaller number, so one          *)
(* representative of each shape is enough.                                 *)
(***************************************************************************)
EXTENDS HsmEngines

CONSTANT N

MCStates == 1..N
MCTop == 0
MCHierarchies == {h \in [1..N -> 0..N - 1] : \A x \in 1..N : h[x] < x}
=============================================================================
