------------------------------ MODULE MCQkSmp ------------------------------
(***************************************************************************)
(* The `smp` build of the QK kernel: two cores share the scheduler and     *)
(* three active objects, of which object 1 has a threshold above its       *)
(* priority.  Context 9 only posts.                                        *)
(***************************************************************************)
EXTENDS QkKernel

MCPrios == 1..3
MCThreshold == [p \in MCPrios |-> IF p = 1 THEN 2 ELSE p]
MCCores == {0, 1}
MCPosters == {9}
MCNoCore == 255
MCCeilings == {2}
=============================================================================
