----------------------------- MODULE MCQkSingle -----------------------------
(***************************************************************************)
(* The single-core QK kernel with three active objects.  Object 1 has a    *)
(* preemption threshold of 2, so that object 2 may not preempt it and      *)
(* object 3 may.  Context 9 is the command thread of the host examples, or *)
(* an interrupt handler: it posts and does not run the kernel.             *)
(***************************************************************************)
EXTENDS QkKernel

MCPrios == 1..3
MCThreshold == [p \in MCPrios |-> IF p = 1 THEN 2 ELSE p]
MCCores == {0}
MCPosters == {9}
MCNoCore == 255
MCCeilings == {1, 2}
=============================================================================
