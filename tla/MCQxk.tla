------------------------------- MODULE MCQxk -------------------------------
(***************************************************************************)
(* Two cores (one of them in the single-core build), one interrupt or OS   *)
(* thread, one active object and two threads of different priority.        *)
(***************************************************************************)
EXTENDS QxkSync, TLC

CONSTANTS c1, c2, isr, t1, t2

MCThreadPrio == (t1 :> 1) @@ (t2 :> 2)
=============================================================================
