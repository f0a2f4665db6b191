-------------------------------- MODULE MCQv --------------------------------
(***************************************************************************)
(* Both builds of the cooperative kernel: two objects, two cores (one in   *)
(* the single-core build) and one poster.                                  *)
(***************************************************************************)
EXTENDS QvKernel

MCPrios == {1, 2}
MCCeilings == {1}
=============================================================================
