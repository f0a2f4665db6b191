------------------------------ MODULE MCQfPool ------------------------------
(***************************************************************************)
(* Two threads over two pools: two small blocks, then one large block.     *)
(***************************************************************************)
EXTENDS QfPool

MCStorage == <<10, 20>>
MCNumBlocks == <<2, 1>>
MCBlockSize == <<1, 2>>
MCSizes == {1, 2}
MCMargins == {0, 1}
=============================================================================
