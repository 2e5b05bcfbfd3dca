---------------------------- MODULE MCBlockHeap ----------------------------
(***************************************************************************)
(* BlockHeap for TLC: blocks of three units of align, room for two blocks  *)
(* and one more unit, and raw sizes of one unit, of one and a half (which  *)
(* is large here) and of more than a block.                                *)
(***************************************************************************)
EXTENDS BlockHeap

MCRawSizes == {4, 6, 14}
=============================================================================
