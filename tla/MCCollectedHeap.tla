-------------------------- MODULE MCCollectedHeap --------------------------
(***************************************************************************)
(* CollectedHeap for TLC.  The exhaustive run uses the sizes of            *)
(* MCBlockHeap; the run that looks for one behaviour uses the code's sizes *)
(* divided by 8 as they are (align 4, medium 8, block 16).                 *)
(***************************************************************************)
EXTENDS CollectedHeap

MCRawSizes == {4, 6, 14}
MCRawSizesCode == {4, 8, 12, 20}
=============================================================================
