----------------------------- MODULE MCSparkGC -----------------------------
(***************************************************************************)
(* SparkGC for TLC: one mutator, a heap of 2048 bytes with the code's      *)
(* ALIGN and SWEEP_THREADS, so that two of the places are scanned by the   *)
(* sweep (in two different slices) and one is not.                         *)
(***************************************************************************)
EXTENDS SparkGC

OneMutator == {1}
ThreePlaces == {0, 32, 1024}
=============================================================================
