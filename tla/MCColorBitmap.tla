--------------------------- MODULE MCColorBitmap ---------------------------
(***************************************************************************)
(* ColorBitmap for TLC, with the code's block of 128 bytes: two threads,   *)
(* two consecutive objects of one block and an object of another.          *)
(***************************************************************************)
EXTENDS ColorBitmap

CONSTANTS collector, mutator

TwoThreads   == {collector, mutator}
ThreeOffsets == {0, 32, 160}

\* Both threads color objects of the first block, the same one included.
MetWrites    == [t \in TwoThreads |-> IF t = collector THEN {0, 32} ELSE {32, 160}]

\* Each thread has an object of its own, next to the other's.
NextOffsets  == {0, 32}
NextWrites   == [t \in TwoThreads |-> IF t = collector THEN {0} ELSE {32}]
=============================================================================
