----------------------------- MODULE MCTinyHeap -----------------------------
(***************************************************************************)
(* TinyHeap for TLC: a header of two bytes, requests that are smaller      *)
(* than, as large as and larger than the smallest rest truncation leaves.  *)
(***************************************************************************)
EXTENDS TinyHeap

MCSizes == {1, 3, 6}
=============================================================================
