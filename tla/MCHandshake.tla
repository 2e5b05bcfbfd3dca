---------------------------- MODULE MCHandshake ----------------------------
(***************************************************************************)
(* Handshake for TLC: mutators 1, 2, ... in address order.                 *)
(***************************************************************************)
EXTENDS Handshake

TwoMutators   == {1, 2}
=============================================================================
