------------------------------ MODULE MCHostPower ------------------------------
(***************************************************************************)
(* A small instance of HostPower for TLC: a guest of an ordinary lease, one *)
(* of nobody's, and one of the lab's own.                                  *)
(***************************************************************************)
EXTENDS HostPower

CONSTANTS l1, l2, g1, g2, g3

OneEach == [g \in Guest |-> IF g = g1 THEN l1 ELSE NoLease]
=============================================================================
