------------------------------ MODULE MCEmail ------------------------------
(* Small instances of EmailDelivery for TLC. *)
EXTENDS EmailDelivery, TLC

CONSTANTS p1, q1, q2, w1, w2

ActorSymmetry == Permutations({q1, q2}) \cup Permutations({w1, w2})
=============================================================================
