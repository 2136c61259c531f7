---------------------------- MODULE MCContracts ----------------------------
(* Small instances of Contracts for TLC. *)
EXTENDS Contracts, TLC

CONSTANTS c1, c2, e1, t1, s1, s2

ContractsSymmetry == Permutations({c1, c2}) \cup Permutations({s1, s2})
=============================================================================
