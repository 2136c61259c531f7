------------------------------ MODULE MCPayrun ------------------------------
(* Small instances of PayrunProps for TLC. *)
EXTENDS PayrunProps, TLC

CONSTANTS r1, r2, e1, e2, s1, s2

SerialAmounts == {-1, 0, 1}

RaceAmounts == {0, 1}

PayrunSymmetry == Permutations({r1, r2}) \cup Permutations({e1, e2})
RaceSymmetry == PayrunSymmetry \cup Permutations({s1, s2})
=============================================================================
