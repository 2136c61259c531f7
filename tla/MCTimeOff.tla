----------------------------- MODULE MCTimeOff -----------------------------
(* Small instances of TimeOff for TLC. *)
EXTENDS TimeOff, TLC

CONSTANTS q1, q2, a1, s1, s2, d1, d2

EachDay  == {{d1}, {d2}}
BothDays == {{d1, d2}}
LastDay  == [w \in BothDays |-> 2]

TimeOffSymmetry == Permutations({q1, q2}) \cup Permutations({s1, s2})
                      \cup Permutations({d1, d2})
=============================================================================
