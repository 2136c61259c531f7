--------------------------- MODULE MCOrganisation ---------------------------
(* Small instances of Organisation for TLC. *)
EXTENDS Organisation, TLC

CONSTANTS d1, d2, p1, h1, e1, e2, a1, a2, s1, s2

SomeHires == {[status |-> "ACTIVE", dept |-> d1, pos |-> p1, sched |-> h1],
              [status |-> "ACTIVE", dept |-> d2, pos |-> p1, sched |-> None]}

SomePatches == {[status |-> "TERMINATED"],
                [status |-> "ACTIVE", dept |-> d2],
                [dept |-> d1, sched |-> h1]}

OrganisationSymmetry == Permutations({e1, e2}) \cup Permutations({a1, a2})
                            \cup Permutations({s1, s2})
=============================================================================
