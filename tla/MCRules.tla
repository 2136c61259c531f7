------------------------------ MODULE MCRules ------------------------------
(* Small instances of SalaryRules for TLC. *)
EXTENDS SalaryRules, TLC

CONSTANTS r1, r2, basic, hra, wage, s1, s2

\* A formula of a value of the context and of a rule.
RulesFormulas == {{basic, wage}}

RulesSymmetry == Permutations({r1, r2}) \cup Permutations({s1, s2})
=============================================================================
