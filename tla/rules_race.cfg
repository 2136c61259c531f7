SPECIFICATION Spec
CONSTANTS
    r1 = r1
    r2 = r2
    basic = basic
    hra = hra
    wage = wage
    s1 = s1
    s2 = s2
    Rules = {r1, r2}
    Codes = {basic, hra}
    Context = {wage}
    Kinds = {"FIXED", "PERCENTAGE", "FORMULA"}
    Bases = {basic}
    Formulas <- RulesFormulas
    MaxSequence = 3
    MaxChanges = 1
    Sessions = {s1, s2}
    None = None
SYMMETRY RulesSymmetry
INVARIANTS
    TypeOK
    EngineResolves
PROPERTIES
    StaysComputable
