SPECIFICATION Spec
CONSTANTS
    q1 = q1
    q2 = q2
    a1 = a1
    s1 = s1
    s2 = s2
    d1 = d1
    d2 = d2
    Requests = {q1, q2}
    Allocs = {a1}
    Sessions = {s1, s2}
    Windows <- EachDay
    Validities <- BothDays
    Last <- LastDay
    MaxQuantity = 2
    Quantities = {1}
    Grants = {1, 2}
    NeedsAllocation = {TRUE}
    NeedsApproval = {TRUE}
    None = None
SYMMETRY TimeOffSymmetry
INVARIANTS NoOverdraw
