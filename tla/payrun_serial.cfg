SPECIFICATION Spec
CONSTANTS
    r1 = r1
    r2 = r2
    e1 = e1
    e2 = e2
    s1 = s1
    s2 = s2
    Payruns = {r1, r2}
    Employees = {e1, e2}
    Sessions = {s1}
    Amounts <- SerialAmounts
    None = None
SYMMETRY PayrunSymmetry
INVARIANTS LinesAgree StatusAgrees SettledNetNonNegative
PROPERTIES PaidIsFinal KeepsLedger
