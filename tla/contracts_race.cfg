SPECIFICATION Spec
CONSTANTS
    c1 = c1
    c2 = c2
    e1 = e1
    t1 = t1
    s1 = s1
    s2 = s2
    Contracts = {c1, c2}
    Employees = {e1}
    Structures = {t1}
    Sessions = {s1, s2}
    Days = {1, 2}
    Starts = {1, 2}
    Ends = {1, None}
    Structured = {t1}
    None = None
SYMMETRY ContractsSymmetry
INVARIANTS
    TypeOK
PROPERTIES
    OneContractApplies
    DatesInOrder
    TerminationCancels
    RetirementGuarded
    CancellationHolds
