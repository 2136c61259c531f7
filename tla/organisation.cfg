SPECIFICATION Spec
CONSTANTS
    d1 = d1
    d2 = d2
    p1 = p1
    h1 = h1
    e1 = e1
    e2 = e2
    a1 = a1
    a2 = a2
    s1 = s1
    s2 = s2
    Departments = {d1, d2}
    Positions = {p1}
    Schedules = {h1}
    Employees = {e1, e2}
    Accounts = {a1, a2}
    Sessions = {s1, s2}
    Seeded = {d1}
    Hires <- SomeHires
    Patches <- SomePatches
    None = None
    Absent = Absent
SYMMETRY OrganisationSymmetry
PROPERTIES
    NobodyStranded
    LinksHold
