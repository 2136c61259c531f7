SPECIFICATION Spec
CONSTANTS
    r1 = r1
    r2 = r2
    e1 = e1
    s1 = s1
    s2 = s2
    Records = {r1, r2}
    Employees = {e1}
    Sessions = {s1, s2}
    Comings <- SomeComings
    Goings <- SomeGoings
    Entered = {1}
    Found <- FoundShifts
    Local <- LocalZone
    Dates = {0, 1}
    Shifts <- DayShifts
    Lengths = {1, 59, 238, 240, 479}
    Leaves <- ALeave
    Wages = {2, 3}
    RuleLists <- SomeLists
    None = None
SYMMETRY AttendanceSymmetry
INVARIANTS
    TypeOK
    LongerIsNoLess
    ShiftTimeKept
    PeriodsAddUp
    TotalsByCategory
    PreviewAgrees
    SharesFit
PROPERTIES
    FiguresFit
    ClosedStays
    ClosesLatest
    ActiveCheckIn
