---------------------------- MODULE MCAttendance ----------------------------
(* Small instances of Attendance and Payslips for TLC. *)
EXTENDS Payslips, TLC

CONSTANTS r1, r2, e1, s1, s2

\* 9:00 to 18:00 with a break of an hour, and 10:00 to 14:10 without one.
OfficeDay == ShiftOf(540, 1080, 60)
ShortDay  == ShiftOf(600, 850, 0)

DayShifts   == {None, OfficeDay, ShortDay}
FoundShifts == {ShortDay}

\* The server is an hour behind UTC.  Somebody comes at 10:00 of the first day,
\* UTC, said without a zone (9:00), and at 10:10 of the second.
LocalZone == -60
SomeComings == {Time(600, None), Time(2050, 0)}
SomeGoings  == {Time(720, 0), Time(2100, 0)}

ALeave == {[from |-> 0, to |-> 1], [from |-> 1, to |-> 1]}

Of(cat, how, n) == [cat |-> cat, how |-> how, n |-> n]
SomeRules == {Of("BASIC", "WAGE", 0), Of("ALLOWANCE", "PER_DAY", 5),
              Of("GROSS", "PER_DAY", 7), Of("DEDUCTION", "PERCENTAGE", 50),
              Of("NET", "FIXED", 3)}
Thirds == <<Of("BASIC", "WAGE", 0), Of("DEDUCTION", "PERCENTAGE", 33),
            Of("DEDUCTION", "PERCENTAGE", 33), Of("DEDUCTION", "PERCENTAGE", 34)>>
LateAllowance == <<Of("BASIC", "WAGE", 0), Of("GROSS", "PER_DAY", 7),
                   Of("ALLOWANCE", "PER_DAY", 5)>>
SomeLists == {Thirds, LateAllowance} \cup UNION {[1..k -> SomeRules] : k \in 0..2}

AttendanceSymmetry == Permutations({r1, r2}) \cup Permutations({s1, s2})
=============================================================================
