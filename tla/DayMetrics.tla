----------------------------- MODULE DayMetrics -----------------------------
(***************************************************************************)
(* The figures of one day of attendance (calculate_attendance_metrics in   *)
(* attendance_service.py) and the length of a shift they are compared with *)
(* (_compute_line_work_hours in schedule_service.py).  Times are whole     *)
(* minutes; the hours of a shift are kept as the Numeric column has them,  *)
(* in hundredths.                                                          *)
(***************************************************************************)
EXTENDS Integers

CONSTANT None   \* no shift on the day; no check-out yet

Shift == [start : Nat, break : Nat, hours : Nat]

ASSUME NoneAssumption == None \notin Int /\ None \notin Shift

Status == {"INCOMPLETE", "PRESENT", "LATE", "HALF_DAY"}

Minutes == 1440   \* of a day

Positive(n) == IF n > 0 THEN n ELSE 0

\* Faulty: the hours are cut, not rounded.
HundredthsCut(net) == (5 * net) \div 3

\* round(net / 60, 2)
Hundredths(net) == (10 * net + 3) \div 6

ShiftOf(start, end, break) ==
    [start |-> start, break |-> break,
     hours |-> Hundredths(Positive(end - start - break))]

\* int(work_hours * 60); nothing is expected on a day without a shift.
Expected(shift) == IF shift = None THEN 0 ELSE (3 * shift.hours) \div 5

Break(shift) == IF shift = None THEN 60 ELSE shift.break

\* clock is the time of day of the check-in, as its time zone shows it.
Late(clock, shift) ==
    IF shift = None THEN 0 ELSE Positive(clock - shift.start)

\* Faulty: the break is deducted after the expected time, not after 4 hours.
WorkedPastShift(elapsed, shift) ==
    IF elapsed < Expected(shift) THEN elapsed
    ELSE Positive(elapsed - Break(shift))

\* The break is deducted from 4 hours on.
Worked(elapsed, shift) ==
    IF elapsed < 240 THEN elapsed ELSE Positive(elapsed - Break(shift))

ClosedStatus(late, worked, expected) ==
    IF late > 0 THEN "LATE"
    ELSE IF worked < expected \div 2 THEN "HALF_DAY" ELSE "PRESENT"

\* elapsed is None while the session is open.
Metrics(clock, elapsed, shift) ==
    LET late   == Late(clock, shift)
        worked == IF elapsed = None THEN 0 ELSE Worked(elapsed, shift)
    IN  [worked |-> worked,
         late   |-> late,
         over   |-> IF elapsed = None THEN 0
                    ELSE Positive(worked - Expected(shift)),
         status |-> IF elapsed = None THEN "INCOMPLETE"
                    ELSE ClosedStatus(late, worked, Expected(shift))]
=============================================================================
