----------------------------- MODULE Attendance -----------------------------
(***************************************************************************)
(* Attendance records (attendance_service.py, api/attendance.py): the      *)
(* check-in and check-out of employees and the manual entries and          *)
(* corrections of HR.                                                      *)
(*                                                                         *)
(* An instant is a minute of UTC, counted from a midnight.  A request says *)
(* a time in a zone, which decides the date and the clock of a check-in,   *)
(* or without one: the schemas take naive times as well, and the database  *)
(* driver stores them as times of the server's own zone, Local.  What is   *)
(* read back from the database is in UTC.  A handler is a Check step,      *)
(* which keeps what it read and what it will write, and a step that        *)
(* commits the columns it has changed.                                     *)
(***************************************************************************)
EXTENDS DayMetrics

CONSTANTS Records,     \* primary keys of attendances
          Employees, Sessions,
          Comings,     \* times at which one can come, as requests say them
          Goings,      \* and go
          Local,       \* offset from UTC of the zone the server runs in
          Dates,       \* calendar days, numbered from that midnight
          Entered,     \* dates of manual entries
          Found,       \* shifts a request can find for a day
          Shifts,      \* shifts to compare a session with, None is a free day
          Lengths      \* minutes a session may last

\* A time in a handler: the instant it is stored as, and the offset from UTC it
\* came with, in minutes, which is None for a naive one.
Times          == [at : Int, zone : Int \cup {None}]
Time(at, zone) == [at |-> at, zone |-> zone]
ReadBack(at)   == IF at = None THEN None ELSE Time(at, 0)

Naive(t)    == t # None /\ t.zone = None
Wall(t)     == t.at + (IF Naive(t) THEN Local ELSE t.zone)
DateOf(t)   == Wall(t) \div Minutes
Clock(t)    == Wall(t) % Minutes
Instant(t)  == IF t = None THEN None ELSE t.at

Ins  == {t.at : t \in Comings}
Outs == {t.at : t \in Goings}

ASSUME AttendanceAssumption ==
    /\ Comings \subseteq Times /\ Goings \subseteq Times /\ None \notin Times
    /\ Local \in Int
    /\ Dates \subseteq Int /\ Entered \subseteq Dates
    /\ \A t \in Comings : DateOf(t) \in Dates
    /\ Found \subseteq Shift \cup {None}
    /\ Shifts \subseteq Shift \cup {None} /\ Lengths \subseteq Nat \ {0}
    /\ None \notin Records \cup Employees

VARIABLES attendance,  \* attendances
          active,      \* employees whose status is ACTIVE
          pc,          \* what the session has still to write
          view,        \* the row it will write
          overtaken,   \* history: sessions whose row has changed since they read it
          missed       \* history: sessions whose decision has lost its ground

vars == <<attendance, active, pc, view, overtaken, missed>>
-----------------------------------------------------------------------------
Row == [emp : Employees, date : Dates, from : Ins,
        to : Outs \cup {None}, worked : Nat, late : Nat, over : Nat,
        status : Status]
NoRow == [status |-> "NONE"]

Columns == {"emp", "date", "from", "to", "worked", "late", "over", "status"}

\* id is the row to update, cols the columns that will be set to what new has.
View   == [id : Records \cup {None}, new : Row \cup {NoRow},
           cols : SUBSET Columns]
NoView == [id |-> None, new |-> NoRow, cols |-> {}]

TypeOK ==
    /\ attendance \in [Records -> Row \cup {NoRow}]
    /\ active \in SUBSET Employees
    /\ pc \in [Sessions -> {"idle", "checkin", "manual", "checkout", "correct"}]
    /\ view \in [Sessions -> View]
    /\ overtaken \in SUBSET Sessions
    /\ missed \in SUBSET Sessions

Init == /\ attendance = [id \in Records |-> NoRow]
        /\ active = Employees
        /\ pc = [s \in Sessions |-> "idle"]
        /\ view = [s \in Sessions |-> NoView]
        /\ overtaken = {}
        /\ missed = {}
-----------------------------------------------------------------------------
\* One of the two times says a zone and the other does not.
Mixed(from, to) == to # None /\ (Naive(from) <=> ~Naive(to))

\* The instant t is taken for next to other: a naive time has its wall clock
\* read in the zone of the other one.
Taken(t, other) ==
    IF Naive(t) /\ ~Naive(other) THEN Wall(t) - other.zone ELSE t.at

\* Faulty: the answer is computed of naive times as well.
AnswerableAlways(from, to) == TRUE

\* Every handler ends with the answer, before its transaction is committed:
\* elapsed_hours subtracts the two times as they were said and raises TypeError
\* if only one of them is naive.  Such a request leaves nothing.
Answerable(from, to) == ~Mixed(from, to)

\* calculate_attendance_metrics refuses a check-out that is not later.
Ordered(from, to) == to # None => Taken(from, to) < Taken(to, from)

Figures(from, to, shift) ==
    Metrics(Clock(from),
            IF to = None THEN None ELSE Taken(to, from) - Taken(from, to),
            shift)

\* The times are stored as they were said, whatever they were taken for.
RowOf(e, date, from, to, shift) ==
    LET m == Figures(from, to, shift)
    IN  [emp |-> e, date |-> date, from |-> from.at, to |-> Instant(to),
         worked |-> m.worked, late |-> m.late, over |-> m.over,
         status |-> m.status]

Present == {id \in Records : attendance[id] # NoRow}

Open(row) == row # NoRow /\ row.to = None

\* The unique constraint, which the handlers look at before the database does.
Free(e, date) ==
    \A id \in Present : attendance[id].emp = e => attendance[id].date # date

\* Faulty: the session opened first is taken.
EarliestOpen(e) ==
    {id \in Present : /\ Open(attendance[id]) /\ attendance[id].emp = e
                      /\ \A other \in Present :
                            /\ Open(attendance[other])
                            /\ attendance[other].emp = e
                            => attendance[id].from <= attendance[other].from}

\* Faulty: the last session is taken, be it open or not.
LastSession(e) ==
    {id \in Present : /\ attendance[id].emp = e
                      /\ \A other \in Present :
                            attendance[other].emp = e
                            => attendance[other].from <= attendance[id].from}

\* get_open_attendance: the open session with the latest check-in.
LatestOpen(e) ==
    {id \in Present : /\ Open(attendance[id]) /\ attendance[id].emp = e
                      /\ \A other \in Present :
                            /\ Open(attendance[other])
                            /\ attendance[other].emp = e
                            => attendance[other].from <= attendance[id].from}

Await(s, step, v) ==
    /\ pc' = [pc EXCEPT ![s] = step]
    /\ view' = [view EXCEPT ![s] = v]
    /\ UNCHANGED <<attendance, active, overtaken, missed>>

\* Faulty: only a missing employee is refused.
AdmitAny(e) == e \in Employees

Admit(e) == e \in active

CheckInCheck(s, e, at, shift) ==
    /\ Admit(e)
    /\ Free(e, DateOf(at))
    /\ Await(s, "checkin",
             [NoView EXCEPT !.new = RowOf(e, DateOf(at), at, None, shift)])

\* create_manual_attendance does not compare the date with the check-in.
ManualCheck(s, e, date, from, to, shift) ==
    /\ Ordered(from, to)
    /\ Free(e, date)
    /\ Answerable(from, to)
    /\ Await(s, "manual", [NoView EXCEPT !.new = RowOf(e, date, from, to, shift)])

\* The row with other times, and all figures computed again.
UpdateTo(row, from, to, shift) == RowOf(row.emp, row.date, from, to, shift)

\* A naive time differs from any that was read back, so it is always written.
Change(s, step, id, from, to, shift) ==
    LET old  == attendance[id]
        new  == UpdateTo(old, from, to, shift)
        cols == {col \in Columns : \/ new[col] # old[col]
                                   \/ col = "from" /\ Naive(from)
                                   \/ col = "to" /\ Naive(to)}
    IN  /\ cols # {}
        /\ Answerable(from, to)
        /\ Await(s, step, [id |-> id, new |-> new, cols |-> cols])

\* check_out_specific_attendance uses the employee of the record it names, and
\* no more of it: the latest open session is closed all the same.
Names(named, e) == named \in Present /\ attendance[named].emp = e

\* check_out; the check-in is read back, so its clock is UTC, and no naive time
\* compares with it (TypeError).
CheckOutCheck(s, e, at, shift, named) ==
    /\ named # None => Names(named, e)
    /\ ~Naive(at)
    /\ \E id \in LatestOpen(e) :
          /\ attendance[id].from < at.at
          /\ Change(s, "checkout", id, ReadBack(attendance[id].from), at, shift)

\* update_attendance: a time the request does not say is as it was read.
CorrectCheck(s, id, from, to, shift) ==
    /\ id \in Present
    /\ LET row     == attendance[id]
           newFrom == IF from = None THEN ReadBack(row.from) ELSE from
           newTo   == IF to = None THEN ReadBack(row.to) ELSE to
       IN  /\ Ordered(newFrom, newTo)
           /\ Change(s, "correct", id, newFrom, newTo, shift)
-----------------------------------------------------------------------------
\* A later session of the employee than the one s closes has come to be open,
\* or the employee s checks in has ceased to be active.
OpenAfter(row, e, from) == Open(row) /\ row.emp = e /\ from < row.from

Undermined(s) ==
    \/ /\ pc[s] = "checkin"
       /\ view[s].new.emp \notin active'
    \/ /\ pc[s] = "checkout"
       /\ \E id \in Records \ {view[s].id} :
             /\ OpenAfter(attendance'[id], view[s].new.emp, view[s].new.from)
             /\ ~OpenAfter(attendance[id], view[s].new.emp, view[s].new.from)

Misses == {s \in Sessions : Undermined(s)}

\* The end of s, in which attendance' and active' have been said.
Commit(s) ==
    LET passed == {u \in Sessions : /\ view[u].id \in Records
                                    /\ attendance'[view[u].id] # attendance[view[u].id]}
    IN  /\ pc' = [pc EXCEPT ![s] = "idle"]
        /\ view' = [view EXCEPT ![s] = NoView]
        /\ overtaken' = (overtaken \cup passed) \ {s}
        /\ missed' = (missed \cup Misses) \ {s}

\* Keys are not used again, nor known to another session.
Insert(s) ==
    LET new == view[s].new
    IN  /\ pc[s] \in {"checkin", "manual"}
        /\ Free(new.emp, new.date)
        /\ \E id \in Records \ Present :
              /\ \A u \in Sessions : view[u].id # id
              /\ attendance' = [attendance EXCEPT ![id] = new]
        /\ active' = active
        /\ Commit(s)

\* Faulty: columns that did not change are set to null.
FlushUnset(cols, new, now) ==
    [col \in DOMAIN now |-> IF col \in cols THEN new[col] ELSE None]

\* An UPDATE sets the columns the session has changed and no other.
Flush(cols, new, now) ==
    [col \in DOMAIN now |-> IF col \in cols THEN new[col] ELSE now[col]]

\* The UPDATE of a row that is gone fails (Abort).
Update(s) ==
    LET v == view[s]
    IN  /\ pc[s] \in {"checkout", "correct"}
        /\ v.id \in Present
        /\ attendance' = [attendance EXCEPT ![v.id] = Flush(v.cols, v.new, @)]
        /\ active' = active
        /\ Commit(s)

\* The handler fails or its process dies: its transaction is rolled back.
Abort(s) == /\ pc[s] # "idle"
            /\ UNCHANGED <<attendance, active>>
            /\ Commit(s)

\* delete_attendance writes nothing it has read: it is one step.
Delete(id) ==
    /\ id \in Present
    /\ attendance' = [attendance EXCEPT ![id] = NoRow]
    /\ UNCHANGED <<active, pc, view, overtaken, missed>>

\* update_employee, deactivate_employee
SetActive(e) ==
    /\ UNCHANGED attendance
    /\ active' = (active \ {e}) \cup ({e} \ active)
    /\ missed' = missed \cup Misses
    /\ UNCHANGED <<pc, view, overtaken>>

\* Schedules, and who has which, change at any time: a request finds any shift
\* that a schedule may have for the day.
Call(s) ==
    /\ pc[s] = "idle"
    /\ \E e \in Employees, shift \in Found :
       \/ \E at \in Comings : CheckInCheck(s, e, at, shift)
       \/ \E date \in Entered, from \in Comings, to \in Goings \cup {None} :
             ManualCheck(s, e, date, from, to, shift)
       \/ \E at \in Goings, named \in Records \cup {None} :
             CheckOutCheck(s, e, at, shift, named)
       \/ \E id \in Records, from \in Comings \cup {None},
             to \in Goings \cup {None} : CorrectCheck(s, id, from, to, shift)

Next == \/ \E s \in Sessions : Call(s) \/ Insert(s) \/ Update(s) \/ Abort(s)
        \/ \E id \in Records : Delete(id)
        \/ \E e \in Employees : SetActive(e)

Spec == Init /\ [][Next]_vars
-----------------------------------------------------------------------------
FiguresOf(row) == [worked |-> row.worked, late |-> row.late, over |-> row.over,
                   status |-> row.status]

\* The zones a check-in can have been read in.
Zones == ({t.zone : t \in Comings} \ {None}) \cup {0, Local}

Explained(row) == \E zone \in Zones, shift \in Found :
    FiguresOf(row) = Figures(Time(row.from, zone), ReadBack(row.to), shift)

CheckOut(s) == pc[s] = "checkout" /\ Update(s)

\* "Derived metrics are computed atomically" (check_out): the minutes and the
\* status of a row, which payroll adds up, are those of its stored times whoever
\* wrote it last.  A naive time next to one with a zone is taken for another
\* instant than it is stored as, but no such row outlives its transaction
\* (Answerable).  The exception is a request that overlapped another one for the
\* row: it leaves the figures that were the same in both, as it read them, as
\* the other wrote.
Fitting == \A id \in Records :
    attendance'[id] # attendance[id] =>
       \/ attendance'[id] = NoRow
       \/ Explained(attendance'[id])
       \/ \E s \in overtaken : Update(s) /\ view[s].id = id
FiguresFit == [][Fitting]_vars

\* A session that has been closed is closed for good: its check-out moves only
\* by a correction, or by a check-out that overlapped another request for it.
Settled == \A id \in Present :
    /\ attendance[id].to # None
    /\ attendance'[id] # NoRow
    /\ attendance'[id].to # attendance[id].to
    => \E s \in Sessions : /\ view[s].id = id
                           /\ pc[s] = "correct" \/ (CheckOut(s) /\ s \in overtaken)
ClosedStays == [][Settled]_vars

\* A check-out closes the session the employee is in: it leaves no later one
\* open, unless that was opened after the request had looked.
LeavesNoneOpen == \A s \in Sessions \ missed :
    CheckOut(s) => \A id \in Records \ {view[s].id} :
        ~OpenAfter(attendance'[id], view[s].new.emp, view[s].new.from)
ClosesLatest == [][LeavesNoneOpen]_vars

\* Nobody checks in who is not active, unless deactivated after the request
\* had looked; the entries of HR are exempt.
Admitted == \A id \in Records :
    attendance[id] = NoRow /\ attendance'[id] # NoRow =>
        \/ attendance'[id].emp \in active
        \/ \E s \in Sessions : Insert(s) /\ (pc[s] = "manual" \/ s \in missed)
ActiveCheckIn == [][Admitted]_vars

\* What an open session will be worth when it is closed after so many minutes.
Worth(row, minutes, shift) ==
    Figures(ReadBack(row.from), ReadBack(row.from + minutes), shift)

\* Who stays a minute longer has no less for it: neither minutes nor overtime
\* are fewer, nor does a full day become half a one, except at the 4 hours
\* from which the break is deducted.
LongerIsNoLess ==
    \A id \in Present, shift \in Shifts, stay \in Lengths \ {239} :
        Open(attendance[id]) =>
           LET a == Worth(attendance[id], stay, shift)
               b == Worth(attendance[id], stay + 1, shift)
           IN  /\ a.worked <= b.worked /\ a.over <= b.over
               /\ a.status = "PRESENT" => b.status = "PRESENT"

\* The time a shift without a break asks for survives its way through
\* hundredths of an hour: who comes and goes with it has no overtime, but for a
\* minute where its minutes are two more than a multiple of three.
ShiftTimeKept ==
    \A id \in Present, net \in Lengths :
        Open(attendance[id]) =>
           LET start == Clock(ReadBack(attendance[id].from))
           IN  Worth(attendance[id], net, ShiftOf(start, start + net, 0)).over =
                  IF net % 3 = 2 THEN 1 ELSE 0
=============================================================================
