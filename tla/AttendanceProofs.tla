-------------------------- MODULE AttendanceProofs --------------------------
(***************************************************************************)
(* What holds of Attendance for every number of records, employees and     *)
(* sessions, and for every time, time zone and shift; and of the payslips  *)
(* computed from it, for every wage and list of rules.                     *)
(***************************************************************************)
EXTENDS Payslips, FoldLemmas

Inserting(s) == pc[s] \in {"checkin", "manual"}
Updating(s)  == pc[s] \in {"checkout", "correct"}

\* What a session is going to write is a row; if it can be answered, it has the
\* figures of its times.
Held == \A s \in Sessions :
    /\ Inserting(s) \/ Updating(s) =>
          /\ view[s].new \in Row
          /\ Explained(view[s].new)
    /\ Inserting(s) => view[s].id = None
    /\ Updating(s) => view[s].id \in Records

\* Unless another one has been faster, the columns it leaves alone have what it
\* believes, and the session it closes is open.
Fresh == \A s \in Sessions \ overtaken :
    Updating(s) /\ view[s].id \in Present =>
       /\ \A col \in Columns \ view[s].cols :
             view[s].new[col] = attendance[view[s].id][col]
       /\ pc[s] = "checkout" => attendance[view[s].id].to = None

\* Its decision is good as long as nobody has taken it its ground.
Grounded == \A s \in Sessions \ missed :
    /\ pc[s] = "checkin" => view[s].new.emp \in active
    /\ pc[s] = "checkout" => \A id \in Records \ {view[s].id} :
          ~OpenAfter(attendance[id], view[s].new.emp, view[s].new.from)

Inv == TypeOK /\ Held /\ Fresh /\ Grounded
-----------------------------------------------------------------------------
(* Figures and rows *)

LEMMA NoRowKind == NoRow \notin Row /\ NoRow \notin [{"to"} -> {None}]
  BY DEF NoRow, Row

LEMMA NoViewType == NoView \in View
  BY DEF NoView, View

\* The times handlers work with: as requests say them, or read back.
Coming(t) == t \in Times /\ t.at \in Ins /\ t.zone \in Zones \cup {None}
Going(t)  == t = None \/ (t \in Times /\ t.at \in Outs)

LEMMA TimeType ==
  ASSUME NEW t \in Times
  PROVE  /\ t # None /\ t.at \in Int /\ Wall(t) \in Int /\ Clock(t) \in Nat
         /\ Naive(t) => Wall(t) = t.at + Local
         /\ ~Naive(t) => t.zone \in Int /\ Wall(t) = t.at + t.zone
         /\ Instant(t) = t.at
<1>1. t # None /\ t.at \in Int /\ t.zone \in Int \cup {None} /\ Local \in Int
  BY AttendanceAssumption DEF Times
<1>2. ~Naive(t) => t.zone \in Int
  BY <1>1 DEF Naive
<1>3. Wall(t) \in Int
  BY <1>1, <1>2 DEF Wall
<1>4. Clock(t) \in Nat
  BY <1>3 DEF Clock, Minutes
<1>5. QED
  BY <1>1, <1>2, <1>3, <1>4 DEF Wall, Instant

LEMMA TimesStored == Ins \subseteq Int /\ Outs \subseteq Int
  BY AttendanceAssumption DEF Times, Ins, Outs

LEMMA TimesOfRequests ==
  /\ \A t \in Comings : Coming(t)
  /\ \A at \in Ins : Coming(ReadBack(at))
  /\ \A t \in Goings \cup {None} : Going(t)
  /\ \A at \in Outs \cup {None} : Going(ReadBack(at))
<1>1. /\ Comings \subseteq Times /\ Goings \subseteq Times
      /\ Ins \subseteq Int /\ Outs \subseteq Int /\ None \notin Int
  BY TimesStored, AttendanceAssumption, NoneAssumption
<1>2. \A t \in Comings : Coming(t)
  BY <1>1 DEF Coming, Ins, Zones
<1>3. \A t \in Goings \cup {None} : Going(t)
  BY <1>1 DEF Going, Outs
<1>4. \A at \in Ins : Coming(ReadBack(at))
  BY <1>1 DEF ReadBack, Time, Coming, Times, Zones
<1>5. \A at \in Outs \cup {None} : Going(ReadBack(at))
  BY <1>1 DEF ReadBack, Time, Going, Times
<1>6. QED
  BY <1>2, <1>3, <1>4, <1>5

\* Only next to one with a zone is a naive time taken for another instant.
LEMMA TakenType ==
  ASSUME NEW t \in Times, NEW other \in Times
  PROVE  /\ Taken(t, other) \in Int
         /\ (Naive(t) <=> Naive(other)) => Taken(t, other) = t.at
         /\ ~Naive(t) => Taken(t, other) = t.at
<1>1. t.at \in Int /\ Wall(t) \in Int /\ (~Naive(other) => other.zone \in Int)
  BY TimeType
<1>2. QED
  BY <1>1 DEF Taken

\* Read back from the database, a time is not naive.
LEMMA ReadBackType ==
  ASSUME NEW at \in Int, NEW zone \in Int
  PROVE  /\ Time(at, zone) \in Times /\ ~Naive(Time(at, zone))
         /\ Time(at, zone).at = at /\ Time(at, zone).zone = zone
         /\ ReadBack(at) = Time(at, 0)
  BY NoneAssumption DEF Time, Times, Naive, ReadBack

LEMMA ShiftType ==
  ASSUME NEW shift \in Shift \cup {None}
  PROVE  Expected(shift) \in Nat /\ Break(shift) \in Nat
<1>1. CASE shift = None
  BY <1>1 DEF Expected, Break
<1>2. CASE shift # None
  <2>1. shift.hours \in Nat /\ shift.break \in Nat
    BY <1>2 DEF Shift
  <2>2. (3 * shift.hours) \div 5 \in Nat
    BY <2>1
  <2>3. QED
    BY <1>2, <2>1, <2>2 DEF Expected, Break
<1>3. QED
  BY <1>1, <1>2

LEMMA LateType ==
  ASSUME NEW shift \in Shift \cup {None}, NEW clock \in Int
  PROVE  Late(clock, shift) \in Nat
<1>1. CASE shift = None
  BY <1>1 DEF Late
<1>2. CASE shift # None
  <2>1. shift.start \in Nat
    BY <1>2 DEF Shift
  <2>2. QED
    BY <1>2, <2>1 DEF Late, Positive
<1>3. QED
  BY <1>1, <1>2

\* Figures are never negative.
LEMMA MetricsType ==
  ASSUME NEW shift \in Shift \cup {None}, NEW clock \in Int,
         NEW elapsed \in Nat \cup {None}
  PROVE  LET m == Metrics(clock, elapsed, shift)
         IN  /\ m.worked \in Nat /\ m.late \in Nat /\ m.over \in Nat
             /\ m.status \in Status
<1>1. Expected(shift) \in Nat /\ Break(shift) \in Nat /\ Late(clock, shift) \in Nat
  BY ShiftType, LateType
<1>2. elapsed # None => Worked(elapsed, shift) \in Nat
  BY <1>1 DEF Worked, Positive
<1>3. elapsed # None => Positive(Worked(elapsed, shift) - Expected(shift)) \in Nat
  BY <1>1, <1>2 DEF Positive
<1>4. ClosedStatus(Late(clock, shift), Worked(elapsed, shift), Expected(shift))
        \in Status
  BY DEF ClosedStatus, Status
<1>5. QED
  BY <1>1, <1>2, <1>3, <1>4 DEF Metrics, Status

LEMMA RowType ==
  ASSUME NEW e \in Employees, NEW date \in Dates, NEW from, Coming(from),
         NEW to, Going(to), Ordered(from, to), NEW shift \in Found
  PROVE  LET row == RowOf(e, date, from, to, shift)
         IN  /\ row \in Row /\ row.emp = e /\ row.date = date
             /\ row.from = from.at /\ row.to = Instant(to)
             /\ FiguresOf(row) = Figures(from, to, shift)
<1> DEFINE row == RowOf(e, date, from, to, shift)
           m   == Figures(from, to, shift)
           elapsed == IF to = None THEN None ELSE Taken(to, from) - Taken(from, to)
           clock   == Clock(from)
<1>1. from \in Times /\ shift \in Shift \cup {None} /\ clock \in Int
  BY AttendanceAssumption, TimeType DEF Coming
<1>2. elapsed \in Nat \cup {None}
  <2>1. CASE to = None
    BY <2>1
  <2>2. CASE to # None
    <3>1. /\ Taken(to, from) \in Int /\ Taken(from, to) \in Int
          /\ Taken(from, to) < Taken(to, from)
      BY <1>1, <2>2, TakenType DEF Going, Ordered
    <3>2. QED
      BY <2>2, <3>1
  <2>3. QED
    BY <2>1, <2>2
<1>3. m = Metrics(clock, elapsed, shift)
  BY DEF Figures
<1>4. /\ m.worked \in Nat /\ m.late \in Nat /\ m.over \in Nat
      /\ m.status \in Status
  <2> HIDE DEF clock, elapsed, m
  <2>1. QED
    BY <1>1, <1>2, <1>3, MetricsType
<1>5. from.at \in Ins /\ Instant(to) \in Outs \cup {None}
  BY DEF Coming, Going, Instant
<1>6. row = [emp |-> e, date |-> date, from |-> from.at, to |-> Instant(to),
             worked |-> m.worked, late |-> m.late, over |-> m.over,
             status |-> m.status]
  BY DEF RowOf
<1>7. /\ row \in Row /\ row.emp = e /\ row.date = date
      /\ row.from = from.at /\ row.to = Instant(to)
  <2> HIDE DEF row, m
  <2>1. QED
    BY <1>4, <1>5, <1>6 DEF Row
<1>8. FiguresOf(row) = m
  <2>1. m = [worked |-> m.worked, late |-> m.late, over |-> m.over,
             status |-> m.status]
    BY DEF Figures, Metrics
  <2>2. QED
    <3> HIDE DEF row, m
    <3>1. QED
      BY <1>6, <2>1 DEF FiguresOf
<1>9. QED
  BY <1>7, <1>8

\* Times of which both say a zone, or neither, are taken for what is stored.
LEMMA RowExplained ==
  ASSUME NEW e \in Employees, NEW date \in Dates, NEW from, Coming(from),
         NEW to, Going(to), Ordered(from, to), NEW shift \in Found,
         ~Mixed(from, to)
  PROVE  Explained(RowOf(e, date, from, to, shift))
<1> DEFINE row  == RowOf(e, date, from, to, shift)
           zone == IF Naive(from) THEN Local ELSE from.zone
           back == ReadBack(Instant(to))
           mark == Time(from.at, zone)
<1>1. from \in Times /\ from.at \in Int /\ Local \in Int /\ from # None
  BY AttendanceAssumption, TimeType DEF Coming
<1>2. zone \in Int /\ zone \in Zones
  BY <1>1, TimeType, NoneAssumption DEF Coming, Naive, Zones
<1>3. mark \in Times /\ ~Naive(mark) /\ mark.at = from.at /\ mark.zone = zone
  <2> HIDE DEF zone
  <2>1. QED
    BY <1>1, <1>2, ReadBackType
<1>4. Wall(mark) = Wall(from)
  <2>1. Wall(mark) = from.at + zone
    <3> HIDE DEF zone, mark
    <3>1. QED
      BY <1>3, TimeType
  <2>2. Wall(from) = from.at + zone
    BY <1>1, TimeType
  <2>3. QED
    BY <2>1, <2>2
<1>5. /\ (to = None) <=> (back = None)
      /\ to # None => Taken(back, mark) - Taken(mark, back)
                         = Taken(to, from) - Taken(from, to)
  <2>1. CASE to = None
    BY <2>1 DEF Instant, ReadBack
  <2>2. CASE to # None
    <3>1. to \in Times /\ to.at \in Int /\ Instant(to) = to.at
      BY <2>2, TimeType DEF Going
    <3>2. /\ back \in Times /\ ~Naive(back) /\ back.at = to.at /\ back # None
      <4>1. back = Time(to.at, 0) /\ 0 \in Int
        BY <3>1, ReadBackType
      <4>2. QED
        BY <3>1, <4>1, ReadBackType, TimeType
    <3>3. Naive(from) <=> Naive(to)
      BY <2>2 DEF Mixed
    <3>4. Taken(to, from) = to.at /\ Taken(from, to) = from.at
      BY <1>1, <3>1, <3>3, TakenType
    <3>5. Taken(back, mark) = to.at /\ Taken(mark, back) = from.at
      <4> HIDE DEF back, mark
      <4>1. QED
        BY <1>3, <3>2, TakenType
    <3>6. QED
      <4> HIDE DEF back, mark
      <4>1. QED
        BY <2>2, <3>2, <3>4, <3>5
  <2>3. QED
    BY <2>1, <2>2
<1>6. Figures(mark, back, shift) = Figures(from, to, shift)
  <2> HIDE DEF mark, back
  <2>1. Clock(mark) = Clock(from)
    BY <1>4 DEF Clock
  <2>2. QED
    BY <1>5, <2>1 DEF Figures
<1>7. /\ row.from = from.at /\ row.to = Instant(to)
      /\ FiguresOf(row) = Figures(from, to, shift)
  BY RowType
<1>8. QED
  <2> HIDE DEF row, zone
  <2>1. FiguresOf(row) = Figures(Time(row.from, zone), ReadBack(row.to), shift)
    BY <1>6, <1>7
  <2>2. Explained(row)
    BY <1>2, <2>1 DEF Explained
  <2>3. QED
    BY <2>2 DEF row

\* The names of the columns are those of a row.
LEMMA RowColumns ==
  ASSUME NEW row \in Row
  PROVE  DOMAIN row = Columns
  BY DEF Row, Columns

\* What an UPDATE leaves is a row; it is the one that was computed, if the
\* columns it leaves alone are as they were read.
LEMMA FlushRow ==
  ASSUME NEW cols, NEW new \in Row, NEW now \in Row
  PROVE  /\ Flush(cols, new, now) \in Row
         /\ (\A col \in Columns \ cols : new[col] = now[col])
               => Flush(cols, new, now) = new
<1>1. Flush(cols, new, now) \in Row
  BY DEF Flush, Row
<1>2. ASSUME \A col \in Columns \ cols : new[col] = now[col]
      PROVE  Flush(cols, new, now) = new
  <2>1. \A col \in DOMAIN now :
           (IF col \in cols THEN new[col] ELSE now[col]) = new[col]
    BY <1>2, RowColumns
  <2>2. Flush(cols, new, now) = [col \in Columns |-> new[col]]
    BY <2>1, RowColumns DEF Flush
  <2>3. new = [col \in Columns |-> new[col]]
    BY RowColumns DEF Row
  <2>4. QED
    BY <2>2, <2>3
<1>3. QED
  BY <1>1, <1>2
-----------------------------------------------------------------------------
(* The Check steps *)

\* A Check step keeps the invariant if what it keeps is in order.
LEMMA AwaitStep ==
  ASSUME Inv, NEW s \in Sessions, NEW v \in View,
         NEW step \in {"checkin", "manual", "checkout", "correct"},
         Await(s, step, v),
         v.new \in Row, Explained(v.new),
         step \in {"checkin", "manual"} => v.id = None,
         step \in {"checkout", "correct"} =>
            /\ v.id \in Records
            /\ \A col \in Columns \ v.cols : v.new[col] = attendance[v.id][col],
         step = "checkin" => v.new.emp \in active,
         step = "checkout" =>
            /\ attendance[v.id].to = None
            /\ \A id \in Records \ {v.id} :
                  ~OpenAfter(attendance[id], v.new.emp, v.new.from)
  PROVE  Inv'
<1>1. TypeOK'
  BY DEF Inv, TypeOK, Await
<1>2. pc'[s] = step /\ view'[s] = v
  BY DEF Inv, TypeOK, Await
<1>3. \A u \in Sessions \ {s} : pc'[u] = pc[u] /\ view'[u] = view[u]
  BY DEF Inv, TypeOK, Await
<1>4. UNCHANGED <<attendance, active, overtaken, missed>>
  BY DEF Await
<1>5. Held'
  <2>1. ASSUME NEW u \in Sessions, u # s
        PROVE  Held!(u)'
    BY <2>1, <1>3 DEF Inv, Held, Inserting, Updating, Explained
  <2>2. Held!(s)'
    BY <1>2 DEF Inserting, Updating, Explained
  <2>3. QED
    BY <2>1, <2>2 DEF Held
<1>6. Fresh'
  <2>1. ASSUME NEW u \in Sessions \ overtaken, u # s
        PROVE  Fresh!(u)'
    BY <2>1, <1>3, <1>4 DEF Inv, Fresh, Updating, Present
  <2>2. Fresh!(s)'
    BY <1>2, <1>4 DEF Updating, Present
  <2>3. QED
    BY <2>1, <2>2, <1>4 DEF Fresh
<1>7. Grounded'
  <2>1. ASSUME NEW u \in Sessions \ missed, u # s
        PROVE  Grounded!(u)'
    BY <2>1, <1>3, <1>4 DEF Inv, Grounded
  <2>2. Grounded!(s)'
    BY <1>2, <1>4
  <2>3. QED
    BY <2>1, <2>2, <1>4 DEF Grounded
<1>8. QED
  BY <1>1, <1>5, <1>6, <1>7 DEF Inv

\* The same for a row that is there and gets other times.
LEMMA ChangeStep ==
  ASSUME Inv, NEW s \in Sessions, NEW id \in Present,
         NEW step \in {"checkout", "correct"},
         NEW from, Coming(from), NEW to, Going(to), Ordered(from, to),
         NEW shift \in Found, Change(s, step, id, from, to, shift),
         step = "checkout" =>
            /\ from.at = attendance[id].from
            /\ id \in LatestOpen(attendance[id].emp)
  PROVE  Inv'
<1> DEFINE old == attendance[id]
           new == UpdateTo(old, from, to, shift)
           cols == {col \in Columns : \/ new[col] # old[col]
                                      \/ col = "from" /\ Naive(from)
                                      \/ col = "to" /\ Naive(to)}
           v   == [id |-> id, new |-> new, cols |-> cols]
<1>1. id \in Records /\ old \in Row
  BY DEF Inv, TypeOK, Present
<1>2. old.emp \in Employees /\ old.date \in Dates
  BY <1>1 DEF Row
<1>3. /\ new \in Row /\ new.emp = old.emp /\ new.from = from.at
      /\ Explained(new)
  <2> DEFINE e    == old.emp
             date == old.date
  <2>1. e \in Employees /\ date \in Dates
    BY <1>2
  <2>2. new = RowOf(e, date, from, to, shift)
    BY DEF UpdateTo
  <2>3. QED
    <3> HIDE DEF e, date, new
    <3>1. /\ RowOf(e, date, from, to, shift) \in Row
          /\ RowOf(e, date, from, to, shift).emp = e
          /\ RowOf(e, date, from, to, shift).from = from.at
      BY <2>1, RowType
    <3>2. Explained(RowOf(e, date, from, to, shift))
      <4>1. ~Mixed(from, to)
        BY DEF Change, Answerable
      <4>2. QED
        BY <2>1, <4>1, RowExplained
    <3>3. QED
      BY <2>2, <3>1, <3>2 DEF e
<1>4. Await(s, step, v)
  BY DEF Change
<1>5. v \in View /\ v.id = id /\ v.new = new
      /\ \A col \in Columns \ v.cols : v.new[col] = attendance[v.id][col]
  <2> HIDE DEF new
  <2>1. cols \in SUBSET Columns
    OBVIOUS
  <2>2. \A col \in Columns \ cols : new[col] = old[col]
    OBVIOUS
  <2>3. QED
    <3> HIDE DEF cols
    <3>1. QED
      BY <1>1, <1>3, <2>1, <2>2 DEF View
<1>6. step = "checkout" =>
         /\ old.to = None
         /\ \A other \in Records \ {id} :
               ~OpenAfter(attendance[other], new.emp, new.from)
  <2> HIDE DEF new
  <2>1. SUFFICES ASSUME step = "checkout"
                 PROVE  /\ old.to = None
                        /\ \A other \in Records \ {id} :
                              ~OpenAfter(attendance[other], new.emp, new.from)
    OBVIOUS
  <2>2. old.to = None
    BY <2>1 DEF LatestOpen, Open
  <2>3. SUFFICES ASSUME NEW other \in Records,
                        OpenAfter(attendance[other], old.emp, old.from)
                 PROVE  FALSE
    BY <1>3, <2>1, <2>2
  <2>4. other \in Present /\ Open(attendance[other]) /\ attendance[other].emp = old.emp
    BY <2>3 DEF OpenAfter, Open, Present
  <2>5. attendance[other].from <= old.from
    BY <2>1, <2>4 DEF LatestOpen
  <2>6. attendance[other].from \in Int /\ old.from \in Int
    BY <1>1, <2>4, TimesStored, AttendanceAssumption DEF Inv, TypeOK, Row, Present
  <2>7. QED
    BY <2>3, <2>5, <2>6 DEF OpenAfter
<1>7. QED
  <2> HIDE DEF v, new
  <2>1. QED
    BY <1>1, <1>3, <1>4, <1>5, <1>6, AwaitStep

LEMMA CallStep ==
  ASSUME Inv, NEW s \in Sessions, Call(s)
  PROVE  Inv'
<1>1. PICK e \in Employees, shift \in Found :
         \/ \E at \in Comings : CheckInCheck(s, e, at, shift)
         \/ \E date \in Entered, from \in Comings, to \in Goings \cup {None} :
               ManualCheck(s, e, date, from, to, shift)
         \/ \E at \in Goings, named \in Records \cup {None} :
               CheckOutCheck(s, e, at, shift, named)
         \/ \E id \in Records, from \in Comings \cup {None},
               to \in Goings \cup {None} : CorrectCheck(s, id, from, to, shift)
  BY DEF Call
<1>2. ASSUME NEW date \in Dates, NEW from, Coming(from), NEW to, Going(to),
             Ordered(from, to), ~Mixed(from, to),
             NEW step \in {"checkin", "manual"}, step = "checkin" => e \in active,
             Await(s, step, [NoView EXCEPT !.new = RowOf(e, date, from, to, shift)])
      PROVE  Inv'
  <2> DEFINE row == RowOf(e, date, from, to, shift)
             v   == [NoView EXCEPT !.new = row]
  <2>1. row \in Row /\ row.emp = e /\ Explained(row)
    BY <1>2, RowType, RowExplained
  <2>2. Await(s, step, v)
    BY <1>2
  <2>3. v \in View /\ v.id = None /\ v.new = row
    <3> HIDE DEF row
    <3>1. QED
      BY <2>1 DEF View, NoView
  <2>4. QED
    <3> HIDE DEF v, row
    <3>1. QED
      BY <1>2, <2>1, <2>2, <2>3, AwaitStep
<1>3. ASSUME NEW at \in Comings, CheckInCheck(s, e, at, shift)
      PROVE  Inv'
  <2>1. DateOf(at) \in Dates
    BY AttendanceAssumption
  <2>2. e \in active
    BY <1>3 DEF CheckInCheck, Admit
  <2>3. Coming(at) /\ Going(None) /\ Ordered(at, None) /\ ~Mixed(at, None)
    BY TimesOfRequests DEF Going, Ordered, Mixed
  <2>4. Await(s, "checkin",
              [NoView EXCEPT !.new = RowOf(e, DateOf(at), at, None, shift)])
    BY <1>3 DEF CheckInCheck
  <2>5. QED
    BY <1>2, <2>1, <2>2, <2>3, <2>4
<1>4. ASSUME NEW date \in Entered, NEW from \in Comings, NEW to \in Goings \cup {None},
             ManualCheck(s, e, date, from, to, shift)
      PROVE  Inv'
  <2>1. date \in Dates /\ Coming(from) /\ Going(to)
    BY AttendanceAssumption, TimesOfRequests
  <2>2. /\ Ordered(from, to) /\ ~Mixed(from, to)
        /\ Await(s, "manual", [NoView EXCEPT !.new = RowOf(e, date, from, to, shift)])
    BY <1>4 DEF ManualCheck, Answerable
  <2>3. QED
    BY <1>2, <2>1, <2>2
<1>5. ASSUME NEW at \in Goings, NEW named \in Records \cup {None},
                    CheckOutCheck(s, e, at, shift, named)
      PROVE  Inv'
  <2>1. PICK id \in LatestOpen(e) :
           /\ attendance[id].from < at.at /\ ~Naive(at)
           /\ Change(s, "checkout", id, ReadBack(attendance[id].from), at, shift)
    BY <1>5 DEF CheckOutCheck
  <2>2. id \in Present /\ attendance[id].emp = e
    BY <2>1 DEF LatestOpen
  <2>3. attendance[id].from \in Ins /\ attendance[id].from \in Int
    BY <2>2, TimesStored DEF Inv, TypeOK, Present, Row
  <2> DEFINE from == ReadBack(attendance[id].from)
  <2>4. /\ Coming(from) /\ Going(at) /\ from \in Times /\ at \in Times
        /\ from.at = attendance[id].from /\ ~Naive(from)
    <3>1. at \in Times
      BY AttendanceAssumption
    <3>2. from = Time(attendance[id].from, 0) /\ 0 \in Int
      BY <2>3, ReadBackType
    <3>3. QED
      BY <2>3, <3>1, <3>2, TimesOfRequests, ReadBackType
  <2>5. Ordered(from, at)
    <3> HIDE DEF from
    <3>1. Taken(from, at) = from.at /\ Taken(at, from) = at.at
      BY <2>1, <2>4, TakenType
    <3>2. QED
      BY <2>1, <2>4, <3>1 DEF Ordered
  <2>6. Change(s, "checkout", id, from, at, shift)
    BY <2>1
  <2>7. QED
    <3> HIDE DEF from
    <3>1. QED
      BY <2>1, <2>2, <2>4, <2>5, <2>6, ChangeStep
<1>6. ASSUME NEW id \in Records, NEW from \in Comings \cup {None},
             NEW to \in Goings \cup {None}, CorrectCheck(s, id, from, to, shift)
      PROVE  Inv'
  <2> DEFINE row     == attendance[id]
             newFrom == IF from = None THEN ReadBack(row.from) ELSE from
             newTo   == IF to = None THEN ReadBack(row.to) ELSE to
  <2>1. /\ id \in Present
        /\ Ordered(newFrom, newTo)
        /\ Change(s, "correct", id, newFrom, newTo, shift)
    BY <1>6 DEF CorrectCheck
  <2>2. row.from \in Ins /\ row.to \in Outs \cup {None}
    BY <2>1 DEF Inv, TypeOK, Present, Row
  <2>3. Coming(newFrom) /\ Going(newTo)
    BY <2>2, TimesOfRequests
  <2>4. QED
    <3> HIDE DEF newFrom, newTo
    <3>1. QED
      BY <2>1, <2>3, ChangeStep
<1>7. QED
  BY <1>1, <1>3, <1>4, <1>5, <1>6
-----------------------------------------------------------------------------
(* The commits *)

\* A commit that leaves rows and employees keeps the invariant: who is overtaken
\* by it, or loses his ground, is written down.
LEMMA CommitStep ==
  ASSUME Inv, NEW s \in Sessions, Commit(s),
         attendance' \in [Records -> Row \cup {NoRow}],
         active' \in SUBSET Employees
  PROVE  Inv'
<1>1. TypeOK'
  BY NoViewType DEF Inv, TypeOK, Commit, Misses
<1>2. pc'[s] = "idle" /\ view'[s] = NoView
  BY DEF Inv, TypeOK, Commit
<1>3. \A u \in Sessions \ {s} : pc'[u] = pc[u] /\ view'[u] = view[u]
  BY DEF Inv, TypeOK, Commit
<1>4. Held'
  <2>1. ASSUME NEW u \in Sessions, u # s
        PROVE  Held!(u)'
    BY <2>1, <1>3 DEF Inv, Held, Inserting, Updating, Explained
  <2>2. Held!(s)'
    BY <1>2 DEF Inserting, Updating
  <2>3. QED
    BY <2>1, <2>2 DEF Held
<1>5. Fresh'
  <2>1. SUFFICES ASSUME NEW u \in Sessions \ overtaken', Updating(u)',
                        view'[u].id \in Present'
                 PROVE  /\ \A col \in Columns \ view'[u].cols :
                              view'[u].new[col] = attendance'[view'[u].id][col]
                        /\ pc'[u] = "checkout" => attendance'[view'[u].id].to = None
    BY DEF Fresh
  <2>2. u # s
    BY <2>1, <1>2 DEF Updating
  <2>3. pc'[u] = pc[u] /\ view'[u] = view[u] /\ u \notin overtaken
    BY <2>1, <2>2, <1>3 DEF Commit
  <2>4. view[u].id \in Records /\ attendance'[view[u].id] = attendance[view[u].id]
    BY <2>1, <2>2, <2>3 DEF Commit, Inv, Held, Updating
  <2>5. view[u].id \in Present
    BY <2>1, <2>3, <2>4 DEF Present
  <2>6. QED
    BY <2>1, <2>3, <2>4, <2>5 DEF Inv, Fresh, Updating
<1>6. Grounded'
  <2>1. SUFFICES ASSUME NEW u \in Sessions \ missed'
                 PROVE  Grounded!(u)'
    BY DEF Grounded
  <2>2. CASE u = s
    BY <2>2, <1>2
  <2>3. CASE u # s
    <3>1. u \notin missed /\ ~Undermined(u) /\ pc'[u] = pc[u] /\ view'[u] = view[u]
      BY <2>1, <2>3, <1>3 DEF Commit, Misses
    <3>2. Grounded!(u)
      BY <3>1 DEF Inv, Grounded
    <3>3. QED
      BY <3>1, <3>2 DEF Undermined
  <2>4. QED
    BY <2>2, <2>3
<1>7. QED
  BY <1>1, <1>4, <1>5, <1>6 DEF Inv

\* An INSERT puts the row that was computed where none was.
LEMMA InsertRow ==
  ASSUME Inv, NEW s \in Sessions, Insert(s)
  PROVE  \E id \in Records \ Present :
            /\ attendance' = [attendance EXCEPT ![id] = view[s].new]
            /\ view[s].new \in Row /\ Explained(view[s].new)
            /\ attendance[id] = NoRow
BY DEF Insert, Inv, Held, Inserting, Present

\* An UPDATE changes one row; it puts there what was computed, unless another
\* request has been faster.
LEMMA UpdateRow ==
  ASSUME Inv, NEW s \in Sessions, Update(s)
  PROVE  LET v == view[s]
         IN  /\ v.id \in Present /\ v.id \in Records
             /\ attendance[v.id] \in Row /\ attendance'[v.id] \in Row
             /\ attendance' = [attendance EXCEPT ![v.id] = attendance'[v.id]]
             /\ s \notin overtaken => /\ attendance'[v.id] = v.new
                                      /\ Explained(v.new)
                                      /\ pc[s] = "checkout"
                                            => attendance[v.id].to = None
<1> DEFINE v == view[s]
           now == attendance[v.id]
           row == Flush(v.cols, v.new, now)
<1>1. /\ v.id \in Present /\ v.id \in Records /\ Updating(s)
      /\ attendance' = [attendance EXCEPT ![v.id] = row]
  BY DEF Update, Updating, Inv, Held
<1>2. now \in Row /\ v.new \in Row /\ Explained(v.new)
  BY <1>1 DEF Inv, TypeOK, Held, Present
<1>3. row \in Row /\ attendance'[v.id] = row
  <2>1. attendance'[v.id] = row
    BY <1>1 DEF Inv, TypeOK
  <2>2. QED
    <3> HIDE DEF v, now
    <3>1. row \in Row
      BY <1>2, FlushRow
    <3>2. QED
      BY <2>1, <3>1
<1>4. s \notin overtaken =>
         /\ \A col \in Columns \ v.cols : v.new[col] = now[col]
         /\ pc[s] = "checkout" => now.to = None
  BY <1>1 DEF Inv, Fresh
<1>5. s \notin overtaken => row = v.new
  <2> HIDE DEF v, now
  <2>1. QED
    BY <1>2, <1>4, FlushRow
<1>6. QED
  <2> HIDE DEF row
  <2>1. QED
    BY <1>1, <1>2, <1>3, <1>4, <1>5

LEMMA FinishStep ==
  ASSUME Inv, NEW s \in Sessions, Insert(s) \/ Update(s) \/ Abort(s)
  PROVE  Inv'
<1>1. CASE Insert(s)
  <2>1. attendance' \in [Records -> Row \cup {NoRow}]
    BY <1>1, InsertRow DEF Inv, TypeOK
  <2>2. Commit(s) /\ active' = active
    BY <1>1 DEF Insert
  <2>3. QED
    BY <2>1, <2>2, CommitStep DEF Inv, TypeOK
<1>2. CASE Update(s)
  <2>1. attendance' \in [Records -> Row \cup {NoRow}]
    BY <1>2, UpdateRow DEF Inv, TypeOK
  <2>2. Commit(s) /\ active' = active
    BY <1>2 DEF Update
  <2>3. QED
    BY <2>1, <2>2, CommitStep DEF Inv, TypeOK
<1>3. CASE Abort(s)
  BY <1>3, CommitStep DEF Abort, Inv, TypeOK
<1>4. QED
  BY <1>1, <1>2, <1>3
-----------------------------------------------------------------------------
(* The invariant *)

LEMMA InitInv ==
  ASSUME Init
  PROVE  Inv
<1>1. TypeOK
  BY NoViewType DEF Init, TypeOK
<1>2. \A s \in Sessions : pc[s] = "idle"
  BY DEF Init
<1>3. QED
  BY <1>1, <1>2 DEF Inv, Held, Fresh, Grounded, Inserting, Updating

LEMMA DeleteStep ==
  ASSUME Inv, NEW id \in Records, Delete(id)
  PROVE  Inv'
<1>1. /\ attendance' = [attendance EXCEPT ![id] = NoRow]
      /\ UNCHANGED <<active, pc, view, overtaken, missed>>
  BY DEF Delete
<1>2. TypeOK'
  BY <1>1 DEF Inv, TypeOK
<1>3. Held'
  BY <1>1 DEF Inv, Held, Inserting, Updating, Explained
<1>4. \A other \in Records :
         \/ attendance'[other] = attendance[other]
         \/ attendance'[other] = NoRow
  BY <1>1 DEF Inv, TypeOK
<1>5. Fresh'
  BY <1>1, <1>4 DEF Inv, Fresh, Updating, Present
<1>6. Grounded'
  BY <1>1, <1>4 DEF Inv, Grounded, OpenAfter, Open
<1>7. QED
  BY <1>2, <1>3, <1>5, <1>6 DEF Inv

LEMMA SetActiveStep ==
  ASSUME Inv, NEW e \in Employees, SetActive(e)
  PROVE  Inv'
<1>1. /\ UNCHANGED <<attendance, pc, view, overtaken>>
      /\ missed' = missed \cup Misses
      /\ active' = (active \ {e}) \cup ({e} \ active)
  BY DEF SetActive
<1>2. TypeOK'
  BY <1>1 DEF Inv, TypeOK, Misses
<1>3. Held' /\ Fresh'
  BY <1>1 DEF Inv, Held, Fresh, Inserting, Updating, Explained,
              Present
<1>4. Grounded'
  <2>1. SUFFICES ASSUME NEW u \in Sessions \ missed'
                 PROVE  Grounded!(u)'
    BY DEF Grounded
  <2>2. u \notin missed /\ ~Undermined(u) /\ Grounded!(u)
    BY <2>1, <1>1 DEF Misses, Inv, Grounded
  <2>3. QED
    BY <2>2, <1>1 DEF Undermined
<1>5. QED
  BY <1>2, <1>3, <1>4 DEF Inv

LEMMA StepInv ==
  ASSUME Inv, [Next]_vars
  PROVE  Inv'
<1>1. CASE UNCHANGED vars
  <2>1. TypeOK' /\ Held' /\ Fresh' /\ Grounded'
    BY <1>1 DEF vars, Inv, TypeOK, Held, Fresh, Grounded, Inserting, Updating,
                Explained, Present
  <2>2. QED
    BY <2>1 DEF Inv
<1>2. QED
  BY <1>1, CallStep, FinishStep, DeleteStep, SetActiveStep DEF Next

LEMMA Inductive == Spec => []Inv
<1>1. Init => Inv
  BY InitInv
<1>2. Inv /\ [Next]_vars => Inv'
  BY StepInv
<1>3. QED
  BY <1>1, <1>2, PTL DEF Spec

\* Every state of the attendance handlers is one of the declared types, whatever
\* requests overlap or die; minutes are never negative.
THEOREM TypeCorrect == Spec => []TypeOK
<1>1. Inv => TypeOK
  BY DEF Inv
<1>2. QED
  BY <1>1, Inductive, PTL
-----------------------------------------------------------------------------
(* What a step does to the rows *)

LEMMA RowChanges ==
  ASSUME [Next]_vars, attendance' # attendance
  PROVE  \/ \E s \in Sessions : Insert(s) \/ Update(s)
         \/ \E id \in Records : Delete(id)
<1>1. ASSUME NEW s \in Sessions, Call(s)
      PROVE  attendance' = attendance
  <2>1. \A step, v : Await(s, step, v) => attendance' = attendance
    BY DEF Await
  <2>2. \A step, id, from, to, shift :
           Change(s, step, id, from, to, shift) => attendance' = attendance
    BY <2>1 DEF Change
  <2>3. \A e, at, shift : CheckInCheck(s, e, at, shift) => attendance' = attendance
    BY <2>1 DEF CheckInCheck
  <2>4. \A e, date, from, to, shift :
           ManualCheck(s, e, date, from, to, shift) => attendance' = attendance
    BY <2>1 DEF ManualCheck
  <2>5. \A e, at, shift, named :
           CheckOutCheck(s, e, at, shift, named) => attendance' = attendance
    BY <2>2 DEF CheckOutCheck
  <2>6. \A id, from, to, shift :
           CorrectCheck(s, id, from, to, shift) => attendance' = attendance
    BY <2>2 DEF CorrectCheck
  <2>7. QED
    BY <1>1, <2>3, <2>4, <2>5, <2>6 DEF Call
<1>2. QED
  BY <1>1 DEF Next, Abort, SetActive, vars

\* A row that changes is a new one, one that goes, or the one a session updates.
LEMMA RowChange ==
  ASSUME Inv, [Next]_vars, NEW id \in Records, attendance'[id] # attendance[id]
  PROVE  \/ attendance'[id] = NoRow
         \/ /\ attendance[id] = NoRow
            /\ \E s \in Sessions : /\ Insert(s)
                                   /\ attendance'[id] = view[s].new
                                   /\ Explained(view[s].new)
         \/ \E s \in Sessions : Update(s) /\ view[s].id = id
<1>1. ASSUME NEW s \in Sessions, Insert(s)
      PROVE  /\ attendance[id] = NoRow /\ Explained(view[s].new)
             /\ attendance'[id] = view[s].new
  BY <1>1, InsertRow DEF Inv, TypeOK
<1>2. ASSUME NEW s \in Sessions, Update(s)
      PROVE  view[s].id = id
  BY <1>2, UpdateRow DEF Inv, TypeOK
<1>3. ASSUME NEW other \in Records, Delete(other)
      PROVE  attendance'[id] = NoRow
  BY <1>3 DEF Delete, Inv, TypeOK
<1>4. QED
  BY <1>1, <1>2, <1>3, RowChanges
-----------------------------------------------------------------------------
(* The properties *)

LEMMA FittingStep ==
  ASSUME Inv, [Next]_vars
  PROVE  Fitting
<1>1. SUFFICES ASSUME NEW id \in Records, attendance'[id] # attendance[id],
                      attendance'[id] # NoRow, ~Explained(attendance'[id])
               PROVE  \E s \in overtaken : Update(s) /\ view[s].id = id
  BY DEF Fitting
<1>2. PICK s \in Sessions : Update(s) /\ view[s].id = id
  BY <1>1, RowChange
<1>3. s \in overtaken
  BY <1>1, <1>2, UpdateRow
<1>4. QED
  BY <1>2, <1>3

\* A row whose figures are not those of its times was written by a request that
\* another one had overtaken, whatever the times, the zone and the shift.
THEOREM FiguresAreExplained == Spec => FiguresFit
<1>1. Inv /\ [Next]_vars => [Fitting]_vars
  BY FittingStep
<1>2. QED
  BY <1>1, Inductive, PTL DEF Spec, FiguresFit

LEMMA SettledStep ==
  ASSUME Inv, [Next]_vars
  PROVE  Settled
<1>1. SUFFICES ASSUME NEW id \in Present, attendance[id].to # None,
                      attendance'[id] # NoRow,
                      attendance'[id].to # attendance[id].to
               PROVE  \E s \in Sessions :
                         /\ view[s].id = id
                         /\ pc[s] = "correct" \/ (CheckOut(s) /\ s \in overtaken)
  BY DEF Settled
<1>2. id \in Records /\ attendance[id] # NoRow
  BY DEF Present
<1>3. PICK s \in Sessions : Update(s) /\ view[s].id = id
  BY <1>1, <1>2, RowChange
<1>4. pc[s] = "checkout" => s \in overtaken
  BY <1>1, <1>3, UpdateRow
<1>5. QED
  BY <1>3, <1>4 DEF CheckOut, Update

\* A closed session gets another check-out only from a correction, or from a
\* check-out that another request had overtaken.
THEOREM ClosedIsClosed == Spec => ClosedStays
<1>1. Inv /\ [Next]_vars => [Settled]_vars
  BY SettledStep
<1>2. QED
  BY <1>1, Inductive, PTL DEF Spec, ClosedStays

\* A check-out on good grounds leaves no later session of the employee open.
THEOREM ClosesTheLast == Spec => ClosesLatest
<1>1. ASSUME Inv
      PROVE  LeavesNoneOpen
  <2>1. SUFFICES ASSUME NEW s \in Sessions \ missed, CheckOut(s),
                        NEW id \in Records \ {view[s].id}
                 PROVE  ~OpenAfter(attendance'[id], view[s].new.emp, view[s].new.from)
    BY DEF LeavesNoneOpen
  <2>2. pc[s] = "checkout" /\ attendance'[id] = attendance[id]
    BY <1>1, <2>1, UpdateRow DEF CheckOut, Inv, TypeOK
  <2>3. QED
    BY <1>1, <2>1, <2>2 DEF Inv, Grounded
<1>2. Inv /\ [Next]_vars => [LeavesNoneOpen]_vars
  BY <1>1
<1>3. QED
  BY <1>2, Inductive, PTL DEF Spec, ClosesLatest

LEMMA AdmittedStep ==
  ASSUME Inv, [Next]_vars
  PROVE  Admitted
<1>1. SUFFICES ASSUME NEW id \in Records, attendance[id] = NoRow,
                      attendance'[id] # NoRow
               PROVE  \/ attendance'[id].emp \in active
                      \/ \E s \in Sessions :
                            Insert(s) /\ (pc[s] = "manual" \/ s \in missed)
  BY DEF Admitted
<1>2. ~ \E s \in Sessions : Update(s) /\ view[s].id = id
  BY <1>1 DEF Update, Present
<1>3. PICK s \in Sessions : Insert(s) /\ attendance'[id] = view[s].new
  BY <1>1, <1>2, RowChange
<1>4. pc[s] = "checkin" /\ s \notin missed => view[s].new.emp \in active
  BY DEF Inv, Grounded
<1>5. QED
  BY <1>3, <1>4 DEF Insert

\* A check-in by an employee who is not active had been overtaken by the
\* deactivation.
THEOREM OnlyTheActiveCheckIn == Spec => ActiveCheckIn
<1>1. Inv /\ [Next]_vars => [Admitted]_vars
  BY AdmittedStep
<1>2. QED
  BY <1>1, Inductive, PTL DEF Spec, ActiveCheckIn
-----------------------------------------------------------------------------
(* What a day is worth *)

\* The figures of a row that is closed after so many minutes.
LEMMA WorthOf ==
  ASSUME NEW row \in Row, NEW stay \in Nat, NEW shift
  PROVE  Worth(row, stay, shift) = Metrics(Clock(ReadBack(row.from)), stay, shift)
<1> DEFINE from == ReadBack(row.from)
           to   == ReadBack(row.from + stay)
<1>1. row.from \in Int
  BY TimesStored DEF Row
<1>2. from = Time(row.from, 0) /\ to = Time(row.from + stay, 0) /\ 0 \in Int
  BY <1>1, ReadBackType
<1>3. /\ from \in Times /\ ~Naive(from) /\ from.at = row.from
      /\ to \in Times /\ ~Naive(to) /\ to.at = row.from + stay
  BY <1>1, <1>2, ReadBackType
<1>4. to # None /\ Taken(to, from) - Taken(from, to) = stay
  <2> HIDE DEF from, to
  <2>1. Taken(to, from) = row.from + stay /\ Taken(from, to) = row.from
    BY <1>3, TakenType
  <2>2. QED
    BY <1>1, <1>3, <2>1, TimeType
<1>5. QED
  BY <1>4 DEF Worth, Figures

LEMMA ClockOfRow ==
  ASSUME NEW row \in Row
  PROVE  Clock(ReadBack(row.from)) \in Nat
<1>1. row.from \in Int
  BY TimesStored DEF Row
<1>2. ReadBack(row.from) \in Times
  <2>1. 0 \in Int
    OBVIOUS
  <2>2. QED
    BY <1>1, <2>1, ReadBackType
<1>3. QED
  BY <1>2, TimeType

\* Worked minutes grow with the stay, but for the minute in which the break
\* begins to be deducted.
LEMMA WorkedGrows ==
  ASSUME NEW shift \in Shift \cup {None}, NEW stay \in Nat \ {239}
  PROVE  /\ Worked(stay, shift) \in Nat /\ Worked(stay + 1, shift) \in Nat
         /\ Worked(stay, shift) <= Worked(stay + 1, shift)
<1>1. Break(shift) \in Nat
  BY ShiftType
<1>2. QED
  BY <1>1 DEF Worked, Positive

LEMMA LongerStep ==
  ASSUME NEW clock \in Int, NEW shift \in Shift \cup {None},
         NEW stay \in Nat \ {239}
  PROVE  LET a == Metrics(clock, stay, shift)
             b == Metrics(clock, stay + 1, shift)
         IN  /\ a.worked <= b.worked /\ a.over <= b.over
             /\ a.status = "PRESENT" => b.status = "PRESENT"
<1> DEFINE w == Worked(stay, shift)
           x == Worked(stay + 1, shift)
           expected == Expected(shift)
           late == Late(clock, shift)
<1>1. w \in Nat /\ x \in Nat /\ w <= x /\ expected \in Nat
  BY WorkedGrows, ShiftType
<1>2. stay # None /\ stay + 1 # None
  BY NoneAssumption
<1>3. Positive(w - expected) <= Positive(x - expected)
  <2> HIDE DEF w, x, expected
  <2>1. QED
    BY <1>1 DEF Positive
<1>4. ClosedStatus(late, w, expected) = "PRESENT"
         => ClosedStatus(late, x, expected) = "PRESENT"
  <2> HIDE DEF w, x, expected, late
  <2>1. expected \div 2 \in Int
    BY <1>1
  <2>2. QED
    BY <1>1, <2>1 DEF ClosedStatus
<1>5. QED
  BY <1>1, <1>2, <1>3, <1>4 DEF Metrics

\* A minute more is never worth less, for every shift and every time of day.
THEOREM LongerIsNeverLess == Spec => []LongerIsNoLess
<1>1. Inv => LongerIsNoLess
  <2>1. SUFFICES ASSUME Inv, NEW id \in Present, NEW shift \in Shifts,
                        NEW stay \in Lengths \ {239}
                 PROVE  LET a == Worth(attendance[id], stay, shift)
                            b == Worth(attendance[id], stay + 1, shift)
                        IN  /\ a.worked <= b.worked /\ a.over <= b.over
                            /\ a.status = "PRESENT" => b.status = "PRESENT"
    BY DEF LongerIsNoLess
  <2>2. attendance[id] \in Row
    BY <2>1 DEF Inv, TypeOK, Present
  <2>3. /\ stay \in Nat \ {239} /\ stay + 1 \in Nat
        /\ shift \in Shift \cup {None}
    BY AttendanceAssumption
  <2>4. Clock(ReadBack(attendance[id].from)) \in Int
    BY <2>2, ClockOfRow
  <2>5. QED
    <3> DEFINE row   == attendance[id]
               clock == Clock(ReadBack(row.from))
    <3>1. row \in Row /\ clock \in Int
      BY <2>2, <2>4
    <3>2. /\ Worth(row, stay, shift) = Metrics(clock, stay, shift)
          /\ Worth(row, stay + 1, shift) = Metrics(clock, stay + 1, shift)
      <4> HIDE DEF row
      <4>1. QED
        BY <2>3, <3>1, WorthOf
    <3>3. QED
      <4> HIDE DEF row, clock
      <4>1. LET a == Metrics(clock, stay, shift)
                b == Metrics(clock, stay + 1, shift)
            IN  /\ a.worked <= b.worked /\ a.over <= b.over
                /\ a.status = "PRESENT" => b.status = "PRESENT"
        BY <2>3, <3>1, LongerStep
      <4>2. QED
        BY <3>2, <4>1 DEF row
<1>2. QED
  BY <1>1, Inductive, PTL

LEMMA DivSix ==
  ASSUME NEW n \in Int, NEW q \in Int, 6 * q <= n, n < 6 * q + 6
  PROVE  n \div 6 = q
  OBVIOUS

LEMMA DivFive ==
  ASSUME NEW n \in Int, NEW q \in Int, 5 * q <= n, n < 5 * q + 5
  PROVE  n \div 5 = q
  OBVIOUS

\* Hundredths of an hour give back the minutes they were made of, or one less.
LEMMA HundredthsBack ==
  ASSUME NEW net \in Nat
  PROVE  /\ Hundredths(net) \in Nat
         /\ (3 * Hundredths(net)) \div 5 = IF net % 3 = 2 THEN net - 1 ELSE net
<1>1. PICK k \in Nat, r \in {0, 1, 2} : net = 3 * k + r
  <2>1. net \div 3 \in Nat
    OBVIOUS
  <2>2. net % 3 \in {0, 1, 2}
    OBVIOUS
  <2>3. net = 3 * (net \div 3) + (net % 3)
    OBVIOUS
  <2>4. QED
    BY <2>1, <2>2, <2>3
<1>2. net % 3 = r
  BY <1>1
<1>3. CASE r = 0
  <2>1. Hundredths(net) = 5 * k
    BY <1>1, <1>3, DivSix DEF Hundredths
  <2>2. QED
    BY <1>1, <1>2, <1>3, <2>1, DivFive
<1>4. CASE r = 1
  <2>1. Hundredths(net) = 5 * k + 2
    BY <1>1, <1>4, DivSix DEF Hundredths
  <2>2. QED
    BY <1>1, <1>2, <1>4, <2>1, DivFive
<1>5. CASE r = 2
  <2>1. Hundredths(net) = 5 * k + 3
    BY <1>1, <1>5, DivSix DEF Hundredths
  <2>2. QED
    BY <1>1, <1>2, <1>5, <2>1, DivFive
<1>6. QED
  BY <1>3, <1>4, <1>5

\* A shift of any length is asked for in full, but for at most a minute.
THEOREM ShiftTimeIsKept == Spec => []ShiftTimeKept
<1>1. Inv => ShiftTimeKept
  <2>1. SUFFICES ASSUME Inv, NEW id \in Present, NEW net \in Lengths
                 PROVE  LET start == Clock(ReadBack(attendance[id].from))
                        IN  Worth(attendance[id], net,
                                  ShiftOf(start, start + net, 0)).over =
                               IF net % 3 = 2 THEN 1 ELSE 0
    BY DEF ShiftTimeKept
  <2> DEFINE start == Clock(ReadBack(attendance[id].from))
             shift == ShiftOf(start, start + net, 0)
  <2>2. attendance[id] \in Row
    BY <2>1 DEF Inv, TypeOK, Present
  <2>3. net \in Nat /\ net > 0
    BY AttendanceAssumption
  <2>4. start \in Nat
    BY <2>2, ClockOfRow
  <2>5. shift = [start |-> start, break |-> 0, hours |-> Hundredths(net)]
    <3> HIDE DEF start
    <3>1. Positive(((start + net) - start) - 0) = net
      BY <2>3, <2>4 DEF Positive
    <3>2. QED
      BY <3>1 DEF ShiftOf
  <2>6. shift \in Shift /\ shift # None
    <3> HIDE DEF start
    <3>1. Hundredths(net) \in Nat
      BY <2>3, HundredthsBack
    <3>2. QED
      BY <2>4, <2>5, <3>1, NoneAssumption DEF Shift
  <2>7. Expected(shift) = IF net % 3 = 2 THEN net - 1 ELSE net
    <3> HIDE DEF start
    <3>1. shift.hours = Hundredths(net)
      BY <2>5
    <3>2. QED
      BY <2>3, <2>6, <3>1, HundredthsBack DEF Expected
  <2>8. Worked(net, shift) = net
    <3>1. Break(shift) = 0
      BY <2>5, <2>6 DEF Break
    <3>2. QED
      BY <2>3, <3>1 DEF Worked, Positive
  <2>9. Positive(net - Expected(shift)) = IF net % 3 = 2 THEN 1 ELSE 0
    BY <2>3, <2>7 DEF Positive
  <2>10. Worth(attendance[id], net, shift).over = Positive(net - Expected(shift))
    <3> HIDE DEF start, shift
    <3>1. Worth(attendance[id], net, shift) = Metrics(start, net, shift)
      BY <2>2, <2>3, WorthOf DEF start
    <3>2. net # None
      BY <2>3, NoneAssumption
    <3>3. QED
      BY <2>8, <3>1, <3>2 DEF Metrics
  <2>11. QED
    BY <2>9, <2>10
<1>2. QED
  BY <1>1, Inductive, PTL
-----------------------------------------------------------------------------
(* Payroll periods *)

\* Only finitely many records have been made.
Few == IsFiniteSet(Present)

LEMMA FewInit == Init => Few
<1> SUFFICES ASSUME Init PROVE Few
  OBVIOUS
<1>1. Present = {}
  BY DEF Init, Present
<1> QED  BY <1>1, FS_EmptySet DEF Few

LEMMA FewStep ==
  ASSUME Inv, Few, [Next]_vars
  PROVE  Few'
<1>1. ASSUME NEW id \in Records,
             \A other \in Records \ {id} : attendance'[other] = attendance[other]
      PROVE  Few'
  <2>1. Present' \in SUBSET (Present \cup {id})
    BY <1>1 DEF Present
  <2>2. IsFiniteSet(Present \cup {id})
    BY FS_AddElement DEF Few
  <2>3. IsFiniteSet(Present')
    BY <2>1, <2>2, FS_Subset
  <2> QED  BY <2>3 DEF Few
<1>2. CASE attendance' = attendance
  BY <1>2 DEF Few, Present
<1>3. ASSUME NEW s \in Sessions, Insert(s) PROVE Few'
  <2>1. PICK id \in Records \ Present : attendance' = [attendance EXCEPT ![id] = view[s].new]
    BY <1>3, InsertRow
  <2> QED  BY <1>1, <2>1 DEF Inv, TypeOK
<1>4. ASSUME NEW s \in Sessions, Update(s) PROVE Few'
  <2>1. PICK id \in Records : attendance' = [attendance EXCEPT ![id] = attendance'[id]]
    BY <1>4, UpdateRow
  <2> QED  BY <1>1, <2>1 DEF Inv, TypeOK
<1>5. ASSUME NEW id \in Records, Delete(id) PROVE Few'
  BY <1>1, <1>5 DEF Delete, Inv, TypeOK
<1> QED  BY <1>2, <1>3, <1>4, <1>5, RowChanges

LEMMA FiniteRows == Spec => [](TypeOK /\ Few)
<1>1. Inv /\ Few /\ [Next]_vars => Few'
  BY FewStep
<1>2. Inv => TypeOK
  BY DEF Inv
<1> QED  BY <1>1, <1>2, FewInit, Inductive, PTL DEF Spec

\* What payroll adds up of the records of a period.
HalvesOf == [id \in Records |-> Halves(attendance[id])]
WorkedOf == [id \in Records |-> attendance[id].worked]
OverOf   == [id \in Records |-> attendance[id].over]

LEMMA CountedRows ==
  ASSUME TypeOK, Few, NEW e, NEW first, NEW last
  PROVE  LET S == Records_(e, first, last)
         IN  /\ IsFiniteSet(S) /\ S \subseteq Records
             /\ IntValued(HalvesOf, S) /\ IntValued(WorkedOf, S) /\ IntValued(OverOf, S)
<1> DEFINE S == Records_(e, first, last)
<1>1. S \in SUBSET Present
  BY DEF Records_
<1>2. IsFiniteSet(S)
  BY <1>1, FS_Subset DEF Few
<1>3. \A id \in S : id \in Records /\ attendance[id] \in Row
  BY <1>1 DEF Present, TypeOK
<1>4. \A id \in S : /\ attendance[id].worked \in Int /\ attendance[id].over \in Int
                    /\ Halves(attendance[id]) \in Int
  BY <1>3 DEF Row, Halves
<1> HIDE DEF S
<1>5. IntValued(HalvesOf, S) /\ IntValued(WorkedOf, S) /\ IntValued(OverOf, S)
  BY <1>3, <1>4 DEF IntValued, HalvesOf, WorkedOf, OverOf
<1> QED  BY <1>2, <1>3, <1>5 DEF S

LEMMA HalvesTotal ==
  ASSUME TypeOK, Few, NEW e, NEW first, NEW last
  PROVE  Aggregate(e, first, last).halves = Total(HalvesOf, Records_(e, first, last))
<1> DEFINE S == Records_(e, first, last)
           f == HalvesOf
           Body(g) == [T \in SUBSET S |-> IF T = {} THEN 0
               ELSE Halves(attendance[CHOOSE x \in T : TRUE])
                    + g[T \ {CHOOSE x \in T : TRUE}]]
           k == CHOOSE k : k = Body(k)
<1>1. IsFiniteSet(S) /\ IntValued(f, S) /\ S \subseteq Records
  BY CountedRows
<1>2. Aggregate(e, first, last).halves = k[S]
  BY DEF Aggregate, Sets!MapThenSumSet, Sets!MapThenFoldSet
<1> HIDE DEF S
<1>3. \A g : Accumulates(g, f, S) <=> g = Body(g)
  <2> SUFFICES ASSUME NEW T \in SUBSET S, T # {}
               PROVE  f[CHOOSE x \in T : TRUE] =
                        Halves(attendance[CHOOSE x \in T : TRUE])
    BY DEF Accumulates, Chosen
  <2> QED  BY <1>1 DEF HalvesOf
<1> HIDE DEF Body, f
<1>4. \E g : g = Body(g)
  BY <1>1, <1>3, SumExists
<1>5. k = Body(k)
  BY <1>4
<1> HIDE DEF k
<1>6. k[S] = Total(f, S)
  BY <1>1, <1>3, <1>5, TotalAccumulates
<1> QED  BY <1>2, <1>6 DEF S, f

LEMMA WorkedTotal ==
  ASSUME TypeOK, Few, NEW e, NEW first, NEW last
  PROVE  Aggregate(e, first, last).worked = Total(WorkedOf, Records_(e, first, last))
<1> DEFINE S == Records_(e, first, last)
           f == WorkedOf
           Body(g) == [T \in SUBSET S |-> IF T = {} THEN 0
               ELSE attendance[CHOOSE x \in T : TRUE].worked
                    + g[T \ {CHOOSE x \in T : TRUE}]]
           k == CHOOSE k : k = Body(k)
<1>1. IsFiniteSet(S) /\ IntValued(f, S) /\ S \subseteq Records
  BY CountedRows
<1>2. Aggregate(e, first, last).worked = k[S]
  BY DEF Aggregate, Sets!MapThenSumSet, Sets!MapThenFoldSet
<1> HIDE DEF S
<1>3. \A g : Accumulates(g, f, S) <=> g = Body(g)
  <2> SUFFICES ASSUME NEW T \in SUBSET S, T # {}
               PROVE  f[CHOOSE x \in T : TRUE] =
                        attendance[CHOOSE x \in T : TRUE].worked
    BY DEF Accumulates, Chosen
  <2> QED  BY <1>1 DEF WorkedOf
<1> HIDE DEF Body, f
<1>4. \E g : g = Body(g)
  BY <1>1, <1>3, SumExists
<1>5. k = Body(k)
  BY <1>4
<1> HIDE DEF k
<1>6. k[S] = Total(f, S)
  BY <1>1, <1>3, <1>5, TotalAccumulates
<1> QED  BY <1>2, <1>6 DEF S, f

LEMMA OverTotal ==
  ASSUME TypeOK, Few, NEW e, NEW first, NEW last
  PROVE  Aggregate(e, first, last).over = Total(OverOf, Records_(e, first, last))
<1> DEFINE S == Records_(e, first, last)
           f == OverOf
           Body(g) == [T \in SUBSET S |-> IF T = {} THEN 0
               ELSE attendance[CHOOSE x \in T : TRUE].over
                    + g[T \ {CHOOSE x \in T : TRUE}]]
           k == CHOOSE k : k = Body(k)
<1>1. IsFiniteSet(S) /\ IntValued(f, S) /\ S \subseteq Records
  BY CountedRows
<1>2. Aggregate(e, first, last).over = k[S]
  BY DEF Aggregate, Sets!MapThenSumSet, Sets!MapThenFoldSet
<1> HIDE DEF S
<1>3. \A g : Accumulates(g, f, S) <=> g = Body(g)
  <2> SUFFICES ASSUME NEW T \in SUBSET S, T # {}
               PROVE  f[CHOOSE x \in T : TRUE] =
                        attendance[CHOOSE x \in T : TRUE].over
    BY DEF Accumulates, Chosen
  <2> QED  BY <1>1 DEF OverOf
<1> HIDE DEF Body, f
<1>4. \E g : g = Body(g)
  BY <1>1, <1>3, SumExists
<1>5. k = Body(k)
  BY <1>4
<1> HIDE DEF k
<1>6. k[S] = Total(f, S)
  BY <1>1, <1>3, <1>5, TotalAccumulates
<1> QED  BY <1>2, <1>6 DEF S, f

\* A period and the one that follows it share out the records of both.
LEMMA RecordsSplit ==
  ASSUME TypeOK, Few, NEW e, NEW first \in Int, NEW day \in Int, NEW last \in Int,
         first <= day, day < last, NEW f, IntValued(f, Records_(e, first, last))
  PROVE  Total(f, Records_(e, first, last)) =
            Total(f, Records_(e, first, day)) + Total(f, Records_(e, day + 1, last))
<1> DEFINE S == Records_(e, first, last)
           R == Records_(e, first, day)
           Q == Records_(e, day + 1, last)
<1>1. \A id \in Present : attendance[id].date \in Int
  BY TimesStored, AttendanceAssumption DEF Present, TypeOK, Row
<1>2. R \in SUBSET S
  BY <1>1 DEF Records_, Within
<1>3. Q = S \ R
  BY <1>1 DEF Records_, Within
<1>4. IsFiniteSet(S)
  BY CountedRows
<1> HIDE DEF S, R, Q
<1>5. Total(f, S) = Total(f, R) + Total(f, S \ R)
  BY <1>2, <1>4, TotalUnion DEF S
<1> QED  BY <1>3, <1>5 DEF S, R, Q

LEMMA LeavesSplit ==
  ASSUME NEW first \in Int, NEW day \in Int, NEW last \in Int, first <= day, day < last
  PROVE  Counted(first, day) \cap Counted(day + 1, last) =
            {leave \in Leaves : leave.from <= day /\ day < leave.to}
<1> \A leave \in Leaves : leave.from \in Int /\ leave.to \in Int
  BY PayslipsAssumption, AttendanceAssumption
<1> QED  BY DEF Counted

LEMMA AddingUp == TypeOK /\ Few => PeriodsAddUp
<1> SUFFICES ASSUME TypeOK, Few, NEW e \in Employees, NEW p \in Periods,
                    NEW day \in Dates, p[1] <= day, day < p[2]
             PROVE  LET a == Aggregate(e, p[1], day)
                        b == Aggregate(e, day + 1, p[2])
                    IN  /\ Aggregate(e, p[1], p[2]) = [f \in DOMAIN a |-> a[f] + b[f]]
                        /\ Counted(p[1], day) \cap Counted(day + 1, p[2]) =
                              {leave \in Leaves : leave.from <= day /\ day < leave.to}
  BY DEF PeriodsAddUp
<1> DEFINE all == Aggregate(e, p[1], p[2])
           a == Aggregate(e, p[1], day)
           b == Aggregate(e, day + 1, p[2])
<1>1. p[1] \in Int /\ p[2] \in Int /\ day \in Int /\ day + 1 \in Int
  <2>1. p \in Dates \X Dates
    BY DEF Periods
  <2>2. p[1] \in Dates /\ p[2] \in Dates
    BY <2>1
  <2>3. p[1] \in Int /\ p[2] \in Int /\ day \in Int
    BY <2>2, AttendanceAssumption
  <2> QED  BY <2>3
<1>2. /\ all.halves = a.halves + b.halves
      /\ all.worked = a.worked + b.worked
      /\ all.over = a.over + b.over
  <2>1. /\ IntValued(HalvesOf, Records_(e, p[1], p[2]))
        /\ IntValued(WorkedOf, Records_(e, p[1], p[2]))
        /\ IntValued(OverOf, Records_(e, p[1], p[2]))
    BY CountedRows
  <2>2. all.halves = a.halves + b.halves
    BY <1>1, <2>1, HalvesTotal, RecordsSplit
  <2>3. all.worked = a.worked + b.worked
    BY <1>1, <2>1, WorkedTotal, RecordsSplit
  <2>4. all.over = a.over + b.over
    BY <1>1, <2>1, OverTotal, RecordsSplit
  <2> QED  BY <2>2, <2>3, <2>4
<1>3. /\ DOMAIN a = {"halves", "worked", "over"}
      /\ all = [halves |-> all.halves, worked |-> all.worked, over |-> all.over]
  BY DEF Aggregate
<1> HIDE DEF all, a, b
<1>4. all = [f \in DOMAIN a |-> a[f] + b[f]]
  <2>1. all = [halves |-> a.halves + b.halves, worked |-> a.worked + b.worked,
               over |-> a.over + b.over]
    BY <1>2, <1>3
  <2> QED  BY <1>3, <2>1
<1> QED  BY <1>1, <1>4, LeavesSplit DEF all, a, b

\* Adjacent payroll periods count every record of the period they make up
\* exactly once, of however many employees and days; and they both count the
\* time off that reaches from one into the other, and no other.
THEOREM PeriodsShareNothing == Spec => []PeriodsAddUp
  BY FiniteRows, AddingUp, PTL
-----------------------------------------------------------------------------
(* The totals of a payslip *)

Line    == [cat : Categories, amount : Int]
Running == [gross : Int, deduction : Int, net : Int,
            explicitGross : BOOLEAN, explicitNet : BOOLEAN]

LEMMA RuleType ==
  ASSUME NEW rule \in Rule, NEW base \in Int, NEW wage \in Nat, NEW days \in Int
  PROVE  Amount(rule, base, wage, days) \in Int
<1>1. rule.n \in Nat /\ rule.how \in {"FIXED", "PERCENTAGE", "WAGE", "PER_DAY"}
  BY DEF Rule
<1>2. CASE rule.how = "PERCENTAGE"
  <2>1. base * rule.n \in Int
    BY <1>1
  <2>2. Percent(rule.n, base) \in Int
    BY <2>1 DEF Percent
  <2> QED  BY <1>2, <2>2 DEF Amount
<1>3. CASE rule.how = "PER_DAY"
  <2>1. rule.n * days \in Int
    BY <1>1
  <2> QED  BY <1>3, <2>1 DEF Amount
<1> QED  BY <1>1, <1>2, <1>3 DEF Amount

LEMMA LineType ==
  ASSUME NEW rules \in Seq(Rule), NEW wage \in Nat, NEW days \in Int
  PROVE  LET lines == Calculate(rules, wage, days)
         IN  /\ DOMAIN lines = 1 .. Len(rules)
             /\ \A i \in 1 .. Len(rules) : lines[i] \in Line /\ lines[i].cat = rules[i].cat
<1>1. DOMAIN rules = 1 .. Len(rules) /\ \A i \in 1 .. Len(rules) : rules[i] \in Rule
  OBVIOUS
<1> DEFINE base == Amount(rules[1], 0, wage, days)
<1>2. ASSUME NEW i \in 1 .. Len(rules)
      PROVE  Amount(rules[i], base, wage, days) \in Int /\ rules[i].cat \in Categories
  <2>1. 1 \in 1 .. Len(rules)
    OBVIOUS
  <2>2. base \in Int
    BY <1>1, <2>1, RuleType
  <2> HIDE DEF base
  <2> QED  BY <1>1, <2>2, RuleType DEF Rule
<1> HIDE DEF base
<1> QED  BY <1>1, <1>2 DEF Calculate, Line, base

LEMMA AddLineType ==
  ASSUME NEW totals \in Running, NEW line \in Line
  PROVE  AddLine(totals, line) \in Running
<1>1. line.cat \in {"GROSS", "BASIC", "ALLOWANCE", "DEDUCTION", "NET"} /\ line.amount \in Int
  BY DEF Line, Categories
<1>2. totals.gross + line.amount \in Int /\ totals.deduction + line.amount \in Int
  BY <1>1 DEF Running
<1>3. CASE line.cat = "GROSS"
  BY <1>1, <1>3 DEF AddLine, Running
<1>4. CASE line.cat \in {"BASIC", "ALLOWANCE"}
  BY <1>1, <1>2, <1>4 DEF AddLine, Running
<1>5. CASE line.cat = "DEDUCTION"
  BY <1>1, <1>2, <1>5 DEF AddLine, Running
<1>6. CASE line.cat = "NET"
  BY <1>1, <1>6 DEF AddLine, Running
<1> QED  BY <1>1, <1>3, <1>4, <1>5, <1>6

LEMMA GreatestElement ==
  ASSUME NEW n \in Nat, NEW S \in SUBSET (1 .. n), S # {}
  PROVE  \E m \in S : \A x \in S : x <= m
<1> DEFINE T == {k \in Nat : \A x \in S : x <= k}
<1>1. n \in T
  OBVIOUS
<1>2. PICK k \in T : \A m \in T : k <= m
  BY <1>1, LeastElement
<1>3. SUFFICES ASSUME k \notin S PROVE FALSE
  BY <1>2
<1>4. \A x \in S : x <= k - 1 /\ x \in 1 .. n
  BY <1>2, <1>3
<1>5. k - 1 \in Nat
  <2>1. PICK x \in S : TRUE
    OBVIOUS
  <2> QED  BY <1>2, <1>4, <2>1
<1>6. k - 1 \in T
  BY <1>4, <1>5
<1> QED  BY <1>2, <1>6

LEMMA MaxOf ==
  ASSUME NEW n \in Nat, NEW S \in SUBSET (1 .. n), S # {}
  PROVE  Seqs!Max(S) \in S /\ \A x \in S : x <= Seqs!Max(S)
<1>1. PICK m \in S : \A x \in S : x <= m
  BY GreatestElement
<1>2. \A x \in S : m >= x
  BY <1>1
<1>3. Seqs!Max(S) \in S /\ \A x \in S : Seqs!Max(S) >= x
  BY <1>2 DEF Seqs!Max
<1> QED  BY <1>3

\* The totals after each line.
Follows(r, lines, n) ==
    /\ r[0] = NoTotals
    /\ \A k \in 1 .. n : r[k] = AddLine(r[k - 1], lines[k])

LEMMA FoldFollows ==
  ASSUME NEW n \in Nat, NEW lines, DOMAIN lines = 1 .. n,
         \A i \in 1 .. n : lines[i] \in Line
  PROVE  \E r : Follows(r, lines, n) /\ r[n] = Seqs!FoldLeft(AddLine, NoTotals, lines)
<1> DEFINE S == 1 .. n
           c == [T \in SUBSET S |-> Seqs!Max(T)]
           h == [p \in S \X Running |-> AddLine(p[2], lines[p[1]])]
           Body(g) == [T \in SUBSET S |-> IF T = {} THEN NoTotals
                         ELSE AddLine(g[T \ {Seqs!Max(T)}], lines[Seqs!Max(T)])]
           it == CHOOSE g : g = Body(g)
           r == [k \in 0 .. n |-> it[1 .. k]]
<1>1. IsFiniteSet(S)
  BY FS_Interval
<1>2. Chooses(c, S)
  BY MaxOf DEF Chooses
<1>3. NoTotals \in Running
  BY DEF NoTotals, Running
<1>4. h \in [S \X Running -> Running]
  BY AddLineType
<1>5. Seqs!FoldLeft(AddLine, NoTotals, lines) = it[S]
  BY DEF Seqs!FoldLeft, Seqs!MapThenFoldSet
<1>6. ASSUME NEW g \in [SUBSET S -> Running], Folds(g, S, NoTotals, c, h)
      PROVE  g = Body(g)
  <2> SUFFICES ASSUME NEW T \in SUBSET S, T # {}
               PROVE  g[T] = AddLine(g[T \ {Seqs!Max(T)}], lines[Seqs!Max(T)])
    BY <1>6 DEF Folds
  <2>1. Seqs!Max(T) \in S /\ T \ {Seqs!Max(T)} \in SUBSET S /\ c[T] = Seqs!Max(T)
    BY MaxOf
  <2> HIDE DEF c
  <2>2. g[T] = h[<<Seqs!Max(T), g[T \ {Seqs!Max(T)}]>>]
    BY <1>6, <2>1 DEF Folds
  <2> QED  BY <2>1, <2>2
<1>7. \E g : g = Body(g)
  <2> HIDE DEF S, c, h, Body
  <2>1. PICK g \in [SUBSET S -> Running] : Folds(g, S, NoTotals, c, h)
    BY <1>1, <1>2, <1>3, <1>4, FoldExists
  <2> QED  BY <1>6, <2>1
<1>8. it = Body(it)
  <2> HIDE DEF Body
  <2> QED  BY <1>7
<1> HIDE DEF it
<1>9. r[0] = NoTotals
  <2>1. 1 .. 0 = {} /\ {} \in SUBSET S
    OBVIOUS
  <2> QED  BY <1>8, <2>1
<1>10. ASSUME NEW k \in 1 .. n PROVE r[k] = AddLine(r[k - 1], lines[k])
  <2>1. 1 .. k \in SUBSET S /\ k \in 1 .. k /\ (1 .. k) \ {k} = 1 .. (k - 1)
    OBVIOUS
  <2>2. Seqs!Max(1 .. k) = k
    <3>1. Seqs!Max(1 .. k) \in 1 .. k /\ \A x \in 1 .. k : x <= Seqs!Max(1 .. k)
      BY <2>1, MaxOf
    <3> QED  BY <2>1, <3>1
  <2>3. it[1 .. k] = AddLine(it[1 .. (k - 1)], lines[k])
    BY <1>8, <2>1, <2>2
  <2> QED  BY <2>3
<1>11. r[n] = it[S]
  OBVIOUS
<1> HIDE DEF r
<1> QED  BY <1>5, <1>9, <1>10, <1>11 DEF Follows

\* The lines of a payslip, n of them.
Bill(lines, n) == /\ n \in Nat /\ DOMAIN lines = 1 .. n
                  /\ \A i \in 1 .. n : lines[i] \in Line

Amounts(lines) == [i \in DOMAIN lines |-> lines[i].amount]

\* The first k lines as far as they are of the categories, and their sum.
Part(cats, lines, k) == {i \in 1 .. k : lines[i].cat \in cats}

SumTo(cats, lines, k) == Total(Amounts(lines), Part(cats, lines, k))

\* The last of the first k lines that is of the category has the amount.
LastAt(cat, lines, k, amount) ==
    \E i \in 1 .. k : /\ lines[i].cat = cat /\ lines[i].amount = amount
                      /\ \A j \in 1 .. k : lines[j].cat = cat => j <= i

LEMMA PartKind ==
  ASSUME NEW n, NEW lines, Bill(lines, n), NEW cats, NEW k \in 0 .. n
  PROVE  /\ IsFiniteSet(Part(cats, lines, k))
         /\ IntValued(Amounts(lines), Part(cats, lines, k))
         /\ \A i \in Part(cats, lines, k) : Amounts(lines)[i] = lines[i].amount
<1>1. Part(cats, lines, k) \in SUBSET (1 .. k) /\ k \in Nat /\ 1 .. k \subseteq 1 .. n
  BY DEF Part, Bill
<1>2. IsFiniteSet(Part(cats, lines, k))
  BY <1>1, FS_Interval, FS_Subset
<1>3. \A i \in 1 .. n : Amounts(lines)[i] = lines[i].amount /\ lines[i].amount \in Int
  BY DEF Amounts, Bill, Line
<1> QED  BY <1>1, <1>2, <1>3 DEF IntValued

LEMMA SumToType ==
  ASSUME NEW n, NEW lines, Bill(lines, n), NEW cats, NEW k \in 0 .. n
  PROVE  SumTo(cats, lines, k) \in Int
  BY PartKind, TotalType DEF SumTo

LEMMA SumToZero ==
  ASSUME NEW n, NEW lines, Bill(lines, n), NEW cats
  PROVE  SumTo(cats, lines, 0) = 0
<1>1. Part(cats, lines, 0) = {}
  BY DEF Part
<1> QED  BY <1>1, TotalEmpty DEF SumTo

LEMMA SumToNext ==
  ASSUME NEW n, NEW lines, Bill(lines, n), NEW cats, NEW k \in 1 .. n
  PROVE  SumTo(cats, lines, k) = SumTo(cats, lines, k - 1)
             + (IF lines[k].cat \in cats THEN lines[k].amount ELSE 0)
<1> DEFINE S == Part(cats, lines, k)
           T == Part(cats, lines, k - 1)
           f == Amounts(lines)
<1>1. k \in Nat /\ k - 1 \in 0 .. n /\ k \in 0 .. n
  BY DEF Bill
<1>2. (k \in S <=> lines[k].cat \in cats) /\ T = S \ {k}
  BY <1>1 DEF Part
<1>3. IsFiniteSet(S) /\ IntValued(f, S) /\ (k \in S => f[k] = lines[k].amount)
  BY <1>1, PartKind
<1>4. Total(f, T) \in Int
  BY <1>1, PartKind, TotalType
<1>5. CASE k \in S
  <2> HIDE DEF S, T, f
  <2>1. Total(f, S) = f[k] + Total(f, T) /\ f[k] \in Int
    BY <1>2, <1>3, <1>5, TotalTake DEF IntValued
  <2> QED  BY <1>2, <1>3, <1>4, <1>5, <2>1 DEF SumTo, S, T, f
<1>6. CASE k \notin S
  <2>1. T = S
    BY <1>2, <1>6
  <2> QED  BY <1>2, <1>4, <1>6, <2>1 DEF SumTo
<1> QED  BY <1>5, <1>6

LEMMA SumOfAll ==
  ASSUME NEW n, NEW lines, Bill(lines, n), NEW cats
  PROVE  SumOf(cats, lines) = SumTo(cats, lines, n)
<1> DEFINE S == Part(cats, lines, n)
           f == Amounts(lines)
           Body(g) == [T \in SUBSET S |-> IF T = {} THEN 0
               ELSE lines[CHOOSE x \in T : TRUE].amount + g[T \ {CHOOSE x \in T : TRUE}]]
           k == CHOOSE k : k = Body(k)
<1>1. IsFiniteSet(S) /\ IntValued(f, S) /\ \A i \in S : f[i] = lines[i].amount
  <2>1. n \in 0 .. n
    BY DEF Bill
  <2> QED  BY <2>1, PartKind
<1>2. SumOf(cats, lines) = k[S]
  <2>1. S = {i \in DOMAIN lines : lines[i].cat \in cats}
    BY DEF Part, Bill
  <2> QED  BY <2>1 DEF SumOf, Sets!MapThenSumSet, Sets!MapThenFoldSet
<1> HIDE DEF S, f
<1>3. \A g : Accumulates(g, f, S) <=> g = Body(g)
  <2> SUFFICES ASSUME NEW T \in SUBSET S, T # {}
               PROVE  f[CHOOSE x \in T : TRUE] = lines[CHOOSE x \in T : TRUE].amount
    BY DEF Accumulates, Chosen
  <2> QED  BY <1>1
<1> HIDE DEF Body
<1>4. \E g : g = Body(g)
  BY <1>1, <1>3, SumExists
<1>5. k = Body(k)
  BY <1>4
<1> HIDE DEF k
<1>6. k[S] = Total(f, S)
  BY <1>1, <1>3, <1>5, TotalAccumulates
<1> QED  BY <1>2, <1>6 DEF SumTo, S, f

LEMMA LastOfAll ==
  ASSUME NEW n, NEW lines, Bill(lines, n), NEW cat, NEW amount,
         LastAt(cat, lines, n, amount)
  PROVE  LastOf(cat, lines) = amount
<1> DEFINE at == {i \in DOMAIN lines : lines[i].cat = cat}
<1>1. PICK i \in 1 .. n : /\ lines[i].cat = cat /\ lines[i].amount = amount
                          /\ \A j \in 1 .. n : lines[j].cat = cat => j <= i
  BY DEF LastAt
<1>2. i \in at /\ (\A x \in at : i >= x) /\ at \subseteq Int
  BY <1>1 DEF Bill
<1> HIDE DEF at
<1>3. Sets!Max(at) \in at /\ \A x \in at : Sets!Max(at) >= x
  BY <1>2 DEF Sets!Max
<1>4. Sets!Max(at) = i
  <2> DEFINE m == Sets!Max(at)
  <2>1. m \in at /\ m >= i /\ i >= m
    BY <1>2, <1>3
  <2>2. m \in Int /\ i \in Int
    BY <1>2, <2>1
  <2> HIDE DEF m
  <2>3. m = i
    BY <2>1, <2>2
  <2> QED  BY <2>3 DEF m
<1> QED  BY <1>1, <1>2, <1>4 DEF LastOf, at

LEMMA LastOfNone ==
  ASSUME NEW lines, NEW cat, \A i \in DOMAIN lines : lines[i].cat # cat
  PROVE  LastOf(cat, lines) = 0
  BY DEF LastOf

\* What the totals say after k lines.
Stands(t, lines, k) ==
    /\ t \in Running
    /\ t.deduction = SumTo({"DEDUCTION"}, lines, k)
    /\ IF t.explicitGross THEN LastAt("GROSS", lines, k, t.gross)
       ELSE /\ \A i \in 1 .. k : lines[i].cat # "GROSS"
            /\ t.gross = SumTo({"BASIC", "ALLOWANCE"}, lines, k)
    /\ IF t.explicitNet THEN LastAt("NET", lines, k, t.net)
       ELSE \A i \in 1 .. k : lines[i].cat # "NET"

LEMMA LastNew ==
  ASSUME NEW k \in Nat, k >= 1, NEW lines
  PROVE  LastAt(lines[k].cat, lines, k, lines[k].amount)
  BY DEF LastAt

LEMMA LastKept ==
  ASSUME NEW k \in Nat, k >= 1, NEW lines, NEW cat, NEW amount, lines[k].cat # cat,
         LastAt(cat, lines, k - 1, amount)
  PROVE  LastAt(cat, lines, k, amount)
  BY DEF LastAt

LEMMA StandsNext ==
  ASSUME NEW n, NEW lines, Bill(lines, n), NEW k \in 1 .. n,
         NEW t, Stands(t, lines, k - 1)
  PROVE  Stands(AddLine(t, lines[k]), lines, k)
<1> DEFINE line == lines[k]
           u == AddLine(t, line)
<1>1. t \in Running /\ line \in Line /\ u \in Running
  BY AddLineType DEF Stands, Bill
<1>2. line.cat \in {"GROSS", "BASIC", "ALLOWANCE", "DEDUCTION", "NET"} /\ line.amount \in Int
  BY <1>1 DEF Line, Categories
<1>3. k \in Nat /\ k >= 1 /\ \A i \in 1 .. k : i \in 1 .. k - 1 \/ i = k
  BY DEF Bill
<1>4. /\ t.gross \in Int /\ t.deduction \in Int
      /\ t.explicitGross \in BOOLEAN /\ t.explicitNet \in BOOLEAN
  BY <1>1 DEF Running
<1>5. /\ u.gross = IF line.cat = "GROSS" THEN line.amount
                   ELSE IF line.cat \in {"BASIC", "ALLOWANCE"} /\ ~t.explicitGross
                   THEN t.gross + line.amount ELSE t.gross
      /\ u.deduction = IF line.cat = "DEDUCTION" THEN t.deduction + line.amount
                       ELSE t.deduction
      /\ u.net = IF line.cat = "NET" THEN line.amount ELSE t.net
      /\ u.explicitGross = (t.explicitGross \/ line.cat = "GROSS")
      /\ u.explicitNet = (t.explicitNet \/ line.cat = "NET")
  <2>1. CASE line.cat = "GROSS"
    BY <1>1, <1>4, <2>1 DEF AddLine, Running
  <2>2. CASE line.cat \in {"BASIC", "ALLOWANCE"}
    BY <1>1, <1>4, <2>2 DEF AddLine, Running
  <2>3. CASE line.cat = "DEDUCTION"
    BY <1>1, <1>4, <2>3 DEF AddLine, Running
  <2>4. CASE line.cat = "NET"
    BY <1>1, <1>4, <2>4 DEF AddLine, Running
  <2> QED  BY <1>2, <2>1, <2>2, <2>3, <2>4
<1>6. u.deduction = SumTo({"DEDUCTION"}, lines, k)
  BY <1>2, <1>4, <1>5, SumToNext DEF Stands
<1>7. IF u.explicitGross THEN LastAt("GROSS", lines, k, u.gross)
      ELSE /\ \A i \in 1 .. k : lines[i].cat # "GROSS"
           /\ u.gross = SumTo({"BASIC", "ALLOWANCE"}, lines, k)
  <2>1. CASE line.cat = "GROSS"
    BY <1>3, <1>5, <2>1, LastNew
  <2>2. CASE line.cat # "GROSS" /\ t.explicitGross
    <3>1. LastAt("GROSS", lines, k - 1, t.gross)
      BY <2>2 DEF Stands
    <3>2. LastAt("GROSS", lines, k, t.gross)
      BY <1>3, <2>2, <3>1, LastKept
    <3> QED  BY <1>5, <2>2, <3>2
  <2>3. CASE line.cat # "GROSS" /\ ~t.explicitGross
    <3>1. /\ \A i \in 1 .. k - 1 : lines[i].cat # "GROSS"
          /\ t.gross = SumTo({"BASIC", "ALLOWANCE"}, lines, k - 1)
      BY <2>3 DEF Stands
    <3>2. u.gross = SumTo({"BASIC", "ALLOWANCE"}, lines, k)
      BY <1>2, <1>4, <1>5, <2>3, <3>1, SumToNext
    <3> QED  BY <1>3, <1>5, <2>3, <3>1, <3>2
  <2> QED  BY <2>1, <2>2, <2>3
<1>8. IF u.explicitNet THEN LastAt("NET", lines, k, u.net)
      ELSE \A i \in 1 .. k : lines[i].cat # "NET"
  <2>1. CASE line.cat = "NET"
    BY <1>3, <1>5, <2>1, LastNew
  <2>2. CASE line.cat # "NET" /\ t.explicitNet
    <3>1. LastAt("NET", lines, k - 1, t.net)
      BY <2>2 DEF Stands
    <3>2. LastAt("NET", lines, k, t.net)
      BY <1>3, <2>2, <3>1, LastKept
    <3> QED  BY <1>5, <2>2, <3>2
  <2>3. CASE line.cat # "NET" /\ ~t.explicitNet
    <3>1. \A i \in 1 .. k - 1 : lines[i].cat # "NET"
      BY <2>3 DEF Stands
    <3> QED  BY <1>3, <1>5, <2>3, <3>1
  <2> QED  BY <2>1, <2>2, <2>3
<1> HIDE DEF u
<1> QED  BY <1>1, <1>6, <1>7, <1>8 DEF Stands, u

LEMMA FoldStands ==
  ASSUME NEW n, NEW lines, Bill(lines, n)
  PROVE  Stands(Seqs!FoldLeft(AddLine, NoTotals, lines), lines, n)
<1>0. n \in Nat
  BY DEF Bill
<1>1. PICK r : Follows(r, lines, n) /\ r[n] = Seqs!FoldLeft(AddLine, NoTotals, lines)
  BY FoldFollows DEF Bill
<1> DEFINE G == {k \in Nat : k <= n => Stands(r[k], lines, k)}
<1>2. 0 \in G
  <2>1. NoTotals \in Running /\ ~NoTotals.explicitGross /\ ~NoTotals.explicitNet
        /\ NoTotals.deduction = 0 /\ NoTotals.gross = 0
    BY DEF NoTotals, Running
  <2>2. Stands(NoTotals, lines, 0)
    BY <2>1, SumToZero DEF Stands
  <2> QED  BY <1>1, <2>2 DEF Follows
<1>3. ASSUME NEW k \in Nat, k \in G PROVE k + 1 \in G
  <2> SUFFICES ASSUME k + 1 <= n PROVE Stands(r[k + 1], lines, k + 1)
    OBVIOUS
  <2>1. k + 1 \in 1 .. n /\ (k + 1) - 1 = k /\ Stands(r[k], lines, k)
    BY <1>0, <1>3
  <2>2. r[k + 1] = AddLine(r[k], lines[k + 1])
    BY <1>1, <2>1 DEF Follows
  <2> QED  BY <2>1, <2>2, StandsNext
<1>4. Nat \subseteq G
  <2> HIDE DEF G
  <2> QED  BY <1>2, <1>3, Induction
<1> QED  BY <1>0, <1>1, <1>4

\* The totals are those of the categories.
LEMMA TotalsOf ==
  ASSUME NEW n, NEW lines, Bill(lines, n)
  PROVE  LET Has(cat) == \E i \in 1 .. n : lines[i].cat = cat
             slip == Totals(lines)
         IN  /\ slip.gross = IF Has("GROSS") THEN LastOf("GROSS", lines)
                             ELSE SumOf({"BASIC", "ALLOWANCE"}, lines)
             /\ slip.deduction = SumOf({"DEDUCTION"}, lines)
             /\ slip.net = IF Has("NET") THEN LastOf("NET", lines)
                           ELSE slip.gross - slip.deduction
<1> DEFINE all == Seqs!FoldLeft(AddLine, NoTotals, lines)
<1>1. Stands(all, lines, n)
  BY FoldStands
<1>2. /\ Totals(lines).gross = all.gross /\ Totals(lines).deduction = all.deduction
      /\ Totals(lines).net = IF all.explicitNet THEN all.net
                             ELSE all.gross - all.deduction
  BY DEF Totals
<1> HIDE DEF all
<1>3. all.gross = IF \E i \in 1 .. n : lines[i].cat = "GROSS" THEN LastOf("GROSS", lines)
                  ELSE SumOf({"BASIC", "ALLOWANCE"}, lines)
  <2>1. CASE all.explicitGross
    <3>1. LastAt("GROSS", lines, n, all.gross)
      BY <1>1, <2>1 DEF Stands
    <3> QED  BY <3>1, LastOfAll DEF LastAt
  <2>2. CASE ~all.explicitGross
    BY <1>1, <2>2, SumOfAll DEF Stands
  <2> QED  BY <2>1, <2>2
<1>4. all.deduction = SumOf({"DEDUCTION"}, lines)
  BY <1>1, SumOfAll DEF Stands
<1>5. CASE all.explicitNet
  <2>1. LastAt("NET", lines, n, all.net)
    BY <1>1, <1>5 DEF Stands
  <2>2. LastOf("NET", lines) = all.net /\ \E i \in 1 .. n : lines[i].cat = "NET"
    BY <2>1, LastOfAll DEF LastAt
  <2> QED  BY <1>2, <1>3, <1>4, <1>5, <2>2
<1>6. CASE ~all.explicitNet
  <2>1. \A i \in 1 .. n : lines[i].cat # "NET"
    BY <1>1, <1>6 DEF Stands
  <2> QED  BY <1>2, <1>3, <1>4, <1>6, <2>1
<1> QED  BY <1>5, <1>6

LEMMA DaysType ==
  ASSUME TypeOK, Few, NEW e, NEW day
  PROVE  WholeDays(Aggregate(e, day, day).halves) \in Int
<1>1. IsFiniteSet(Records_(e, day, day)) /\ IntValued(HalvesOf, Records_(e, day, day))
  BY CountedRows
<1>2. Aggregate(e, day, day).halves \in Int
  BY <1>1, HalvesTotal, TotalType
<1> QED  BY <1>2 DEF WholeDays

\* What a payslip is calculated from.
LEMMA BillOf ==
  ASSUME TypeOK, Few, NEW e \in Employees, NEW wage \in Wages,
         NEW rules \in RuleLists, NEW day \in Dates
  PROVE  LET lines == Calculate(rules, wage, WholeDays(Aggregate(e, day, day).halves))
         IN  /\ Bill(lines, Len(rules)) /\ DOMAIN rules = 1 .. Len(rules)
             /\ \A i \in 1 .. Len(rules) : lines[i].cat = rules[i].cat
<1> DEFINE days == WholeDays(Aggregate(e, day, day).halves)
<1>2. days \in Int
  BY DaysType
<1>3. rules \in Seq(Rule) /\ wage \in Nat
  BY PayslipsAssumption
<1> HIDE DEF days
<1>4. DOMAIN rules = 1 .. Len(rules) /\ Len(rules) \in Nat
  BY <1>3
<1>5. LET lines == Calculate(rules, wage, days)
      IN  /\ DOMAIN lines = 1 .. Len(rules)
          /\ \A i \in 1 .. Len(rules) : lines[i] \in Line /\ lines[i].cat = rules[i].cat
  BY <1>2, <1>3, LineType
<1> QED  BY <1>4, <1>5 DEF Bill, days

LEMMA Categorised == TypeOK /\ Few => TotalsByCategory
<1> SUFFICES ASSUME TypeOK, Few, NEW e \in Employees, NEW wage \in Wages,
                    NEW rules \in RuleLists, NEW day \in Dates
             PROVE  TotalsByCategory!2!(e, wage, rules, day)
  BY DEF TotalsByCategory
<1> DEFINE lines == Calculate(rules, wage, WholeDays(Aggregate(e, day, day).halves))
<1>1. /\ Bill(lines, Len(rules)) /\ DOMAIN rules = 1 .. Len(rules)
      /\ \A i \in 1 .. Len(rules) : lines[i].cat = rules[i].cat
  BY BillOf
<1>2. Payslip(e, day, day, wage, rules) = Totals(lines)
  BY DEF Payslip
<1> HIDE DEF lines
<1>3. \A cat : HasCategory(cat, rules) <=> \E i \in 1 .. Len(rules) : lines[i].cat = cat
  BY <1>1 DEF HasCategory
<1>4. LET slip == Totals(lines)
      IN  /\ slip.gross = IF HasCategory("GROSS", rules) THEN LastOf("GROSS", lines)
                          ELSE SumOf({"BASIC", "ALLOWANCE"}, lines)
          /\ slip.deduction = SumOf({"DEDUCTION"}, lines)
          /\ slip.net = IF HasCategory("NET", rules) THEN LastOf("NET", lines)
                        ELSE slip.gross - slip.deduction
  BY <1>1, <1>3, TotalsOf
<1> QED  BY <1>2, <1>4 DEF lines

\* Whatever the rules and in whatever order: the totals that the loop of the
\* payslip calculation keeps are those of a reference that looks at the
\* categories only.
THEOREM TotalsAreByCategory == Spec => []TotalsByCategory
  BY FiniteRows, Categorised, PTL

LEMMA Previewed == TypeOK /\ Few => PreviewAgrees
<1> SUFFICES ASSUME TypeOK, Few, NEW e \in Employees, NEW wage \in Wages,
                    NEW rules \in RuleLists, NEW day \in Dates
             PROVE  PreviewAgrees!2!(e, wage, rules, day)
  BY DEF PreviewAgrees
<1> DEFINE lines == Calculate(rules, wage, WholeDays(Aggregate(e, day, day).halves))
           slip == Totals(lines)
           gross == OrElse(LastOf("GROSS", lines), SumOf({"BASIC", "ALLOWANCE"}, lines))
           net == OrElse(LastOf("NET", lines), gross - SumOf({"DEDUCTION"}, lines))
<1>1. /\ Bill(lines, Len(rules)) /\ DOMAIN rules = 1 .. Len(rules)
      /\ \A i \in 1 .. Len(rules) : lines[i].cat = rules[i].cat
  BY BillOf
<1>2. /\ Payslip(e, day, day, wage, rules) = slip
      /\ Preview(e, day, day, wage, rules) = [gross |-> gross, net |-> net]
  BY DEF Payslip, Preview
<1> HIDE DEF lines
<1>3. \A cat : HasCategory(cat, rules) <=> \E i \in 1 .. Len(rules) : lines[i].cat = cat
  BY <1>1 DEF HasCategory
<1>4. /\ slip.gross = IF HasCategory("GROSS", rules) THEN LastOf("GROSS", lines)
                      ELSE SumOf({"BASIC", "ALLOWANCE"}, lines)
      /\ slip.deduction = SumOf({"DEDUCTION"}, lines)
      /\ slip.net = IF HasCategory("NET", rules) THEN LastOf("NET", lines)
                    ELSE slip.gross - slip.deduction
  BY <1>1, <1>3, TotalsOf
<1>5. \A cat : ~HasCategory(cat, rules) => LastOf(cat, lines) = 0
  BY <1>1, <1>3, LastOfNone DEF Bill
<1> HIDE DEF slip
<1>6. SUFFICES ASSUME \A cat \in {"GROSS", "NET"} :
                         HasCategory(cat, rules) => LastOf(cat, lines) # 0
               PROVE  slip.gross = gross /\ slip.net = net
  BY <1>2 DEF lines
<1>7. slip.gross = gross
  BY <1>4, <1>5, <1>6 DEF OrElse
<1>8. slip.net = net
  BY <1>4, <1>5, <1>6, <1>7 DEF OrElse
<1> QED  BY <1>7, <1>8

\* The preview of a structure shows what the payslip will have, whatever the
\* rules, unless a GROSS or NET rule comes to zero.
THEOREM PreviewTellsThePayslip == Spec => []PreviewAgrees
  BY FiniteRows, Previewed, PTL
-----------------------------------------------------------------------------
(* Shares of the wage *)

\* Rounding moves an amount by half a cent at most.
LEMMA PercentRounds ==
  ASSUME NEW n \in Nat, NEW base \in Nat
  PROVE  /\ Percent(n, base) \in Int
         /\ 2 * (base * n) - 100 <= 200 * Percent(n, base)
         /\ 200 * Percent(n, base) <= 2 * (base * n) + 100
<1>1. base * n \in Nat /\ base * n * 2 + 100 = 2 * (base * n) + 100
  OBVIOUS
<1>2. \A x \in Int : /\ x \div 200 \in Int /\ 200 * (x \div 200) <= x
                     /\ x <= 200 * (x \div 200) + 199
  OBVIOUS
<1> DEFINE y == base * n
<1>3. Percent(n, base) = (2 * y + 100) \div 200
  BY <1>1 DEF Percent
<1> HIDE DEF y
<1>4. y \in Nat
  BY <1>1 DEF y
<1>5. 2 * y + 100 \in Int
  BY <1>4
<1> QED  BY <1>2, <1>3, <1>4, <1>5 DEF y

LEMMA Distributes == \A a, b, c \in Int : a * (b + c) = a * b + a * c /\ a * b \in Int
  OBVIOUS

\* The percentages of the first k deductions.
PercentOf(rest) == [i \in DOMAIN rest |-> rest[i].n]
PercentTo(rest, k) == Total(PercentOf(rest), 1 .. k)

LEMMA PercentToNext ==
  ASSUME NEW m \in Nat, NEW rest, DOMAIN rest = 1 .. m,
         \A i \in 1 .. m : rest[i].n \in Nat, NEW k \in 0 .. m
  PROVE  /\ PercentTo(rest, k) \in Int
         /\ k = 0 => PercentTo(rest, k) = 0
         /\ k # 0 => PercentTo(rest, k) = PercentTo(rest, k - 1) + rest[k].n
<1> DEFINE S == 1 .. k
           f == PercentOf(rest)
<1>0. k \in Int /\ k - 1 \in Int /\ 1 .. k \subseteq 1 .. m /\ 1 .. (k - 1) \subseteq 1 .. m
  OBVIOUS
<1>1. \A i \in 1 .. m : f[i] = rest[i].n /\ f[i] \in Int
  BY DEF PercentOf
<1>2. IsFiniteSet(S) /\ IntValued(f, S)
  BY <1>0, <1>1, FS_Interval DEF IntValued
<1>3. Total(f, S) \in Int
  BY <1>2, TotalType
<1>4. CASE k = 0
  <2>1. S = {}
    BY <1>4
  <2> QED  BY <1>4, <2>1, TotalEmpty DEF PercentTo
<1>5. CASE k # 0
  <2>1. k \in S /\ S \ {k} = 1 .. (k - 1)
    BY <1>5
  <2> DEFINE T == 1 .. (k - 1)
  <2>2. IsFiniteSet(T) /\ IntValued(f, T)
    <3>1. IsFiniteSet(T)
      BY <1>0, FS_Interval
    <3>2. \A i \in T : f[i] \in Int
      <4> HIDE DEF f
      <4> QED  BY <1>0, <1>1
    <3> QED  BY <3>1, <3>2 DEF IntValued
  <2> HIDE DEF S, f, T
  <2>3. Total(f, S) = f[k] + Total(f, S \ {k})
    BY <1>2, <2>1, TotalTake
  <2>4. Total(f, T) \in Int
    BY <2>2, TotalType
  <2>5. f[k] = rest[k].n /\ f[k] \in Int
    BY <1>0, <1>1, <2>1 DEF S
  <2>6. Total(f, S) = Total(f, T) + rest[k].n
    <3>1. S \ {k} = T
      BY <2>1 DEF T
    <3>2. Total(f, S) = f[k] + Total(f, T)
      BY <2>3, <3>1, Zenon
    <3> QED  BY <2>4, <2>5, <3>2
  <2>7. PercentTo(rest, k) = Total(f, S) /\ PercentTo(rest, k - 1) = Total(f, T)
    BY DEF PercentTo, S, T, f
  <2> QED  BY <1>3, <1>5, <2>6, <2>7
<1> QED  BY <1>4, <1>5

LEMMA PercentAll ==
  ASSUME NEW m \in Nat, NEW rest, DOMAIN rest = 1 .. m, \A i \in 1 .. m : rest[i].n \in Nat
  PROVE  Sets!MapThenSumSet(LAMBDA i : rest[i].n, DOMAIN rest) = PercentTo(rest, m)
<1> DEFINE S == DOMAIN rest
           f == PercentOf(rest)
           Body(g) == [T \in SUBSET S |-> IF T = {} THEN 0
               ELSE rest[CHOOSE x \in T : TRUE].n + g[T \ {CHOOSE x \in T : TRUE}]]
           k == CHOOSE k : k = Body(k)
<1>1. IsFiniteSet(S) /\ IntValued(f, S) /\ \A i \in S : f[i] = rest[i].n
  BY FS_Interval DEF IntValued, PercentOf
<1>2. Sets!MapThenSumSet(LAMBDA i : rest[i].n, DOMAIN rest) = k[S]
  BY DEF Sets!MapThenSumSet, Sets!MapThenFoldSet
<1> HIDE DEF S, f
<1>3. \A g : Accumulates(g, f, S) <=> g = Body(g)
  <2> SUFFICES ASSUME NEW T \in SUBSET S, T # {}
               PROVE  f[CHOOSE x \in T : TRUE] = rest[CHOOSE x \in T : TRUE].n
    BY DEF Accumulates, Chosen
  <2> QED  BY <1>1
<1> HIDE DEF Body
<1>4. \E g : g = Body(g)
  BY <1>1, <1>3, SumExists
<1>5. k = Body(k)
  BY <1>4
<1> HIDE DEF k
<1>6. k[S] = Total(f, S)
  BY <1>1, <1>3, <1>5, TotalAccumulates
<1> QED  BY <1>2, <1>6 DEF PercentTo, S, f

\* The first line is the wage, those after it percentages of it.
Shared(lines, rest, wage) ==
    LET m == Len(rest)
    IN  /\ m \in Nat /\ DOMAIN rest = 1 .. m /\ \A i \in 1 .. m : rest[i].n \in Nat
        /\ Bill(lines, m + 1) /\ wage \in Nat
        /\ lines[1].cat = "BASIC" /\ lines[1].amount = wage
        /\ \A i \in 1 .. m : /\ lines[i + 1].cat = "DEDUCTION"
                             /\ lines[i + 1].amount = Percent(rest[i].n, wage)

\* After k deductions: the sum of the amounts is within half a cent for each
\* of what the sum of the percentages makes.
Close(lines, rest, wage, k) ==
    LET d == SumTo({"DEDUCTION"}, lines, k + 1)
        p == wage * PercentTo(rest, k)
    IN  /\ 2 * p - 100 * k <= 200 * d /\ 200 * d <= 2 * p + 100 * k
        /\ SumTo({"BASIC", "ALLOWANCE"}, lines, k + 1) = wage

LEMMA CloseFirst ==
  ASSUME NEW lines, NEW rest, NEW wage, Shared(lines, rest, wage)
  PROVE  Close(lines, rest, wage, 0)
<1> DEFINE m == Len(rest)
<1>1. m \in Nat /\ Bill(lines, m + 1) /\ wage \in Nat /\ 1 \in 1 .. m + 1 /\ 0 \in 0 .. m
  BY DEF Shared
<1>2. PercentTo(rest, 0) = 0
  BY <1>1, PercentToNext DEF Shared
<1>3. \A cats : SumTo(cats, lines, 1) = IF "BASIC" \in cats THEN wage ELSE 0
  <2> TAKE cats
  <2>1. SumTo(cats, lines, 1) = SumTo(cats, lines, 0)
             + (IF lines[1].cat \in cats THEN lines[1].amount ELSE 0)
    BY <1>1, SumToNext
  <2> QED  BY <1>1, <2>1, SumToZero DEF Shared
<1>4. SumTo({"DEDUCTION"}, lines, 1) = 0 /\ SumTo({"BASIC", "ALLOWANCE"}, lines, 1) = wage
  BY <1>3
<1>5. wage * 0 = 0 /\ 0 + 1 = 1
  BY <1>1
<1> QED  BY <1>2, <1>4, <1>5 DEF Close

LEMMA CloseNext ==
  ASSUME NEW lines, NEW rest, NEW wage, Shared(lines, rest, wage),
         NEW k \in Nat, k + 1 <= Len(rest), Close(lines, rest, wage, k)
  PROVE  Close(lines, rest, wage, k + 1)
<1> DEFINE m == Len(rest)
           n == rest[k + 1].n
           d == SumTo({"DEDUCTION"}, lines, k + 1)
           e == SumTo({"DEDUCTION"}, lines, (k + 1) + 1)
           p == PercentTo(rest, k)
           q == PercentTo(rest, k + 1)
           x == Percent(n, wage)
<1>1. /\ m \in Nat /\ Bill(lines, m + 1) /\ wage \in Nat
      /\ k + 1 \in 1 .. m /\ k + 1 \in 0 .. m /\ k + 1 # 0 /\ (k + 1) - 1 = k /\ k \in 0 .. m
      /\ (k + 1) + 1 \in 1 .. m + 1 /\ ((k + 1) + 1) - 1 = k + 1 /\ k + 1 \in 0 .. m + 1
  BY DEF Shared
<1>2. n \in Nat /\ lines[(k + 1) + 1].cat = "DEDUCTION" /\ lines[(k + 1) + 1].amount = x
  BY <1>1 DEF Shared
<1>3. /\ x \in Int
      /\ 2 * (wage * n) - 100 <= 200 * x /\ 200 * x <= 2 * (wage * n) + 100
  BY <1>1, <1>2, PercentRounds
<1>4. p \in Int /\ q = p + n
  <2>1. m \in Nat /\ DOMAIN rest = 1 .. m /\ \A i \in 1 .. m : rest[i].n \in Nat
    BY DEF Shared
  <2> QED  BY <1>1, <2>1, PercentToNext
<1>5. /\ e = d + x /\ d \in Int
      /\ SumTo({"BASIC", "ALLOWANCE"}, lines, (k + 1) + 1) =
            SumTo({"BASIC", "ALLOWANCE"}, lines, k + 1) + 0
  <2>1. \A cats : SumTo(cats, lines, (k + 1) + 1) = SumTo(cats, lines, k + 1)
             + (IF lines[(k + 1) + 1].cat \in cats THEN lines[(k + 1) + 1].amount ELSE 0)
    BY <1>1, SumToNext
  <2>2. d \in Int
    BY <1>1, SumToType
  <2> QED  BY <1>2, <2>1, <2>2
<1>6. /\ 2 * (wage * p) - 100 * k <= 200 * d /\ 200 * d <= 2 * (wage * p) + 100 * k
      /\ SumTo({"BASIC", "ALLOWANCE"}, lines, k + 1) = wage
  BY DEF Close
<1>7. wage * q = wage * p + wage * n /\ wage * p \in Int /\ wage * n \in Int
  BY <1>1, <1>2, <1>4, Distributes
<1> DEFINE u == wage * p
           v == wage * n
<1> HIDE DEF u, v, d, e, p, q, n, x
<1>8. /\ 2 * (u + v) - 100 * (k + 1) <= 200 * e /\ 200 * e <= 2 * (u + v) + 100 * (k + 1)
  <2>1. /\ 2 * v - 100 <= 200 * x /\ 200 * x <= 2 * v + 100
        /\ 2 * u - 100 * k <= 200 * d /\ 200 * d <= 2 * u + 100 * k
    BY <1>3, <1>6 DEF u, v
  <2>2. u \in Int /\ v \in Int /\ x \in Int /\ d \in Int /\ e = d + x
    BY <1>3, <1>5, <1>7 DEF u, v
  <2> QED  BY <2>1, <2>2
<1>9. SumTo({"BASIC", "ALLOWANCE"}, lines, (k + 1) + 1) = wage
  BY <1>1, <1>5, <1>6
<1>10. wage * q = u + v
  BY <1>7 DEF u, v
<1> QED  BY <1>8, <1>9, <1>10 DEF Close, e, q

LEMMA CloseAll ==
  ASSUME NEW lines, NEW rest, NEW wage, Shared(lines, rest, wage)
  PROVE  Close(lines, rest, wage, Len(rest))
<1> DEFINE G == {k \in Nat : k <= Len(rest) => Close(lines, rest, wage, k)}
<1>1. Len(rest) \in Nat
  BY DEF Shared
<1>2. 0 \in G
  BY CloseFirst
<1>3. ASSUME NEW k \in Nat, k \in G PROVE k + 1 \in G
  <2> SUFFICES ASSUME k + 1 <= Len(rest) PROVE Close(lines, rest, wage, k + 1)
    OBVIOUS
  <2>1. Close(lines, rest, wage, k)
    BY <1>1, <1>3
  <2> QED  BY <2>1, CloseNext
<1>4. Nat \subseteq G
  <2> HIDE DEF G
  <2> QED  BY <1>2, <1>3, Induction
<1> QED  BY <1>1, <1>4

\* Shares that make up the whole leave no more than what their rounding adds.
LEMMA SharesLeave ==
  ASSUME NEW lines, NEW rest, NEW wage, Shared(lines, rest, wage),
         PercentTo(rest, Len(rest)) = 100
  PROVE  Totals(lines).net * 2 \in -Len(rest) .. Len(rest)
<1> DEFINE m == Len(rest)
           d == SumTo({"DEDUCTION"}, lines, m + 1)
<1>1. m \in Nat /\ Bill(lines, m + 1) /\ wage \in Nat
  BY DEF Shared
<1>2. Close(lines, rest, wage, m)
  BY CloseAll
<1>3. \A i \in 1 .. m + 1 : lines[i].cat \in {"BASIC", "DEDUCTION"}
  <2> TAKE i \in 1 .. m + 1
  <2>1. CASE i = 1
    BY <2>1 DEF Shared
  <2>2. CASE i # 1
    <3>1. PICK j \in 1 .. m : i = j + 1
      <4>1. i - 1 \in 1 .. m /\ i = (i - 1) + 1
        BY <1>1, <2>2
      <4> QED  BY <4>1
    <3> QED  BY <3>1 DEF Shared
  <2> QED  BY <2>1, <2>2
<1>4. /\ Totals(lines).net = Totals(lines).gross - Totals(lines).deduction
      /\ Totals(lines).gross = SumOf({"BASIC", "ALLOWANCE"}, lines)
      /\ Totals(lines).deduction = SumOf({"DEDUCTION"}, lines)
  BY <1>1, <1>3, TotalsOf
<1>5. m + 1 \in 0 .. m + 1
  BY <1>1
<1>6. d \in Int
  BY <1>1, <1>5, SumToType
<1>7. Totals(lines).net = wage - d
  BY <1>1, <1>2, <1>4, SumOfAll DEF Close
<1>8. 2 * (wage * 100) - 100 * m <= 200 * d /\ 200 * d <= 2 * (wage * 100) + 100 * m
  BY <1>2 DEF Close
<1> HIDE DEF m, d
<1>9. (wage - d) * 2 \in -m .. m
  BY <1>1, <1>6, <1>8
<1> QED  BY <1>7, <1>9 DEF m

LEMMA SharedOf ==
  ASSUME NEW rules \in Seq(Rule), rules # <<>>, NEW wage \in Nat, NEW days \in Int,
         Bill(Calculate(rules, wage, days), Len(rules)),
         rules[1] = [cat |-> "BASIC", how |-> "WAGE", n |-> 0],
         \A i \in DOMAIN Tail(rules) : /\ Tail(rules)[i].cat = "DEDUCTION"
                                       /\ Tail(rules)[i].how = "PERCENTAGE"
  PROVE  Shared(Calculate(rules, wage, days), Tail(rules), wage)
<1> DEFINE rest == Tail(rules)
           m == Len(rest)
           lines == Calculate(rules, wage, days)
<1>1. /\ m \in Nat /\ Len(rules) = m + 1 /\ DOMAIN rules = 1 .. m + 1
      /\ DOMAIN rest = 1 .. m /\ \A i \in 1 .. m : rest[i] = rules[i + 1]
  OBVIOUS
<1>2. \A i \in 1 .. m + 1 : rules[i] \in Rule
  BY <1>1
<1>3. \A i \in 1 .. m : rest[i].n \in Nat /\ i + 1 \in 1 .. m + 1
  BY <1>1, <1>2 DEF Rule
<1>4. Amount(rules[1], 0, wage, days) = wage
  BY DEF Amount
<1>5. \A i \in 1 .. m + 1 : /\ lines[i].cat = rules[i].cat
                            /\ lines[i].amount = Amount(rules[i], wage, wage, days)
  BY <1>1, <1>4 DEF Calculate
<1>6. lines[1].cat = "BASIC" /\ lines[1].amount = wage
  <2>1. 1 \in 1 .. m + 1
    BY <1>1
  <2>2. Amount(rules[1], wage, wage, days) = wage
    BY DEF Amount
  <2> QED  BY <1>5, <2>1, <2>2
<1>7. \A i \in 1 .. m : /\ lines[i + 1].cat = "DEDUCTION"
                        /\ lines[i + 1].amount = Percent(rest[i].n, wage)
  <2> TAKE i \in 1 .. m
  <2>1. rest[i].cat = "DEDUCTION" /\ rest[i].how = "PERCENTAGE" /\ rest[i] = rules[i + 1]
    BY <1>1
  <2>2. Amount(rules[i + 1], wage, wage, days) = Percent(rest[i].n, wage)
    BY <2>1 DEF Amount
  <2> QED  BY <1>3, <1>5, <2>1, <2>2
<1>8. Bill(lines, m + 1)
  BY <1>1
<1> HIDE DEF lines, rest
<1> QED  BY <1>1, <1>3, <1>6, <1>7, <1>8 DEF Shared, lines, rest

LEMMA Sharing == TypeOK /\ Few => SharesFit
<1> SUFFICES ASSUME TypeOK, Few, NEW e \in Employees, NEW wage \in Wages,
                    NEW rules \in RuleLists, NEW day \in Dates,
                    rules # <<>>,
                    rules[1] = [cat |-> "BASIC", how |-> "WAGE", n |-> 0],
                    \A i \in DOMAIN Tail(rules) :
                        /\ Tail(rules)[i].cat = "DEDUCTION"
                        /\ Tail(rules)[i].how = "PERCENTAGE",
                    Sets!MapThenSumSet(LAMBDA i : Tail(rules)[i].n, DOMAIN Tail(rules)) = 100
             PROVE  Payslip(e, day, day, wage, rules).net * 2
                       \in -Len(Tail(rules)) .. Len(Tail(rules))
  BY DEF SharesFit
<1> DEFINE days == WholeDays(Aggregate(e, day, day).halves)
           rest == Tail(rules)
<1>1. days \in Int
  BY DaysType
<1>2. rules \in Seq(Rule) /\ wage \in Nat
  BY PayslipsAssumption
<1>3. Bill(Calculate(rules, wage, days), Len(rules))
  BY BillOf
<1>4. Payslip(e, day, day, wage, rules) = Totals(Calculate(rules, wage, days))
  BY DEF Payslip
<1> HIDE DEF days
<1>5. Shared(Calculate(rules, wage, days), rest, wage)
  BY <1>1, <1>2, <1>3, SharedOf
<1>6. PercentTo(rest, Len(rest)) = 100
  <2> HIDE DEF rest
  <2>1. Len(rest) \in Nat /\ DOMAIN rest = 1 .. Len(rest) /\ \A i \in 1 .. Len(rest) : rest[i].n \in Nat
    BY <1>5 DEF Shared
  <2>2. Sets!MapThenSumSet(LAMBDA i : rest[i].n, DOMAIN rest) = PercentTo(rest, Len(rest))
    BY <2>1, PercentAll
  <2> QED  BY <2>2 DEF rest
<1> QED  BY <1>4, <1>5, <1>6, SharesLeave

\* Deductions that together are the whole of the wage leave, of however many
\* rules and whatever wage, at most half a cent for each of them.
THEOREM SharesFitTheWage == Spec => []SharesFit
  BY FiniteRows, Sharing, PTL
=============================================================================
