-------------------------- MODULE OrganisationProofs --------------------------
(***************************************************************************)
(* Theorems about Organisation, for any number of units, employees,        *)
(* accounts and overlapping requests.  The argument: whoever is not in     *)
(* missed still has the ground its decision rests on when it commits.      *)
(***************************************************************************)
EXTENDS Organisation, TLAPS

\* What a session with something to write has in hand.
Holds(s) ==
    LET v == view[s]
    IN  /\ pc[s] = "retire" => v.unit \in Departments \cup Positions
        /\ pc[s] = "hire"   => v.set \in Row
        /\ pc[s] = "patch"  => v.emp \in Hired /\ IsPatch(v.set)
        /\ pc[s] = "link"   => v.emp \in Hired /\ v.acc \in Accounts
        /\ pc[s] = "unlink" => v.emp \in Hired /\ v.acc \in Accounts

HeldRows == \A s \in Sessions : Holds(s)

\* A session not in missed still has its ground.
Grounded == \A s \in Sessions \ missed : pc[s] # "idle" => Ground(s)

\* Accounts are linked to employees there are, no two to the same.
Linked == /\ \A a \in Accounts : account[a] \in Employees => account[a] \in Hired
          /\ \A a, b \in Accounts :
                account[a] \in Employees /\ account[a] = account[b] => a = b

Inv == TypeOK /\ HeldRows /\ Grounded /\ Linked
-----------------------------------------------------------------------------
LEMMA NoRowKind == NoRow \notin Row
  BY DEF NoRow, Row, Status

LEMMA NoViewType == NoView \in View
  BY DEF NoView, View

LEMMA Keys ==
  /\ None \notin Units /\ None \notin Employees /\ None \notin Accounts
  /\ Absent \notin Employees /\ Absent # None
  BY OrganisationAssumption

LEMMA HiredRow ==
  ASSUME TypeOK, NEW e \in Employees
  PROVE  e \in Hired <=> employee[e] \in Row
  BY NoRowKind DEF TypeOK, Hired

\* The units of a row.
LEMMA RowUnits ==
  ASSUME NEW row \in Row
  PROVE  /\ UnitsOf(row) = {row.dept, row.pos, row.sched} \ {None}
         /\ UnitsOf(row) \subseteq Units
<1>1. /\ DOMAIN row = {"status", "dept", "pos", "sched"}
      /\ row.dept \in Departments /\ row.pos \in Positions
      /\ row.sched \in Schedules \cup {None}
  BY DEF Row
<1>2. DOMAIN row \cap {"dept", "pos", "sched"} = {"dept", "pos", "sched"}
  BY <1>1
<1>3. UnitsOf(row) = {row.dept, row.pos, row.sched} \ {None}
  BY <1>2 DEF UnitsOf
<1>4. QED
  BY <1>1, <1>3 DEF Units

\* The row an UPDATE leaves.
LEMMA FlushRow ==
  ASSUME NEW set, IsPatch(set), NEW now \in Row
  PROVE  Flush(set, now) \in Row
<1> DEFINE row == Flush(set, now)
<1>1. /\ DOMAIN now = Columns
      /\ \A col \in Columns : now[col] \in Values[col]
  BY DEF Row, Columns, Values
<1>2. row = [col \in Columns |-> IF col \in DOMAIN set THEN set[col] ELSE now[col]]
  BY <1>1 DEF Flush
<1>3. \A col \in Columns : row[col] \in Values[col]
  BY <1>1, <1>2 DEF IsPatch
<1>4. row = [status |-> row["status"], dept |-> row["dept"], pos |-> row["pos"],
             sched |-> row["sched"]]
  BY <1>2 DEF Columns
<1>5. QED
  BY <1>3, <1>4 DEF Row, Columns, Values

\* Units of the row an UPDATE leaves are of the change or were of the row.
LEMMA FlushUnits ==
  ASSUME NEW set, IsPatch(set), NEW now \in Row, NEW u \in Units,
         u \in {Flush(set, now).dept, Flush(set, now).pos, Flush(set, now).sched}
  PROVE  u \in UnitsOf(set) \/ u \in {now.dept, now.pos, now.sched}
<1>1. DOMAIN now = Columns
  BY DEF Row, Columns
<1>2. PICK col \in {"dept", "pos", "sched"} : u = Flush(set, now)[col]
  OBVIOUS
<1>3. u = IF col \in DOMAIN set THEN set[col] ELSE now[col]
  BY <1>1, <1>2 DEF Flush, Columns
<1>4. CASE col \in DOMAIN set
  BY <1>3, <1>4, Keys DEF UnitsOf
<1>5. CASE col \notin DOMAIN set
  BY <1>3, <1>5
<1>6. QED
  BY <1>4, <1>5
-----------------------------------------------------------------------------
(* Grounds *)

\* What goes on without the other sessions leaves them grounded.
LEMMA OthersGrounded ==
  ASSUME Grounded, NEW s, missed' = (missed \cup Misses) \ {s},
         \A t \in Sessions \ {s} : pc'[t] = pc[t] /\ view'[t] = view[t],
         s \in Sessions => pc'[s] = "idle"
  PROVE  Grounded'
<1> SUFFICES ASSUME NEW t \in Sessions, t \notin missed', pc'[t] # "idle"
             PROVE  Ground(t)'
  BY DEF Grounded
<1>1. t # s /\ t \notin missed /\ t \notin Misses
  OBVIOUS
<1>2. pc[t] # "idle" /\ Ground(t)
  BY <1>1 DEF Grounded
<1>3. QED
  BY <1>1, <1>2 DEF Misses

LEMMA GoOnGrounded ==
  ASSUME Grounded, GoOn
  PROVE  Grounded'
<1> SUFFICES ASSUME NEW t \in Sessions, t \notin missed', pc'[t] # "idle"
             PROVE  Ground(t)'
  BY DEF Grounded
<1>1. t \notin missed /\ t \notin Misses /\ pc[t] # "idle"
  BY DEF GoOn
<1>2. Ground(t)
  BY <1>1 DEF Grounded
<1>3. QED
  BY <1>1, <1>2 DEF Misses

LEMMA GoOnInv ==
  ASSUME Inv, GoOn,
         unit' \in [Units -> {"none", "active", "inactive", "deleted"}],
         employee' \in [Employees -> Row \cup {NoRow}],
         account' \in [Accounts -> Employees \cup {None, Absent}],
         \A e \in Hired : employee'[e] \in Row,
         Linked'
  PROVE  Inv'
<1>1. TypeOK'
  BY DEF Inv, TypeOK, GoOn, Misses
<1>2. HeldRows'
  <2>1. \A e \in Hired : e \in Hired'
    BY NoRowKind DEF Hired
  <2>2. ASSUME NEW s \in Sessions
        PROVE  Holds(s)'
    BY <2>1, <2>2 DEF GoOn, Inv, HeldRows, Holds
  <2>3. QED
    BY <2>2 DEF HeldRows
<1>3. QED
  BY <1>1, <1>2, GoOnGrounded DEF Inv

\* A step that only takes a decision.
LEMMA AwaitInv ==
  ASSUME Inv, NEW s \in Sessions,
         NEW step \in {"retire", "hire", "patch", "link", "unlink"},
         NEW v \in View, Await(s, step, v), Holds(s)', Ground(s)'
  PROVE  Inv'
<1>1. /\ pc' = [pc EXCEPT ![s] = step] /\ view' = [view EXCEPT ![s] = v]
      /\ UNCHANGED <<unit, employee, account, missed>>
  BY DEF Await
<1>2. \A t \in Sessions \ {s} : pc'[t] = pc[t] /\ view'[t] = view[t]
  BY <1>1 DEF Inv, TypeOK
<1>3. TypeOK'
  BY <1>1 DEF Inv, TypeOK
<1>4. HeldRows'
  BY <1>1, <1>2 DEF Inv, HeldRows, Holds, Hired
<1>5. Grounded'
  <2> SUFFICES ASSUME NEW t \in Sessions, t \notin missed', pc'[t] # "idle"
               PROVE  Ground(t)'
    BY DEF Grounded
  <2>1. CASE t = s
    BY <2>1
  <2>2. CASE t # s
    <3>1. Ground(t)
      BY <1>1, <1>2, <2>2 DEF Inv, Grounded
    <3>2. QED
      BY <1>1, <1>2, <2>2, <3>1 DEF Ground, Holders, Hired, IsActive
  <2>3. QED
    BY <2>1, <2>2
<1>6. Linked'
  BY <1>1 DEF Inv, Linked, Hired
<1>7. QED
  BY <1>3, <1>4, <1>5, <1>6 DEF Inv
-----------------------------------------------------------------------------
(* The invariant *)

LEMMA InitInv == Init => Inv
<1> SUFFICES ASSUME Init PROVE Inv
  OBVIOUS
<1>1. TypeOK
  BY NoViewType DEF Init, TypeOK
<1>2. HeldRows /\ Grounded
  BY DEF Init, HeldRows, Holds, Grounded
<1>3. Linked
  BY Keys DEF Init, Linked
<1>4. QED
  BY <1>1, <1>2, <1>3 DEF Inv

\* A change of units alone.
LEMMA UnitsInv ==
  ASSUME Inv, NEW u \in Units, NEW state \in {"active", "inactive"},
         unit' = [unit EXCEPT ![u] = state], UNCHANGED <<employee, account>>, GoOn
  PROVE  Inv'
<1>1. Linked'
  BY DEF Inv, Linked, Hired
<1>2. \A e \in Hired : employee'[e] \in Row
  BY HiredRow DEF Inv, Hired
<1>3. QED
  BY <1>1, <1>2, GoOnInv DEF Inv, TypeOK

LEMMA DeleteScheduleInv ==
  ASSUME Inv, NEW h \in Schedules, DeleteSchedule(h)
  PROVE  Inv'
<1>1. /\ unit' = [unit EXCEPT ![h] = "deleted"] /\ account' = account /\ GoOn
      /\ employee' = [e \in Employees |->
                        IF e \in Hired /\ employee[e].sched = h
                        THEN [employee[e] EXCEPT !.sched = None] ELSE employee[e]]
  BY DEF DeleteSchedule
<1>2. \A row \in Row : [row EXCEPT !.sched = None] \in Row
  BY DEF Row
<1>3. \A e \in Hired : employee'[e] \in Row
  BY <1>1, <1>2, HiredRow DEF Inv, Hired
<1>4. \A e \in Employees : employee'[e] \in Row \cup {NoRow}
  BY <1>1, <1>3 DEF Inv, TypeOK, Hired
<1>5. Linked'
  BY <1>1, <1>3, NoRowKind DEF Inv, Linked, Hired
<1>6. h \in Units
  BY DEF Units
<1>7. QED
  BY <1>1, <1>3, <1>4, <1>5, <1>6, GoOnInv DEF Inv, TypeOK

LEMMA RetireCheckInv ==
  ASSUME Inv, NEW s \in Sessions, NEW u \in Departments \cup Positions,
         RetireCheck(s, u)
  PROVE  Inv'
<1> DEFINE v == [NoView EXCEPT !.unit = u]
<1>1. Await(s, "retire", v) /\ Holders(u) = {}
  BY DEF RetireCheck
<1>2. v \in View /\ v.unit = u
  BY DEF NoView, View, Units
<1> HIDE DEF v
<1>3. pc'[s] = "retire" /\ view'[s] = v /\ employee' = employee
  BY <1>1 DEF Await, Inv, TypeOK
<1>4. Holds(s)'
  BY <1>2, <1>3 DEF Holds
<1>5. Ground(s)'
  BY <1>1, <1>2, <1>3 DEF Ground, Holders, Hired
<1>6. QED
  BY <1>1, <1>2, <1>4, <1>5, AwaitInv

\* Every request about units.
LEMMA MasterDataInv == Inv /\ MasterData => Inv'
<1> SUFFICES ASSUME Inv, MasterData PROVE Inv'
  OBVIOUS
<1>1. ASSUME NEW u \in Units, Create(u) PROVE Inv'
  BY <1>1, UnitsInv DEF Create
<1>2. ASSUME NEW u \in Units, NEW state \in States, SetActive(u, state) PROVE Inv'
  BY <1>2, UnitsInv DEF SetActive, States
<1>3. ASSUME NEW d \in Departments, NEW s \in Sessions, DeactivateDepartment(s, d)
      PROVE  Inv'
  BY <1>3, RetireCheckInv DEF DeactivateDepartment
<1>4. ASSUME NEW p \in Positions, NEW s \in Sessions, DeactivatePosition(s, p)
      PROVE  Inv'
  BY <1>4, RetireCheckInv DEF DeactivatePosition
<1>5. QED
  BY <1>1, <1>2, <1>3, <1>4, DeleteScheduleInv
     DEF MasterData, Units, CreateDepartment, CreatePosition, CreateSchedule,
         UpdateDepartment, UpdatePosition, UpdateSchedule

LEMMA CreateEmployeeInv ==
  ASSUME Inv, NEW s \in Sessions, NEW row \in Hires, NEW a \in Accounts \cup {None},
         CreateEmployee(s, row, a)
  PROVE  Inv'
<1> DEFINE v == [NoView EXCEPT !.set = row, !.acc = a]
<1>1. /\ Await(s, "hire", v)
      /\ \A u \in UnitsOf(row) : unit[u] = "active"
      /\ a # None => account[a] = None
  BY DEF CreateEmployee, Linkable, IsActive
<1>2. row \in Row
  BY OrganisationAssumption
<1>3. v \in View /\ v.set = row /\ v.acc = a
  BY <1>2 DEF NoView, View
<1> HIDE DEF v
<1>4. pc'[s] = "hire" /\ view'[s] = v /\ unit' = unit /\ account' = account
  BY <1>1 DEF Await, Inv, TypeOK
<1>5. Holds(s)'
  BY <1>2, <1>3, <1>4 DEF Holds
<1>6. Ground(s)'
  BY <1>1, <1>3, <1>4 DEF Ground, IsActive
<1>7. QED
  BY <1>1, <1>3, <1>5, <1>6, AwaitInv

\* What is left of a patch that only keeps the columns it changes.
LEMMA ChangeOfPatch ==
  ASSUME NEW patch \in Patches, NEW cols \in SUBSET (DOMAIN patch)
  PROVE  /\ IsPatch([col \in cols |-> patch[col]])
         /\ [col \in cols |-> patch[col]] \in Change
<1> DEFINE set == [col \in cols |-> patch[col]]
<1>1. \A col \in cols : col \in Columns /\ patch[col] \in Values[col]
  BY OrganisationAssumption DEF IsPatch
<1>2. IsPatch(set)
  BY <1>1 DEF IsPatch
<1>3. \A col \in Columns : Values[col] \subseteq Status \cup Units \cup {None}
  BY DEF Columns, Values, Units
<1>4. set \in [cols -> Status \cup Units \cup {None}]
  BY <1>1, <1>3
<1>5. cols \in SUBSET Columns
  BY <1>1
<1>6. QED
  BY <1>2, <1>4, <1>5 DEF Change

LEMMA UpdateEmployeeInv ==
  ASSUME Inv, NEW s \in Sessions, NEW e \in Employees, NEW patch \in Patches,
         UpdateEmployee(s, e, patch)
  PROVE  Inv'
<1> DEFINE cols == {col \in DOMAIN patch : patch[col] # employee[e][col]}
           set  == [col \in cols |-> patch[col]]
           v    == [NoView EXCEPT !.emp = e, !.set = set]
<1>1. e \in Hired /\ Admitted(employee[e], patch) /\ Await(s, "patch", v)
  BY DEF UpdateEmployee
<1>2. IsPatch(set) /\ set \in Change
  BY ChangeOfPatch
<1>3. employee[e] \in Row
  BY <1>1, HiredRow DEF Inv
<1>4. \A u \in UnitsOf(set) : unit[u] = "active"
  <2> SUFFICES ASSUME NEW u \in UnitsOf(set) PROVE unit[u] = "active"
    OBVIOUS
  <2>1. PICK col \in DOMAIN set \cap {"dept", "pos", "sched"} : u = set[col]
    BY DEF UnitsOf
  <2>2. col \in DOMAIN patch /\ u = patch[col] /\ patch[col] # employee[e][col]
    BY <2>1
  <2>3. QED
    BY <1>1, <2>1, <2>2 DEF Admitted, IsActive
<1> HIDE DEF set
<1>5. v \in View /\ v.set = set /\ v.emp = e
  BY <1>2 DEF NoView, View
<1> HIDE DEF v
<1>6. pc'[s] = "patch" /\ view'[s] = v /\ unit' = unit /\ employee' = employee
  BY <1>1 DEF Await, Inv, TypeOK
<1>7. Holds(s)'
  BY <1>1, <1>2, <1>5, <1>6 DEF Holds, Hired
<1>8. Ground(s)'
  BY <1>4, <1>5, <1>6 DEF Ground, IsActive
<1>9. QED
  BY <1>1, <1>5, <1>7, <1>8, AwaitInv

\* Linking and unlinking take their decisions alike.
LEMMA LinkageInv ==
  ASSUME Inv, NEW s \in Sessions, NEW e \in Hired, NEW a \in Accounts,
         NEW step \in {"link", "unlink"},
         account[a] = IF step = "link" THEN None ELSE e,
         Await(s, step, [NoView EXCEPT !.emp = e, !.acc = a])
  PROVE  Inv'
<1> DEFINE v == [NoView EXCEPT !.emp = e, !.acc = a]
<1>1. v \in View /\ v.emp = e /\ v.acc = a
  BY DEF NoView, View, Hired
<1>2. Await(s, step, v)
  OBVIOUS
<1> HIDE DEF v
<1>3. pc'[s] = step /\ view'[s] = v /\ account' = account /\ employee' = employee
  BY <1>2 DEF Await, Inv, TypeOK
<1>4. Holds(s)'
  BY <1>1, <1>3 DEF Holds, Hired
<1>5. Ground(s)'
  BY <1>1, <1>3 DEF Ground
<1>6. QED
  BY <1>1, <1>2, <1>4, <1>5, AwaitInv

LEMMA DeactivateEmployeeInv ==
  ASSUME Inv, NEW e \in Employees, DeactivateEmployee(e)
  PROVE  Inv'
<1>1. /\ e \in Hired /\ GoOn /\ UNCHANGED <<unit, account>>
      /\ employee' = [employee EXCEPT ![e].status = "TERMINATED"]
  BY DEF DeactivateEmployee
<1>2. \A row \in Row : [row EXCEPT !.status = "TERMINATED"] \in Row
  BY DEF Row, Status
<1>3. \A x \in Hired : employee'[x] \in Row
  BY <1>1, <1>2, HiredRow DEF Inv, TypeOK, Hired
<1>4. employee' \in [Employees -> Row \cup {NoRow}]
  BY <1>1, <1>3 DEF Inv, TypeOK, Hired
<1>5. Linked'
  BY <1>1, <1>3, NoRowKind DEF Inv, Linked, Hired
<1>6. QED
  BY <1>1, <1>3, <1>4, <1>5, GoOnInv DEF Inv, TypeOK

LEMMA CreateUserInv ==
  ASSUME Inv, NEW a \in Accounts, NEW link \in Employees \cup {None},
         CreateUser(a, link)
  PROVE  Inv'
<1>1. /\ account' = [account EXCEPT ![a] = link]
      /\ link # None => link \in Hired /\ Sole(link)
      /\ UNCHANGED <<unit, employee>> /\ GoOn
  BY DEF CreateUser
<1>2. Linked'
  BY <1>1, Keys DEF Inv, TypeOK, Linked, Sole, Hired
<1>3. \A x \in Hired : employee'[x] \in Row
  BY <1>1, HiredRow DEF Inv, Hired
<1>4. QED
  BY <1>1, <1>2, <1>3, GoOnInv DEF Inv, TypeOK

\* Every request about employees and accounts.
LEMMA StaffInv == Inv /\ Staff => Inv'
<1> SUFFICES ASSUME Inv, Staff PROVE Inv'
  OBVIOUS
<1>1. ASSUME NEW s \in Sessions, NEW e \in Employees, NEW a \in Accounts,
             LinkUser(s, e, a)
      PROVE  Inv'
  <2>1. e \in Hired /\ account[a] = None
        /\ Await(s, "link", [NoView EXCEPT !.emp = e, !.acc = a])
    BY <1>1 DEF LinkUser, Linkable
  <2>2. QED
    BY <2>1, LinkageInv
<1>2. ASSUME NEW s \in Sessions, NEW e \in Employees, UnlinkUser(s, e)
      PROVE  Inv'
  <2>1. PICK a \in Accounts :
          account[a] = e /\ Await(s, "unlink", [NoView EXCEPT !.emp = e, !.acc = a])
    BY <1>2 DEF UnlinkUser, UsersOf
  <2>2. e \in Hired
    BY <2>1 DEF Inv, Linked
  <2>3. QED
    BY <2>1, <2>2, LinkageInv
<1>3. QED
  BY <1>1, <1>2, CreateEmployeeInv, UpdateEmployeeInv, DeactivateEmployeeInv,
     CreateUserInv DEF Staff

\* A transaction that ends, whatever it has written.
LEMMA FinishedInv ==
  ASSUME Inv, NEW s \in Sessions,
         pc' = [pc EXCEPT ![s] = "idle"], view' = [view EXCEPT ![s] = NoView],
         missed' = (missed \cup Misses) \ {s},
         unit' \in [Units -> {"none", "active", "inactive", "deleted"}],
         employee' \in [Employees -> Row \cup {NoRow}],
         account' \in [Accounts -> Employees \cup {None, Absent}],
         \A e \in Hired : employee'[e] \in Row,
         Linked'
  PROVE  Inv'
<1>1. pc'[s] = "idle" /\ \A t \in Sessions \ {s} : pc'[t] = pc[t] /\ view'[t] = view[t]
  BY DEF Inv, TypeOK
<1>2. TypeOK'
  BY NoViewType DEF Inv, TypeOK, Misses
<1>3. HeldRows'
  <2>1. \A e \in Hired : e \in Hired'
    BY NoRowKind DEF Hired
  <2>2. ASSUME NEW t \in Sessions
        PROVE  Holds(t)'
    <3>1. CASE t = s
      BY <1>1, <3>1 DEF Holds
    <3>2. CASE t # s
      BY <1>1, <2>1, <3>2 DEF Inv, HeldRows, Holds
    <3>3. QED
      BY <3>1, <3>2
  <2>3. QED
    BY <2>2 DEF HeldRows
<1>4. Grounded'
  BY <1>1, OthersGrounded DEF Inv
<1>5. QED
  BY <1>2, <1>3, <1>4 DEF Inv

\* What each kind of transaction leaves in the tables.
LEMMA CommitTables ==
  ASSUME Inv, NEW s \in Sessions, Commit(s)
  PROVE  /\ unit' \in [Units -> {"none", "active", "inactive", "deleted"}]
         /\ employee' \in [Employees -> Row \cup {NoRow}]
         /\ account' \in [Accounts -> Employees \cup {None, Absent}]
         /\ \A e \in Hired : employee'[e] \in Row
         /\ Linked'
<1> USE DEF Inv
<1>1. \A e \in Hired : employee[e] \in Row
  BY HiredRow DEF Hired
<1>2. Holds(s)
  BY DEF HeldRows
<1>3. CASE Retire(s)
  BY <1>1, <1>2, <1>3 DEF Retire, TypeOK, Linked, Hired
<1>4. CASE Hire(s)
  <2>1. PICK e \in Employees \ Hired :
          /\ employee' = [employee EXCEPT ![e] = view[s].set]
          /\ account' = IF view[s].acc = None THEN account
                        ELSE [account EXCEPT ![view[s].acc] = e]
    BY <1>4 DEF Hire
  <2>2. unit' = unit /\ view[s].set \in Row
    BY <1>2, <1>4 DEF Hire, Holds
  <2>3. view[s].acc \in Accounts \cup {None}
    BY DEF TypeOK, View
  <2>4. \A x \in Hired : employee'[x] \in Row
    BY <1>1, <2>1, <2>2 DEF TypeOK, Hired
  <2>5. /\ employee' \in [Employees -> Row \cup {NoRow}]
        /\ account' \in [Accounts -> Employees \cup {None, Absent}]
    BY <2>1, <2>2, <2>3 DEF TypeOK
  <2>6. e \in Hired' /\ \A x \in Hired : x \in Hired'
    BY <2>1, <2>2, <2>4, NoRowKind DEF TypeOK, Hired
  <2>7. \A a \in Accounts : account[a] # e
    BY DEF Linked
  <2>8. \A a \in Accounts : account'[a] = account[a]
                            \/ (account'[a] = e /\ a = view[s].acc)
    BY <2>1, <2>3 DEF TypeOK
  <2>9. Linked'
    BY <2>6, <2>7, <2>8 DEF Linked
  <2>10. QED
    BY <2>2, <2>4, <2>5, <2>9 DEF TypeOK
<1>5. CASE Patch(s)
  <2>1. view[s].emp \in Hired /\ IsPatch(view[s].set)
    BY <1>2, <1>5 DEF Patch, Holds
  <2>2. Flush(view[s].set, employee[view[s].emp]) \in Row
    BY <1>1, <2>1, FlushRow
  <2>3. /\ employee' = [employee EXCEPT ![view[s].emp] =
                          Flush(view[s].set, employee[view[s].emp])]
        /\ UNCHANGED <<unit, account>>
    BY <1>5 DEF Patch
  <2>4. \A x \in Hired : employee'[x] \in Row
    BY <1>1, <2>1, <2>2, <2>3 DEF TypeOK, Hired
  <2>5. Linked'
    BY <2>3, <2>4, NoRowKind DEF Linked, Hired
  <2>6. QED
    BY <2>1, <2>2, <2>3, <2>4, <2>5 DEF TypeOK, Hired
<1>6. CASE Link(s)
  <2>1. view[s].emp \in Hired /\ view[s].acc \in Accounts
    BY <1>2, <1>6 DEF Link, Holds
  <2>2. /\ account' = [account EXCEPT ![view[s].acc] = view[s].emp]
        /\ Sole(view[s].emp) /\ UNCHANGED <<unit, employee>>
    BY <1>6 DEF Link
  <2>3. Linked'
    BY <2>1, <2>2 DEF TypeOK, Linked, Sole, Hired
  <2>4. QED
    BY <1>1, <2>1, <2>2, <2>3 DEF TypeOK, Hired
<1>7. CASE Unlink(s)
  <2>1. view[s].acc \in Accounts
    BY <1>2, <1>7 DEF Unlink, Holds
  <2>2. account' = [account EXCEPT ![view[s].acc] = None] /\ UNCHANGED <<unit, employee>>
    BY <1>7 DEF Unlink
  <2>3. Linked'
    BY <2>1, <2>2, Keys DEF TypeOK, Linked, Hired
  <2>4. QED
    BY <1>1, <2>1, <2>2, <2>3 DEF TypeOK
<1>8. QED
  BY <1>3, <1>4, <1>5, <1>6, <1>7 DEF Commit

LEMMA FinishInv ==
  ASSUME Inv, NEW s \in Sessions, Finish(s)
  PROVE  Inv'
<1>1. /\ pc' = [pc EXCEPT ![s] = "idle"] /\ view' = [view EXCEPT ![s] = NoView]
      /\ missed' = (missed \cup Misses) \ {s}
  BY DEF Finish
<1>2. CASE Commit(s)
  BY <1>1, <1>2, CommitTables, FinishedInv
<1>3. CASE Abort(s)
  <2>1. /\ UNCHANGED <<unit, employee, account>>
        /\ \A e \in Hired : employee'[e] \in Row
        /\ Linked'
    BY <1>3, HiredRow DEF Abort, Inv, Linked, Hired
  <2>2. QED
    BY <1>1, <2>1, FinishedInv DEF Inv, TypeOK
<1>4. QED
  BY <1>2, <1>3 DEF Finish

LEMMA StutterInv == Inv /\ UNCHANGED vars => Inv'
  BY DEF Inv, vars, TypeOK, HeldRows, Holds, Hired, Grounded, Ground, Holders,
         IsActive, Linked

LEMMA StepInv == Inv /\ [Next]_vars => Inv'
  BY MasterDataInv, StaffInv, FinishInv, StutterInv DEF Next

THEOREM Invariance == Spec => []Inv
  BY InitInv, StepInv, PTL DEF Spec

\* The tables have the rows and the sessions the views their columns allow.
THEOREM TypeCorrect == Spec => []TypeOK
<1>1. Inv => TypeOK
  BY DEF Inv
<1>2. QED
  BY <1>1, Invariance, PTL
-----------------------------------------------------------------------------
(* Nobody is stranded *)

\* Nobody is stranded by a step that leaves units and employees alone.
LEMMA StrandedSame ==
  ASSUME UNCHANGED <<unit, employee>>, NEW e \in Employees, NEW u \in Units
  PROVE  Stranded(e, u)' <=> Stranded(e, u)
  BY DEF Stranded, Hired

LEMMA MasterDataStranding == Inv /\ MasterData => Stranding
<1> SUFFICES ASSUME Inv, MasterData, NEW e \in Employees, NEW u \in Units,
                    Stranded(e, u)', ~Stranded(e, u)
             PROVE  SetActive(u, "inactive")
  BY DEF Stranding
<1>1. ASSUME NEW x \in Units, Create(x) PROVE FALSE
  BY <1>1 DEF Create, Stranded, Hired, Inv, TypeOK
<1>2. ASSUME NEW x \in Units, NEW state \in States, SetActive(x, state)
      PROVE  SetActive(u, "inactive")
  <2>1. unit' = [unit EXCEPT ![x] = state] /\ UNCHANGED employee
    BY <1>2 DEF SetActive
  <2>2. unit'[u] = "inactive" /\ unit[u] # "inactive"
    BY <2>1 DEF Stranded, Hired
  <2>3. x = u /\ state = "inactive"
    BY <2>1, <2>2 DEF Inv, TypeOK
  <2>4. QED
    BY <1>2, <2>3
<1>3. ASSUME NEW s \in Sessions, NEW x \in Units, RetireCheck(s, x) PROVE FALSE
  BY <1>3, StrandedSame DEF RetireCheck, Await
<1>4. ASSUME NEW h \in Schedules, DeleteSchedule(h) PROVE FALSE
  <2>1. /\ unit' = [unit EXCEPT ![h] = "deleted"]
        /\ employee' = [x \in Employees |->
                          IF x \in Hired /\ employee[x].sched = h
                          THEN [employee[x] EXCEPT !.sched = None] ELSE employee[x]]
    BY <1>4 DEF DeleteSchedule
  <2>2. u # h /\ unit[u] = "inactive"
    BY <2>1 DEF Stranded, Inv, TypeOK
  <2>3. CASE e \in Hired /\ employee[e].sched = h
    <3>1. employee[e] \in Row /\ employee'[e] = [employee[e] EXCEPT !.sched = None]
      BY <2>1, <2>3, HiredRow DEF Inv
    <3>2. /\ employee'[e].status = employee[e].status
          /\ employee'[e].dept = employee[e].dept
          /\ employee'[e].pos = employee[e].pos
          /\ employee'[e].sched = None
      BY <3>1 DEF Row
    <3>3. QED
      BY <2>2, <2>3, <3>2, Keys DEF Stranded
  <2>4. CASE ~(e \in Hired /\ employee[e].sched = h)
    BY <2>1, <2>2, <2>4 DEF Stranded, Hired
  <2>5. QED
    BY <2>3, <2>4
<1>5. QED
  BY <1>1, <1>2, <1>3, <1>4
     DEF MasterData, Units, CreateDepartment, CreatePosition, CreateSchedule,
         UpdateDepartment, UpdatePosition, UpdateSchedule, DeactivateDepartment,
         DeactivatePosition

LEMMA StaffStranding == Inv /\ Staff => Stranding
<1> SUFFICES ASSUME Inv, Staff, NEW e \in Employees, NEW u \in Units,
                    Stranded(e, u)', ~Stranded(e, u)
             PROVE  FALSE
  BY DEF Stranding
<1>1. ASSUME NEW x \in Employees, DeactivateEmployee(x) PROVE FALSE
  <2>1. /\ x \in Hired /\ unit' = unit
        /\ employee' = [employee EXCEPT ![x].status = "TERMINATED"]
    BY <1>1 DEF DeactivateEmployee
  <2>2. employee[x] \in Row
    BY <2>1, HiredRow DEF Inv
  <2>3. CASE e = x
    BY <2>1, <2>2, <2>3 DEF Stranded, Inv, TypeOK, Row
  <2>4. CASE e # x
    BY <2>1, <2>4 DEF Stranded, Hired, Inv, TypeOK
  <2>5. QED
    BY <2>3, <2>4
<1>2. QED
  BY <1>1, StrandedSame
     DEF Staff, CreateEmployee, UpdateEmployee, LinkUser, UnlinkUser, Await, CreateUser

\* The commit of a session that still has its ground.
LEMMA CommitStranding ==
  ASSUME Inv, NEW s \in Sessions \ missed, Commit(s),
         NEW e \in Employees, NEW u \in Units, Stranded(e, u)', ~Stranded(e, u)
  PROVE  employee[e].status = "TERMINATED"
<1>1. Holds(s) /\ (pc[s] # "idle" => Ground(s))
  BY DEF Inv, HeldRows, Grounded
<1>2. CASE Retire(s)
  <2>1. /\ unit' = [unit EXCEPT ![view[s].unit] = "inactive"]
        /\ employee' = employee /\ pc[s] = "retire"
    BY <1>2 DEF Retire
  <2>2. view[s].unit \in Departments \cup Positions /\ Holders(view[s].unit) = {}
    BY <1>1, <2>1 DEF Holds, Ground
  <2>3. u = view[s].unit /\ e \in Hired /\ employee[e].status # "TERMINATED"
        /\ u \in {employee[e].dept, employee[e].pos, employee[e].sched}
    BY <2>1 DEF Stranded, Hired, Inv, TypeOK
  <2>4. employee[e].sched \in Schedules \cup {None}
    BY <2>3, HiredRow DEF Inv, Row
  <2>5. u # employee[e].sched
    BY <2>2, <2>3, <2>4, OrganisationAssumption DEF Units
  <2>6. QED
    BY <2>2, <2>3, <2>5 DEF Holders
<1>3. CASE Hire(s)
  <2>1. PICK x \in Employees \ Hired : employee' = [employee EXCEPT ![x] = view[s].set]
    BY <1>3 DEF Hire
  <2>2. unit' = unit /\ view[s].set \in Row
        /\ \A w \in UnitsOf(view[s].set) : unit[w] = "active"
    BY <1>1, <1>3 DEF Hire, Holds, Ground, IsActive
  <2>3. CASE e = x
    <3>1. u \in {view[s].set.dept, view[s].set.pos, view[s].set.sched} \ {None}
      BY <2>1, <2>3, Keys DEF Stranded, Inv, TypeOK
    <3>2. unit[u] = "active"
      BY <2>2, <3>1, RowUnits
    <3>3. QED
      BY <2>2, <3>2 DEF Stranded
  <2>4. CASE e # x
    BY <2>1, <2>2, <2>4 DEF Stranded, Hired, Inv, TypeOK
  <2>5. QED
    BY <2>3, <2>4
<1>4. CASE Patch(s)
  <2> DEFINE x == view[s].emp  set == view[s].set
  <2>1. /\ employee' = [employee EXCEPT ![x] = Flush(set, employee[x])]
        /\ unit' = unit /\ x \in Hired /\ IsPatch(set)
        /\ \A w \in UnitsOf(set) : unit[w] = "active"
    BY <1>1, <1>4 DEF Patch, Holds, Ground, IsActive
  <2>2. CASE e = x
    <3>1. employee[e] \in Row /\ employee'[e] = Flush(set, employee[e])
      BY <2>1, <2>2, HiredRow DEF Inv, TypeOK
    <3>2. unit[u] = "inactive"
          /\ u \in {Flush(set, employee[e]).dept, Flush(set, employee[e]).pos,
                    Flush(set, employee[e]).sched}
      BY <2>1, <3>1 DEF Stranded
    <3>3. u \in UnitsOf(set) \/ u \in {employee[e].dept, employee[e].pos, employee[e].sched}
      BY <2>1, <3>1, <3>2, FlushUnits
    <3>4. QED
      BY <2>1, <2>2, <3>2, <3>3 DEF Stranded
  <2>3. CASE e # x
    BY <2>1, <2>3 DEF Stranded, Hired, Inv, TypeOK
  <2>4. QED
    BY <2>2, <2>3
<1>5. CASE Link(s) \/ Unlink(s)
  BY <1>5, StrandedSame DEF Link, Unlink
<1>6. QED
  BY <1>2, <1>3, <1>4, <1>5 DEF Commit

LEMMA StepStranding == Inv /\ [Next]_vars => [Stranding]_vars
<1> SUFFICES ASSUME Inv, Next PROVE Stranding
  OBVIOUS
<1>1. ASSUME NEW s \in Sessions, Finish(s) PROVE Stranding
  <2> SUFFICES ASSUME NEW e \in Employees, NEW u \in Units,
                      Stranded(e, u)', ~Stranded(e, u), ~Overtaken
               PROVE  employee[e].status = "TERMINATED"
    BY DEF Stranding
  <2>1. Commit(s)
    BY <1>1, StrandedSame DEF Finish, Abort
  <2>2. s \notin missed
    BY <2>1 DEF Overtaken
  <2>3. QED
    BY <2>1, <2>2, CommitStranding
<1>2. QED
  BY <1>1, MasterDataStranding, StaffStranding DEF Next

\* An employee who has not been terminated ends up in an inactive unit by a
\* PATCH of the unit, by coming back, or by two requests that overlap.
THEOREM NobodyIsStranded == Spec => NobodyStranded
  BY Invariance, StepStranding, PTL DEF Spec, NobodyStranded
-----------------------------------------------------------------------------
(* Links hold *)

LEMMA LinkedSole ==
  ASSUME Inv', NEW e \in Employees
  PROVE  Sole(e)
  BY DEF Inv, Linked, Sole

LEMMA StepHolding == Inv /\ [Next]_vars => [Holding]_vars
<1> SUFFICES ASSUME Inv, Next, ~Overtaken, NEW a \in Accounts,
                    account[a] \in Employees, account'[a] # account[a]
             PROVE  \E s \in Sessions : Unlink(s) /\ view[s].emp = account[a]
                                                  /\ view[s].acc = a
  <2>1. \A e \in Employees : Inv /\ Next => Sole(e)
    BY StepInv, LinkedSole
  <2>2. QED
    BY <2>1 DEF Holding
<1>1. ASSUME NEW u \in Units, NEW state, Create(u) \/ SetActive(u, state) PROVE FALSE
  BY <1>1 DEF Create, SetActive
<1>2. ~MasterData
  BY <1>1 DEF MasterData, Units, CreateDepartment, CreatePosition, CreateSchedule,
       UpdateDepartment, UpdatePosition, UpdateSchedule, DeactivateDepartment,
       DeactivatePosition, RetireCheck, Await, DeleteSchedule
<1>3. ASSUME NEW b \in Accounts, NEW link, CreateUser(b, link) PROVE FALSE
  BY <1>3, Keys DEF CreateUser, Inv, TypeOK
<1>4. ~Staff
  BY <1>3 DEF Staff, CreateEmployee, UpdateEmployee, LinkUser, UnlinkUser, Await,
       DeactivateEmployee
<1>5. PICK s \in Sessions : Finish(s)
  BY <1>2, <1>4 DEF Next
<1>6. Commit(s) /\ s \notin missed
  BY <1>5 DEF Finish, Abort, Overtaken
<1>7. Holds(s) /\ (pc[s] # "idle" => Ground(s))
  BY <1>6 DEF Inv, HeldRows, Grounded
<1>8. CASE Hire(s)
  <2>1. view[s].acc # None => account[view[s].acc] = None
    BY <1>7, <1>8 DEF Hire, Ground
  <2>2. PICK e : account' = IF view[s].acc = None THEN account
                            ELSE [account EXCEPT ![view[s].acc] = e]
    BY <1>8 DEF Hire
  <2>3. QED
    BY <2>1, <2>2, Keys DEF Inv, TypeOK
<1>9. CASE Link(s)
  BY <1>7, <1>9, Keys DEF Link, Ground, Inv, TypeOK
<1>10. CASE Unlink(s)
  BY <1>7, <1>10 DEF Unlink, Ground, Inv, TypeOK
<1>11. QED
  BY <1>6, <1>8, <1>9, <1>10 DEF Commit, Retire, Patch

\* Only an unlink of its own employee takes an account from an employee,
\* unless two requests overlap, and no employee has two.
THEOREM LinksAreHeld == Spec => LinksHold
  BY Invariance, StepHolding, PTL DEF Spec, LinksHold
=============================================================================
