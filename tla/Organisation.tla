---------------------------- MODULE Organisation ----------------------------
(***************************************************************************)
(* The reference data employees are placed in and the accounts they log in *)
(* with: department_service.py, job_position_service.py,                   *)
(* schedule_service.py, the master data part of employee_service.py and    *)
(* user_service.py.                                                        *)
(*                                                                         *)
(* Departments, positions and schedules are deactivated, not deleted (a    *)
(* schedule can be both), and are written without a look at other rows,    *)
(* but for the guarded deactivation.  A handler that decides on rows other *)
(* than the one it writes is a Check step, which keeps the row it will     *)
(* write, and a step that commits; all others are one step.                *)
(***************************************************************************)
CONSTANTS Departments, Positions, Schedules,  \* primary keys
          Employees, Accounts, Sessions,
          Seeded,    \* units that are there at the start
          Hires,     \* rows an employee can be created with
          Patches,   \* columns a PATCH of an employee can set, with values
          None,
          Absent     \* the link of an account that does not exist

Units == Departments \cup Positions \cup Schedules

Columns == {"status", "dept", "pos", "sched"}
Status  == {"ACTIVE", "TERMINATED"}
Values  == [status |-> Status, dept |-> Departments, pos |-> Positions,
            sched |-> Schedules \cup {None}]

\* INACTIVE and ON_LEAVE are treated as ACTIVE is.
Row == [status : Status, dept : Departments, pos : Positions,
        sched : Schedules \cup {None}]

IsPatch(p) == /\ p = [col \in DOMAIN p |-> p[col]]
              /\ \A col \in DOMAIN p : col \in Columns /\ p[col] \in Values[col]

ASSUME OrganisationAssumption ==
    /\ Departments \cap Positions = {}
    /\ (Departments \cup Positions) \cap Schedules = {}
    /\ Seeded \subseteq Units
    /\ Hires \subseteq Row
    /\ \A p \in Patches : IsPatch(p) /\ ("sched" \in DOMAIN p => p["sched"] # None)
    /\ None \notin Units \cup Employees \cup Accounts
    /\ Absent \notin Employees \cup {None}

VARIABLES unit,      \* departments, job_positions, working_schedules: is_active
          employee,  \* employees
          account,   \* users.employee_id
          pc,        \* what the session has still to write
          view,      \* where, and what
          missed     \* history: sessions whose decision has lost its ground

vars == <<unit, employee, account, pc, view, missed>>
-----------------------------------------------------------------------------
NoRow == [status |-> "NONE"]

\* retire: the unit; hire: set is the row, acc the account to link, or None;
\* patch: set has the changed columns of emp; link, unlink: emp and acc.
Change == UNION {[cols -> Status \cup Units \cup {None}] : cols \in SUBSET Columns}
View   == [unit : Units \cup {None}, emp : Employees \cup {None},
           acc : Accounts \cup {None}, set : Row \cup {NoRow} \cup Change]
NoView == [unit |-> None, emp |-> None, acc |-> None, set |-> NoRow]

TypeOK ==
    /\ unit \in [Units -> {"none", "active", "inactive", "deleted"}]
    /\ employee \in [Employees -> Row \cup {NoRow}]
    /\ account \in [Accounts -> Employees \cup {None, Absent}]
    /\ pc \in [Sessions -> {"idle", "retire", "hire", "patch", "link", "unlink"}]
    /\ view \in [Sessions -> View]
    /\ missed \in SUBSET Sessions

Init == /\ unit = [u \in Units |-> IF u \in Seeded THEN "active" ELSE "none"]
        /\ employee = [e \in Employees |-> NoRow]
        /\ account = [a \in Accounts |-> Absent]
        /\ pc = [s \in Sessions |-> "idle"]
        /\ view = [s \in Sessions |-> NoView]
        /\ missed = {}
-----------------------------------------------------------------------------
Hired == {e \in Employees : employee[e] # NoRow}

IsActive(u) == unit[u] = "active"

\* Faulty: the holders of a position are not counted.
HoldersByDept(u) == {e \in Hired : /\ employee[e].status # "TERMINATED"
                                   /\ employee[e].dept = u}

\* Employees with the unit who have not been terminated.
Holders(u) == {e \in Hired : /\ employee[e].status # "TERMINATED"
                             /\ u \in {employee[e].dept, employee[e].pos}}

UsersOf(e) == {a \in Accounts : account[a] = e}

\* Faulty: it is enough that the account exists.
LinkableAny(a) == account[a] # Absent

\* The account exists and has no employee.
Linkable(a) == account[a] = None

\* The units a new row, or a PATCH, puts an employee in.
UnitsOf(set) == {set[col] : col \in DOMAIN set \cap {"dept", "pos", "sched"}} \ {None}

\* What the decision of s rests on.
Ground(s) == LET v == view[s]
             IN  CASE pc[s] = "retire" -> Holders(v.unit) = {}
                   [] pc[s] = "hire"   -> /\ \A u \in UnitsOf(v.set) : IsActive(u)
                                          /\ v.acc # None => account[v.acc] = None
                   [] pc[s] = "patch"  -> \A u \in UnitsOf(v.set) : IsActive(u)
                   [] pc[s] = "link"   -> account[v.acc] = None
                   [] pc[s] = "unlink" -> account[v.acc] = v.emp
                   [] OTHER            -> TRUE

Misses == {s \in Sessions : pc[s] # "idle" /\ Ground(s) /\ ~Ground(s)'}

\* The sessions go on, but for those that have lost their ground, in a step
\* that has said unit', employee' and account'.
GoOn == /\ UNCHANGED <<pc, view>>
        /\ missed' = missed \cup Misses

Await(s, step, v) ==
    /\ pc[s] = "idle"
    /\ pc' = [pc EXCEPT ![s] = step]
    /\ view' = [view EXCEPT ![s] = v]
    /\ UNCHANGED <<unit, employee, account, missed>>
-----------------------------------------------------------------------------
(* department_service.py, job_position_service.py *)

Create(u) == /\ unit[u] = "none"
             /\ unit' = [unit EXCEPT ![u] = "active"]
             /\ UNCHANGED <<employee, account>>
             /\ GoOn

\* is_active as the caller wants it, whoever has the unit.
SetActive(u, state) == /\ unit[u] \in {"active", "inactive"} \ {state}
                       /\ unit' = [unit EXCEPT ![u] = state]
                       /\ UNCHANGED <<employee, account>>
                       /\ GoOn

RetireCheck(s, u) == /\ IsActive(u)
                     /\ Holders(u) = {}
                     /\ Await(s, "retire", [NoView EXCEPT !.unit = u])

CreateDepartment(d)        == Create(d)
UpdateDepartment(d, state) == SetActive(d, state)
DeactivateDepartment(s, d) == RetireCheck(s, d)

CreatePosition(p)        == Create(p)
UpdatePosition(p, state) == SetActive(p, state)
DeactivatePosition(s, p) == RetireCheck(s, p)

Retire(s) == /\ pc[s] = "retire"
             /\ unit' = [unit EXCEPT ![view[s].unit] = "inactive"]
             /\ UNCHANGED <<employee, account>>
-----------------------------------------------------------------------------
(* schedule_service.py *)

CreateSchedule(h)        == Create(h)
UpdateSchedule(h, state) == SetActive(h, state)

\* The foreign key of the employees is set to null.
DeleteSchedule(h) ==
    /\ unit[h] \in {"active", "inactive"}
    /\ unit' = [unit EXCEPT ![h] = "deleted"]
    /\ employee' = [e \in Employees |->
                      IF e \in Hired /\ employee[e].sched = h
                      THEN [employee[e] EXCEPT !.sched = None] ELSE employee[e]]
    /\ UNCHANGED account
    /\ GoOn
-----------------------------------------------------------------------------
(* employee_service.py *)

CreateEmployee(s, row, a) ==
    /\ \A u \in UnitsOf(row) : IsActive(u)
    /\ a # None => Linkable(a)
    /\ Await(s, "hire", [NoView EXCEPT !.set = row, !.acc = a])

\* A new department or position must be active; a schedule must be, new or not.
Admitted(row, patch) ==
    /\ \A col \in DOMAIN patch \cap {"dept", "pos"} :
          patch[col] = row[col] \/ IsActive(patch[col])
    /\ "sched" \in DOMAIN patch => IsActive(patch["sched"])

\* update_employee; the status can become anything at any time.
UpdateEmployee(s, e, patch) ==
    LET cols == {col \in DOMAIN patch : patch[col] # employee[e][col]}
    IN  /\ e \in Hired
        /\ Admitted(employee[e], patch)
        /\ cols # {}
        /\ Await(s, "patch", [NoView EXCEPT !.emp = e,
                                 !.set = [col \in cols |-> patch[col]]])

\* The contracts that are cancelled with it are those of module Contracts.
DeactivateEmployee(e) ==
    /\ e \in Hired
    /\ employee[e].status # "TERMINATED"
    /\ employee' = [employee EXCEPT ![e].status = "TERMINATED"]
    /\ UNCHANGED <<unit, account>>
    /\ GoOn

LinkUser(s, e, a) ==
    /\ e \in Hired
    /\ UsersOf(e) = {}
    /\ Linkable(a)
    /\ Await(s, "link", [NoView EXCEPT !.emp = e, !.acc = a])

UnlinkUser(s, e) ==
    \E a \in UsersOf(e) :
        Await(s, "unlink", [NoView EXCEPT !.emp = e, !.acc = a])

\* users.employee_id is unique.
Sole(e) == \A a, b \in Accounts : account'[a] = e /\ account'[b] = e => a = b

\* working_schedule_id refers to a schedule that is there.
Refers(set) == "sched" \in DOMAIN set /\ set["sched"] # None
                  => unit[set["sched"]] # "deleted"

Hire(s) ==
    /\ pc[s] = "hire"
    /\ Refers(view[s].set)
    /\ \E e \in Employees \ Hired :
          /\ employee' = [employee EXCEPT ![e] = view[s].set]
          /\ account' = IF view[s].acc = None THEN account
                        ELSE [account EXCEPT ![view[s].acc] = e]
    /\ UNCHANGED unit

\* An UPDATE sets the columns the session has changed and no other.
Flush(set, now) ==
    [col \in DOMAIN now |-> IF col \in DOMAIN set THEN set[col] ELSE now[col]]

Patch(s) == /\ pc[s] = "patch"
            /\ Refers(view[s].set)
            /\ employee' = [employee EXCEPT ![view[s].emp] = Flush(view[s].set, @)]
            /\ UNCHANGED <<unit, account>>

Link(s) == /\ pc[s] = "link"
           /\ account' = [account EXCEPT ![view[s].acc] = view[s].emp]
           /\ Sole(view[s].emp)
           /\ UNCHANGED <<unit, employee>>

Unlink(s) == /\ pc[s] = "unlink"
             /\ account' = [account EXCEPT ![view[s].acc] = None]
             /\ UNCHANGED <<unit, employee>>

Commit(s) == \/ Retire(s) \/ Hire(s) \/ Patch(s) \/ Link(s) \/ Unlink(s)

\* The handler fails or its process dies: its transaction is rolled back.
Abort(s) == pc[s] # "idle" /\ UNCHANGED <<unit, employee, account>>

Finish(s) == /\ Commit(s) \/ Abort(s)
             /\ pc' = [pc EXCEPT ![s] = "idle"]
             /\ view' = [view EXCEPT ![s] = NoView]
             /\ missed' = (missed \cup Misses) \ {s}
-----------------------------------------------------------------------------
(* user_service.py *)

\* create_user, for an employee or for none; the link is not looked at before
\* the constraints do.
CreateUser(a, link) ==
    /\ account[a] = Absent
    /\ account' = [account EXCEPT ![a] = link]
    /\ link # None => link \in Hired /\ Sole(link)
    /\ UNCHANGED <<unit, employee>>
    /\ GoOn
-----------------------------------------------------------------------------
States == {"active", "inactive"}

MasterData ==
    \/ \E d \in Departments : \/ CreateDepartment(d)
                              \/ \E state \in States : UpdateDepartment(d, state)
                              \/ \E s \in Sessions : DeactivateDepartment(s, d)
    \/ \E p \in Positions : \/ CreatePosition(p)
                            \/ \E state \in States : UpdatePosition(p, state)
                            \/ \E s \in Sessions : DeactivatePosition(s, p)
    \/ \E h \in Schedules : \/ CreateSchedule(h) \/ DeleteSchedule(h)
                            \/ \E state \in States : UpdateSchedule(h, state)

Staff ==
    \/ \E s \in Sessions :
          \/ \E row \in Hires, a \in Accounts \cup {None} : CreateEmployee(s, row, a)
          \/ \E e \in Employees : \/ \E patch \in Patches : UpdateEmployee(s, e, patch)
                                  \/ \E a \in Accounts : LinkUser(s, e, a)
                                  \/ UnlinkUser(s, e)
    \/ \E e \in Employees : DeactivateEmployee(e)
    \/ \E a \in Accounts, link \in Employees \cup {None} : CreateUser(a, link)

Next == MasterData \/ Staff \/ \E s \in Sessions : Finish(s)

Spec == Init /\ [][Next]_vars
-----------------------------------------------------------------------------
\* A session writes on grounds that another commit has taken away.
Overtaken == \E s \in missed : Commit(s)

Stranded(e, u) == /\ e \in Hired
                  /\ employee[e].status # "TERMINATED"
                  /\ u \in {employee[e].dept, employee[e].pos, employee[e].sched}
                  /\ unit[u] = "inactive"

\* "A department CANNOT be deactivated if any active/non-terminated employees
\* are currently assigned to it" (deactivate_department), nor is anybody put
\* into an inactive one.  Over all handlers that is true but for four ways: a
\* PATCH of the unit or the deactivation of a schedule, neither of which looks,
\* an employee who was terminated coming back, and two requests that overlap.
Stranding ==
    \A e \in Employees, u \in Units : Stranded(e, u)' /\ ~Stranded(e, u) =>
        \/ SetActive(u, "inactive")
        \/ employee[e].status = "TERMINATED"
        \/ Overtaken
NobodyStranded == [][Stranding]_vars

\* An account, once linked to an employee, is taken from that employee by an
\* unlink of this very employee and by nothing else, neither a link nor a new
\* employee nor the unlink of another one, unless two requests overlap; and no
\* employee ever has two.
Holding ==
    /\ \A a \in Accounts :
          /\ account[a] \in Employees
          /\ account'[a] # account[a]
          => \/ \E s \in Sessions : Unlink(s) /\ view[s].emp = account[a]
                                              /\ view[s].acc = a
             \/ Overtaken
    /\ \A e \in Employees : Sole(e)
LinksHold == [][Holding]_vars
=============================================================================
