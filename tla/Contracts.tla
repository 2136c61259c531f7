----------------------------- MODULE Contracts -----------------------------
(***************************************************************************)
(* Employment contracts (contract_service.py), the deactivation of an      *)
(* employee (employee_service.py) and of a salary structure                *)
(* (salary_structure_service.py), which both look at running contracts.    *)
(*                                                                         *)
(* Nothing in the database keeps the running contracts of an employee      *)
(* apart: every handler reads, decides in Python and commits, with no lock *)
(* in between.  So a handler is a Check step, which keeps what it read and *)
(* what it will write, and a step that commits the columns it has changed. *)
(***************************************************************************)
EXTENDS Integers

CONSTANTS Contracts, Employees, Structures,  \* primary keys
          Sessions,
          Days,              \* calendar days
          Starts, Ends,      \* dates that can be asked for; None is open-ended
          Structured,        \* structures that can be asked for; None is none
          None

ASSUME ContractsAssumption ==
    /\ Days \subseteq Int
    /\ Starts \subseteq Int /\ Ends \subseteq Int \cup {None}
    /\ Structured \subseteq Structures \cup {None}
    /\ None \notin Int \cup Contracts \cup Employees \cup Structures

VARIABLES contract,   \* contracts
          employee,   \* status of employees
          structure,  \* is_active of salary_structures
          pc,         \* what the session has still to write
          view,       \* what it read, and what it will write
          missed      \* history: sessions whose decision has lost its ground

vars == <<contract, employee, structure, pc, view, missed>>
-----------------------------------------------------------------------------
\* EXPIRED is treated as CANCELLED is.
ContractStatus == {"DRAFT", "RUNNING", "CANCELLED"}

\* INACTIVE and ON_LEAVE are treated as ACTIVE is.
EmployeeStatus == {"ACTIVE", "TERMINATED"}

Contract == [status : ContractStatus, emp : Employees, from : Starts,
             to : Ends, on : Structured]
NoRow    == [status |-> "NONE"]

\* id is the contract to update; emp and on are what a deactivation is for,
\* was the status the employee had, ids the contracts that will be cancelled.
View   == [id : Contracts \cup {None}, seen : Contract \cup {NoRow},
           new : Contract \cup {NoRow}, emp : Employees \cup {None},
           was : EmployeeStatus, ids : SUBSET Contracts, on : Structures \cup {None}]
NoView == [id |-> None, seen |-> NoRow, new |-> NoRow, emp |-> None,
           was |-> "ACTIVE", ids |-> {}, on |-> None]

TypeOK == /\ contract \in [Contracts -> Contract \cup {NoRow}]
          /\ employee \in [Employees -> EmployeeStatus]
          /\ structure \in [Structures -> BOOLEAN]
          /\ pc \in [Sessions -> {"idle", "insert", "update", "terminate", "retire"}]
          /\ view \in [Sessions -> View]
          /\ missed \in SUBSET Sessions

Init == /\ contract = [c \in Contracts |-> NoRow]
        /\ employee = [e \in Employees |-> "ACTIVE"]
        /\ structure = [t \in Structures |-> TRUE]
        /\ pc = [s \in Sessions |-> "idle"]
        /\ view = [s \in Sessions |-> NoView]
        /\ missed = {}
-----------------------------------------------------------------------------
RunningFor(row, e) == row.status = "RUNNING" /\ row.emp = e

\* Faulty: a first or last day in common is not an overlap.
ConflictsStrict(row, c) ==
    /\ RunningFor(contract[c], row.emp)
    /\ row.to # None => contract[c].from < row.to
    /\ contract[c].to # None => contract[c].to > row.from

\* What check_running_contract_overlap selects.
Conflicts(row, c) ==
    /\ RunningFor(contract[c], row.emp)
    /\ row.to # None => contract[c].from <= row.to
    /\ contract[c].to # None => contract[c].to >= row.from

Clear(row, self) == \A c \in Contracts \ {self} : ~Conflicts(row, c)

InOrder(row) == row.to # None => row.from <= row.to

Assignable(t) == IF t = None THEN TRUE ELSE structure[t]

Await(s, step, v) ==
    /\ pc' = [pc EXCEPT ![s] = step]
    /\ view' = [view EXCEPT ![s] = v]
    /\ UNCHANGED <<contract, employee, structure, missed>>

Change(s, c, new) ==
    /\ new # contract[c]
    /\ Await(s, "update", [NoView EXCEPT !.id = c, !.seen = contract[c],
                                         !.new = new])

CreateCheck(s, row) ==
    /\ InOrder(row)
    /\ Assignable(row.on)
    /\ row.status = "RUNNING" => Clear(row, None)
    /\ Await(s, "insert", [NoView EXCEPT !.new = row])

\* Faulty: the dates are those of the request, which may name only one.
ValidUpdateByRequest(seen, new) ==
    seen.from # new.from /\ seen.to # new.to => InOrder(new)

\* The dates as they will be: asked for or as they are.
ValidUpdate(seen, new) == InOrder(new)

\* update_contract: new has the columns of the request, the others as read.
UpdateCheck(s, c, new) ==
    /\ contract[c] # NoRow
    /\ new.emp = contract[c].emp
    /\ new.on # contract[c].on => Assignable(new.on)
    /\ ValidUpdate(contract[c], new)
    /\ new.status = "RUNNING" => Clear(new, c)
    /\ Change(s, c, new)

ActivateCheck(s, c) ==
    /\ contract[c] # NoRow
    /\ contract[c].status # "RUNNING"
    /\ Clear(contract[c], c)
    /\ Change(s, c, [contract[c] EXCEPT !.status = "RUNNING"])

CancelCheck(s, c) ==
    /\ contract[c] # NoRow
    /\ Change(s, c, [contract[c] EXCEPT !.status = "CANCELLED"])

\* Faulty: contracts that end by themselves are left alone.
OpenEnded(e) == {c \in Contracts : RunningFor(contract[c], e)
                                    /\ contract[c].to = None}

Running(e) == {c \in Contracts : RunningFor(contract[c], e)}

\* deactivate_employee
TerminateCheck(s, e) ==
    Await(s, "terminate", [NoView EXCEPT !.emp = e, !.was = employee[e],
                                         !.ids = Running(e)])

UsedBy(row, t) == row.status = "RUNNING" /\ row.on = t

\* Faulty: what a structure is used for is not looked at.
UnusedAny(t) == TRUE

Unused(t) == \A c \in Contracts : ~UsedBy(contract[c], t)

\* update_structure with is_active = false
RetireCheck(s, t) ==
    /\ structure[t]
    /\ Unused(t)
    /\ Await(s, "retire", [NoView EXCEPT !.on = t])
-----------------------------------------------------------------------------
RunsOn(row, day) == /\ row.status = "RUNNING"
                    /\ row.from <= day
                    /\ row.to # None => day <= row.to

\* The row runs on a day on which it did not.
Grew(old, new) == \E day \in Days : RunsOn(new, day) /\ ~RunsOn(old, day)

\* The rows of contract' take the decision of s its ground: somebody else's
\* contract for the employee runs on more days, or the employee or structure
\* it deactivates has a running contract more.
Undermined(s) ==
    \E c \in Contracts :
       \/ /\ pc[s] \in {"insert", "update"} /\ c # view[s].id
          /\ contract'[c].status = "RUNNING"
          /\ contract'[c].emp = view[s].new.emp
          /\ Grew(contract[c], contract'[c])
       \/ /\ pc[s] = "terminate"
          /\ RunningFor(contract'[c], view[s].emp)
          /\ ~RunningFor(contract[c], view[s].emp)
       \/ /\ pc[s] = "retire"
          /\ UsedBy(contract'[c], view[s].on)
          /\ ~UsedBy(contract[c], view[s].on)

\* The commit of s, in which contract' has been said.
Commit(s) ==
    /\ pc' = [pc EXCEPT ![s] = "idle"]
    /\ view' = [view EXCEPT ![s] = NoView]
    /\ missed' = (missed \cup {u \in Sessions : Undermined(u)}) \ {s}

Insert(s) ==
    LET new == view[s].new
    IN  /\ pc[s] = "insert"
        /\ \E c \in Contracts : /\ contract[c] = NoRow
                                /\ contract' = [contract EXCEPT ![c] = new]
        /\ Commit(s)
        /\ UNCHANGED <<employee, structure>>

\* Faulty: the UPDATE writes every column, as it was read.
FlushAll(seen, new, now) == new

\* Faulty: columns the request does not name are set to null.
FlushUnset(seen, new, now) ==
    [col \in DOMAIN now |-> IF new[col] # seen[col] THEN new[col] ELSE None]

\* An UPDATE sets the columns the session has changed and no other.
Flush(seen, new, now) ==
    [col \in DOMAIN now |-> IF new[col] # seen[col] THEN new[col] ELSE now[col]]

Update(s) ==
    LET v == view[s]
    IN  /\ pc[s] = "update"
        /\ contract' = [contract EXCEPT ![v.id] = Flush(v.seen, v.new, @)]
        /\ Commit(s)
        /\ UNCHANGED <<employee, structure>>

\* The commit of deactivate_employee.
Terminate(s) ==
    /\ pc[s] = "terminate"
    /\ employee' = IF view[s].was = "TERMINATED" THEN employee
                   ELSE [employee EXCEPT ![view[s].emp] = "TERMINATED"]
    /\ contract' = [c \in Contracts |->
          IF c \in view[s].ids THEN [contract[c] EXCEPT !.status = "CANCELLED"]
          ELSE contract[c]]
    /\ Commit(s)
    /\ UNCHANGED structure

Retire(s) ==
    /\ pc[s] = "retire"
    /\ structure' = [structure EXCEPT ![view[s].on] = FALSE]
    /\ UNCHANGED contract
    /\ Commit(s)
    /\ UNCHANGED employee

\* The handler fails or its process dies: its transaction is rolled back.
Abort(s) == /\ pc[s] # "idle"
            /\ UNCHANGED contract
            /\ Commit(s)
            /\ UNCHANGED <<employee, structure>>

\* update_employee can set any status; it does not look at contracts.
PatchEmployee(e, status) ==
    /\ employee[e] # status
    /\ employee' = [employee EXCEPT ![e] = status]
    /\ UNCHANGED <<contract, structure, pc, view, missed>>

\* update_structure with is_active = true
Restore(t) ==
    /\ ~structure[t]
    /\ structure' = [structure EXCEPT ![t] = TRUE]
    /\ UNCHANGED <<contract, employee, pc, view, missed>>

Call(s) ==
    /\ pc[s] = "idle"
    /\ \/ \E row \in Contract : \/ CreateCheck(s, row)
                                \/ \E c \in Contracts : UpdateCheck(s, c, row)
       \/ \E c \in Contracts : ActivateCheck(s, c) \/ CancelCheck(s, c)
       \/ \E e \in Employees : TerminateCheck(s, e)
       \/ \E t \in Structures : RetireCheck(s, t)

Finish(s) ==
    Insert(s) \/ Update(s) \/ Terminate(s) \/ Retire(s) \/ Abort(s)

Next == \/ \E s \in Sessions : Call(s) \/ Finish(s)
        \/ \E e \in Employees, status \in EmployeeStatus :
              PatchEmployee(e, status)
        \/ \E t \in Structures : Restore(t)

Spec == Init /\ [][Next]_vars
-----------------------------------------------------------------------------
\* The contracts get_contract_for_period finds for the period; for one day,
\* those get_applicable_contract finds.
Applicable(e, first, last) ==
    {c \in Contracts : /\ RunningFor(contract[c], e)
                       /\ contract[c].from <= first
                       /\ contract[c].to # None => contract[c].to >= last}

\* What s has seen of the contract it updates is no longer so.
Stale(s, cols) == /\ pc[s] = "update"
                  /\ \E col \in cols : contract[view[s].id][col] # view[s].seen[col]

\* Payroll never has to choose between two contracts for a period unless two
\* requests overlapped: it is a commit on grounds that were gone that makes a
\* second contract apply.  "An employee cannot have multiple active RUNNING
\* contracts during overlapping date windows" (DATABASE_SCHEMA.md, rule 5).
Apart == \A e \in Employees, first, last \in Days : first <= last =>
    \A c, d \in Applicable(e, first, last)' :
       \/ c = d
       \/ {c, d} \subseteq Applicable(e, first, last)
       \/ \E s \in Sessions :
             /\ Insert(s) \/ Update(s)
             /\ s \in missed \/ Stale(s, {"status", "from", "to"})
OneContractApplies == [][Apart]_vars

\* "Fixed-term contracts require end_date >= start_date" (DATABASE_SCHEMA.md,
\* rule 8), also when requests change the dates one by one, unless two of
\* them overlap.
Ordered == \A c \in Contracts :
    contract'[c] # NoRow /\ ~InOrder(contract'[c]) =>
       \/ contract[c] # NoRow /\ ~InOrder(contract[c])
       \/ \E s \in Sessions :
             Update(s) /\ view[s].id = c /\ Stale(s, {"from", "to"})
DatesInOrder == [][Ordered]_vars

\* "Any RUNNING contracts for the employee are automatically marked CANCELLED"
\* (deactivate_employee): none runs when the deactivation has committed,
\* unless one was started after it had looked.
Cancelled == \A s \in Sessions \ missed :
    Terminate(s) => \A c \in Contracts : ~RunningFor(contract'[c], view[s].emp)
TerminationCancels == [][Cancelled]_vars

\* "If active RUNNING contracts reference the structure, deactivation is
\* rejected" (DATABASE_SCHEMA.md, rule 17): none does when it has committed,
\* unless one was started or assigned after it had looked.
Guarded == \A s \in Sessions \ missed :
    Retire(s) => \A c \in Contracts : ~UsedBy(contract'[c], view[s].on)
RetirementGuarded == [][Guarded]_vars

\* A request changes what it was asked to change: cancelled contracts do not
\* run again because of a request that saw them running and changed other
\* columns.
Woken == \A c \in Contracts :
    contract[c].status = "CANCELLED" /\ contract'[c].status = "RUNNING" =>
        \E s \in Sessions : /\ pc[s] = "update" /\ view[s].id = c
                            /\ view[s].seen.status # "RUNNING"
CancellationHolds == [][Woken]_vars
=============================================================================
