------------------------------- MODULE Payrun -------------------------------
(***************************************************************************)
(* The payrun lifecycle: payrun_service.py and the per-payslip step of     *)
(* payroll_processing_service.py, over the tables payruns, payslips and    *)
(* payslip_lines.                                                          *)
(*                                                                         *)
(* Every HTTP request runs in a database session of its own (get_db):      *)
(* PostgreSQL READ COMMITTED, no row is locked by a read, and a loaded     *)
(* object keeps the column values it was loaded with, so a request acts on *)
(* the VIEW it took at its first statement and, when it commits, writes    *)
(* exactly the columns whose new value differs from that view.  A request  *)
(* is therefore a Load step, whose guard is the handler's status check,    *)
(* and one or more Commit steps; anything may happen in between, and the   *)
(* request may end without committing at any point (Abort).                *)
(*                                                                         *)
(* All the payruns are for one accounting period: payslips of different    *)
(* periods never meet in any check of the code.  An employee has one       *)
(* contract here.  The figures of a payslip are abstracted to its net.     *)
(***************************************************************************)
EXTENDS Integers, FiniteSets

CONSTANTS Payruns,     \* primary keys of table payruns; never reused
          Employees,
          Sessions,    \* request slots; one slot serves requests in sequence
          Amounts,     \* net amounts the rule engine can produce
          None         \* no payrun, no employee

ASSUME PayrunAssumption ==
    /\ Amounts \subseteq Int /\ 0 \in Amounts
    /\ None \notin Payruns /\ None \notin Employees

VARIABLES run,       \* payruns.status, with ABSENT and DELETED rows
          slip,      \* the payslip row of each employee in each payrun
          lines,     \* committed payslip_lines rows, as batches
          running,   \* is the employee's contract RUNNING over the period?
          basis,     \* the net the engine computes from today's inputs
          payouts,   \* history: payruns whose settlement included the employee
          reopened,  \* history: payruns written over after they were PAID
          pc,        \* where the request of a session stands
          view       \* what that request has read

db   == <<run, slip, lines>>
env  == <<running, basis>>
vars == <<run, slip, lines, running, basis, payouts, reopened, pc, view>>
-----------------------------------------------------------------------------
PayrunStatus  == {"DRAFT", "COMPUTED", "VALIDATED", "PAID", "CANCELLED"}
PayslipStatus == {"DRAFT", "COMPUTED", "VALIDATED", "PAID", "CANCELLED"}

RunState == PayrunStatus \cup {"ABSENT", "DELETED"}

\* A payslip row; status NONE stands for no row.
Slip   == [status : PayslipStatus \cup {"NONE"}, net : Amounts]
NoSlip == [status |-> "NONE", net |-> 0]

\* The lines one calculation inserts: they sum up to net.
Batch == [by : Sessions, net : Amounts]

Steps == {"idle", "create", "compute", "line", "validate", "pay", "cancel",
          "delete"}

View == [run : Payruns \cup {None}, status : RunState,
         slip : [Employees -> Slip], todo : SUBSET Employees,
         cur : Employees \cup {None}, net : Amounts, doomed : SUBSET Batch]

NoView == [run |-> None, status |-> "ABSENT",
           slip |-> [e \in Employees |-> NoSlip], todo |-> {}, cur |-> None,
           net |-> 0, doomed |-> {}]

TypeOK == /\ run \in [Payruns -> RunState]
          /\ slip \in [Payruns -> [Employees -> Slip]]
          /\ lines \in [Payruns -> [Employees -> SUBSET Batch]]
          /\ running \in [Employees -> BOOLEAN]
          /\ basis \in [Employees -> Amounts]
          /\ payouts \in [Employees -> SUBSET Payruns]
          /\ reopened \in SUBSET Payruns
          /\ pc \in [Sessions -> Steps]
          /\ view \in [Sessions -> View]

Exists(r)    == run[r] \in PayrunStatus
Members(sl)  == {e \in Employees : sl[e].status # "NONE"}

\* Faulty: a payslip stops counting once it is paid.
ActiveUntilPaid(row) == row.status \notin {"NONE", "CANCELLED", "PAID"}
Active(row)  == row.status \notin {"NONE", "CANCELLED"}

\* Faulty: a row that was loaded is taken to be there still.
RowAssumed(row) == TRUE

\* An UPDATE finds the row (else StaleDataError), an INSERT of lines its
\* payslip (else the foreign key refuses it).
StillThere(row) == row.status # "NONE"

\* The partial unique index uq_payslips_employee_period_active on table t.
UniqueActive(t) ==
    \A e \in Employees : \A q, r \in Payruns :
        Active(t[q][e]) /\ Active(t[r][e]) => q = r
-----------------------------------------------------------------------------
Init == /\ run = [r \in Payruns |-> "ABSENT"]
        /\ slip = [r \in Payruns |-> [e \in Employees |-> NoSlip]]
        /\ lines = [r \in Payruns |-> [e \in Employees |-> {}]]
        /\ running \in [Employees -> BOOLEAN]
        /\ basis \in [Employees -> Amounts]
        /\ payouts = [e \in Employees |-> {}] /\ reopened = {}
        /\ pc = [s \in Sessions |-> "idle"]
        /\ view = [s \in Sessions |-> NoView]

\* The request of s ends and its session is closed.
Close(s) == /\ pc' = [pc EXCEPT ![s] = "idle"]
            /\ view' = [view EXCEPT ![s] = NoView]

\* get_payrun_by_id: the payrun with its payslips, lines and contracts enters
\* the identity map of the session, where it is not refreshed again.
Load(s, r, step) ==
    /\ pc[s] = "idle"
    /\ Exists(r)
    /\ pc' = [pc EXCEPT ![s] = step]
    /\ view' = [view EXCEPT ![s] =
                  [NoView EXCEPT !.run = r, !.status = run[r],
                                 !.slip = slip[r]]]
    /\ UNCHANGED <<db, env, payouts>>

(***************************************************************************)
(* create_payrun.  The selection is any non-empty set of eligible          *)
(* employees, the explicit list or, for an empty list, all of them; the    *)
(* rows are inserted in one commit, which the unique index may refuse.     *)
(***************************************************************************)
Eligible(e) == running[e] /\ \A r \in Payruns : ~Active(slip[r][e])

CreateCheck(s) ==
    /\ pc[s] = "idle"
    /\ \E chosen \in (SUBSET {e \in Employees : Eligible(e)}) \ {{}} :
          view' = [view EXCEPT ![s] = [NoView EXCEPT !.todo = chosen]]
    /\ pc' = [pc EXCEPT ![s] = "create"]
    /\ UNCHANGED <<db, env, payouts>>

\* Faulty: the payslips are inserted with a status the column does not know.
WithPending(r, chosen) ==
    [slip EXCEPT ![r] = [e \in Employees |->
        IF e \in chosen THEN [status |-> "PENDING", net |-> 0] ELSE NoSlip]]

WithDrafts(r, chosen) ==
    [slip EXCEPT ![r] = [e \in Employees |->
        IF e \in chosen THEN [status |-> "DRAFT", net |-> 0] ELSE NoSlip]]

CreateCommit(s) ==
    /\ pc[s] = "create"
    /\ \E r \in Payruns :
          /\ run[r] = "ABSENT"
          /\ run' = [run EXCEPT ![r] = "DRAFT"]
          /\ slip' = WithDrafts(r, view[s].todo)
    /\ UniqueActive(slip')
    /\ Close(s)
    /\ UNCHANGED <<lines, env, payouts>>
-----------------------------------------------------------------------------
(***************************************************************************)
(* compute_payrun: the payslips are calculated one after the other, each   *)
(* in a transaction of its own; the payrun's status follows at the end,    *)
(* with no second look at the row.                                         *)
(***************************************************************************)
ComputeLoad(s, r) ==
    /\ pc[s] = "idle"
    /\ run[r] \in {"DRAFT", "COMPUTED"}
    /\ pc' = [pc EXCEPT ![s] = "compute"]
    /\ view' = [view EXCEPT ![s] =
                  [NoView EXCEPT !.run = r, !.status = run[r],
                                 !.slip = slip[r],
                                 !.todo = Members(slip[r])]]
    /\ UNCHANGED <<db, env, payouts>>

\* calculate_and_generate_payslip up to its DELETE: the engine runs on the
\* attendance and leave of now, and the DELETE sees the lines committed now.
ComputeRead(s, e) ==
    /\ pc[s] = "compute"
    /\ e \in view[s].todo
    /\ pc' = [pc EXCEPT ![s] = "line"]
    /\ view' = [view EXCEPT ![s].cur = e, ![s].net = basis[e],
                            ![s].doomed = lines[view[s].run][e]]
    /\ UNCHANGED <<db, env, payouts>>

\* Faulty: the new net never reaches the row.
RecalculatedLinesOnly(seen, row, net) ==
    [status |-> "COMPUTED", net |-> row.net]

\* The payslip row after the UPDATE: only columns that differ from the view.
Recalculated(seen, row, net) ==
    [status |-> IF seen.status # "COMPUTED" THEN "COMPUTED" ELSE row.status,
     net    |-> IF seen.net # net THEN net ELSE row.net]

\* The rest of it: DELETE, INSERT of the new lines, UPDATE and commit.  Rows
\* the DELETE removed are gone for every other DELETE that waits on them.
ComputePayslip(s) ==
    LET v == view[s]
        r == v.run
        e == v.cur
    IN  /\ pc[s] = "line"
        /\ StillThere(slip[r][e])
        /\ slip' = [slip EXCEPT ![r][e] = Recalculated(v.slip[e], @, v.net)]
        /\ UniqueActive(slip')
        /\ lines' = [lines EXCEPT ![r][e] =
                       (@ \ v.doomed) \cup {[by |-> s, net |-> v.net]}]
        /\ pc' = [pc EXCEPT ![s] = "compute"]
        /\ view' = [t \in Sessions |->
              IF t = s THEN [v EXCEPT !.todo = @ \ {e}, !.cur = None,
                                      !.net = 0, !.doomed = {}]
              ELSE IF view[t].run = r /\ view[t].cur = e
                   THEN [view[t] EXCEPT !.doomed = @ \ v.doomed]
                   ELSE view[t]]
        /\ UNCHANGED <<run, env, payouts>>

ComputeFinish(s) ==
    LET v == view[s]
    IN  /\ pc[s] = "compute"
        /\ v.todo = {}
        /\ v.status # "COMPUTED" => Exists(v.run)
        /\ run' = IF v.status = "COMPUTED" THEN run
                  ELSE [run EXCEPT ![v.run] = "COMPUTED"]
        /\ Close(s)
        /\ UNCHANGED <<slip, lines, env, payouts>>
-----------------------------------------------------------------------------
\* Faulty: only COMPUTED payslips follow the payrun.
DirtyComputed(v, new) == {e \in Members(v.slip) : v.slip[e].status = "COMPUTED"}

\* The payslips of the view whose status column the request changes to new.
Dirty(v, new) == {e \in Members(v.slip) : v.slip[e].status # new}

\* One commit that sets the payrun and all its payslips to status new.  An
\* UPDATE of a row that is gone fails (StaleDataError), so does one that
\* would break the unique index: the request can then only abort.
SetStatus(s, new) ==
    LET v == view[s]
        r == v.run
    IN  /\ v.status # new => Exists(r)
        /\ \A e \in Dirty(v, new) : StillThere(slip[r][e])
        /\ run' = IF v.status = new THEN run ELSE [run EXCEPT ![r] = new]
        /\ slip' = [slip EXCEPT ![r] = [e \in Employees |->
                      IF e \in Dirty(v, new)
                      THEN [slip[r][e] EXCEPT !.status = new]
                      ELSE slip[r][e]]]
        /\ UniqueActive(slip')
        /\ Close(s)
        /\ UNCHANGED <<lines, env>>

\* Faulty: a negative net is a warning only.
AuditContractsOnly(r) == \A e \in Members(slip[r]) : running[e]

\* audit_payrun_for_warnings, the blocking errors only.
AuditPasses(r) ==
    \A e \in Members(slip[r]) : slip[r][e].net >= 0 /\ running[e]

\* Faulty: the status is not looked at.
ValidateLoadAny(s, r) == AuditPasses(r) /\ Load(s, r, "validate")

ValidateLoad(s, r) == /\ run[r] = "COMPUTED"
                      /\ AuditPasses(r)
                      /\ Load(s, r, "validate")

ValidateCommit(s) == /\ pc[s] = "validate"
                     /\ SetStatus(s, "VALIDATED")
                     /\ UNCHANGED payouts

MarkPaidLoad(s, r) == /\ run[r] = "VALIDATED"
                      /\ Load(s, r, "pay")

MarkPaidCommit(s) ==
    /\ pc[s] = "pay"
    /\ SetStatus(s, "PAID")
    /\ payouts' = [e \in Employees |->
          IF e \in Members(view[s].slip)
          THEN payouts[e] \cup {view[s].run} ELSE payouts[e]]

\* Faulty: a PAID payrun may be cancelled.
CancelLoadAny(s, r) == Load(s, r, "cancel")

CancelLoad(s, r) == /\ run[r] # "PAID"
                    /\ Load(s, r, "cancel")

CancelCommit(s) == /\ pc[s] = "cancel"
                   /\ SetStatus(s, "CANCELLED")
                   /\ UNCHANGED payouts

DeleteLoad(s, r) == /\ run[r] \in {"DRAFT", "CANCELLED"}
                    /\ Load(s, r, "delete")

\* The DELETE cascades to payslips and lines; it matches no row, and succeeds,
\* when another request has deleted the payrun first.
DeleteCommit(s) ==
    /\ pc[s] = "delete"
    /\ run' = [run EXCEPT ![view[s].run] = "DELETED"]
    /\ slip' = [slip EXCEPT ![view[s].run] = [e \in Employees |-> NoSlip]]
    /\ lines' = [lines EXCEPT ![view[s].run] = [e \in Employees |-> {}]]
    /\ Close(s)
    /\ UNCHANGED <<env, payouts>>
-----------------------------------------------------------------------------
\* The request dies with what it has committed so far: an exception of the
\* engine, a refused commit, a lost connection or a crash of the server.
Abort(s) == /\ pc[s] # "idle"
            /\ Close(s)
            /\ UNCHANGED <<db, env, payouts>>

\* Attendance or approved leave of the period is edited.
InputsChange(e) == /\ \E a \in Amounts \ {basis[e]} :
                         basis' = [basis EXCEPT ![e] = a]
                   /\ UNCHANGED <<db, running, payouts, pc, view>>

\* The employee's contract is activated, cancelled or expires.
ContractChange(e) == /\ running' = [running EXCEPT ![e] = ~@]
                     /\ UNCHANGED <<db, basis, payouts, pc, view>>

Request(s) ==
    \/ CreateCheck(s) \/ CreateCommit(s)
    \/ \E r \in Payruns : ComputeLoad(s, r) \/ ValidateLoad(s, r)
          \/ MarkPaidLoad(s, r) \/ CancelLoad(s, r) \/ DeleteLoad(s, r)
    \/ \E e \in Employees : ComputeRead(s, e)
    \/ ComputePayslip(s) \/ ComputeFinish(s)
    \/ ValidateCommit(s) \/ MarkPaidCommit(s) \/ CancelCommit(s)
    \/ DeleteCommit(s) \/ Abort(s)

\* The history of what a commit changes of a PAID payrun or its payslips.
NoteReopened ==
    reopened' = reopened \cup
        {r \in Payruns : /\ run[r] = "PAID"
                         /\ run'[r] # run[r] \/ slip'[r] # slip[r]}

Step == \/ \E s \in Sessions : Request(s)
        \/ \E e \in Employees : InputsChange(e) \/ ContractChange(e)

Next == Step /\ NoteReopened

Spec == Init /\ [][Next]_vars
=============================================================================
