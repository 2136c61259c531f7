---------------------------- MODULE PayrunProps ----------------------------
(***************************************************************************)
(* What is claimed of Payrun.  The first part holds whatever requests run  *)
(* at the same time; the second holds only while requests are served one   *)
(* at a time, which is what the tests of the repository exercise.          *)
(***************************************************************************)
EXTENDS Payrun
-----------------------------------------------------------------------------
(* Any number of concurrent requests. *)

\* Nobody is paid twice for the period, although two create_payrun may select
\* the same employee before either inserts, and a late compute, validate or pay
\* brings back a payslip that was cancelled and replaced.  The one way left is a
\* payrun that a late request wrote over after it was PAID (PaidIsFinal).
PaidOnceUnlessReopened ==
    \A e \in Employees : \A q, r \in payouts[e] \ reopened : q = r

\* Once a payrun has been COMPUTED, VALIDATED or PAID, every payslip it has was
\* calculated, whatever requests overlapped on the way.  That lines # {} stands
\* for that it was; a structure without active rules yields no rows.
SettledWasCalculated ==
    \A r \in Payruns : run[r] \in {"COMPUTED", "VALIDATED", "PAID"} =>
        \A e \in Members(slip[r]) : lines[r][e] # {}

\* A payrun that was deleted takes everything with it: a request that still
\* holds its payslips in memory brings back no payslip and no line.
NoOrphans ==
    \A r \in Payruns : ~Exists(r) =>
        \A e \in Employees : slip[r][e] = NoSlip /\ lines[r][e] = {}

\* Why the three hold: what a request may rely on between its load and its
\* commits, however many others commit in the meantime.
Loaded(s)     == pc[s] \notin {"idle", "create"}
Calculated(r) == \A e \in Members(slip[r]) : lines[r][e] # {}

\* The payrun of a request was there when it was loaded.
ViewBound == \A s \in Sessions : Loaded(s) =>
    /\ view[s].run \in Payruns
    /\ run[view[s].run] # "ABSENT"
    /\ pc[s] = "line" => view[s].cur \in Employees

\* What the view says was calculated still is, or is deleted.
ViewCalculated == \A s \in Sessions : Loaded(s) =>
    /\ view[s].status \in {"COMPUTED", "VALIDATED", "PAID"}
          => Calculated(view[s].run)
    /\ pc[s] = "validate" => view[s].status = "COMPUTED"
    /\ pc[s] = "pay" => view[s].status = "VALIDATED"
    /\ pc[s] \in {"compute", "line"} =>
          \A e \in Members(slip[view[s].run]) \ view[s].todo :
             lines[view[s].run][e] # {}

\* A payslip that is PAID, in its row or in a view, belongs to a payrun that is
\* PAID, and what was paid stays in that state, until the payrun is reopened.
\* With the unique index no other payrun can then be paid to the employee.
PaidStands == \A r \in Payruns \ reopened, e \in Employees :
    /\ slip[r][e].status = "PAID" => run[r] = "PAID"
    /\ r \in payouts[e] => slip[r][e].status = "PAID"
    /\ \A s \in Sessions :
          Loaded(s) /\ view[s].run = r /\ view[s].slip[e].status = "PAID"
             => slip[r][e].status = "PAID"

RaceInv == /\ TypeOK /\ ViewBound
           /\ UniqueActive(slip) /\ NoOrphans
           /\ SettledWasCalculated /\ ViewCalculated /\ PaidStands
-----------------------------------------------------------------------------
(* One request at a time: Sessions has one element. *)

\* The lines printed on a payslip are those of one calculation, and they sum
\* up to the net stored on it: step 4 of calculate_and_generate_payslip,
\* "Remove previous lines if re-computing".
LinesAgree ==
    \A r \in Payruns, e \in Employees : slip[r][e].status # "NONE" =>
        \/ lines[r][e] = {} /\ slip[r][e].net = 0
        \/ \E b \in lines[r][e] : lines[r][e] = {b} /\ b.net = slip[r][e].net

\* The status of a payslip follows that of its payrun; an interrupted compute
\* leaves calculated payslips in a DRAFT payrun, and nothing else.
StatusAgrees ==
    \A r \in Payruns : Exists(r) =>
        \A e \in Members(slip[r]) :
            \/ slip[r][e].status = run[r]
            \/ slip[r][e].status = "COMPUTED" /\ run[r] = "DRAFT"

\* No payrun is VALIDATED or PAID with a negative net on one of its payslips:
\* the audit of validate_payrun, and no recalculation after it.
SettledNetNonNegative ==
    \A r \in Payruns : run[r] \in {"VALIDATED", "PAID"} =>
        \A e \in Members(slip[r]) : slip[r][e].net >= 0

\* models/payrun.py: "PAID payruns cannot be deleted or recomputed" and
\* "records are historically frozen".
PaidIsFinal ==
    [][\A r \in Payruns : run[r] = "PAID" =>
          run'[r] = "PAID" /\ slip'[r] = slip[r] /\ lines'[r] = lines[r]]_vars

\* Why they hold: while it is alone, a request acts on the rows as they are.
\* What was paid stays PAID, and what has the status of no payrun yet is free.
PaidStaysPaid == \A e \in Employees : \A r \in payouts[e] :
    run[r] = "PAID" /\ e \in Members(slip[r])

\* The status its first look let the handler through with.
GuardOf(step, status) ==
    /\ step \in {"compute", "line"} => status \in {"DRAFT", "COMPUTED"}
    /\ step = "validate" => status = "COMPUTED"
    /\ step = "pay"      => status = "VALIDATED"
    /\ step = "cancel"   => status # "PAID"
    /\ step = "delete"   => status \in {"DRAFT", "CANCELLED"}

ViewIsCurrent(s) ==
    LET v == view[s]
        r == v.run
    IN  /\ Exists(r) /\ v.status = run[r] /\ GuardOf(pc[s], run[r])
        /\ pc[s] \notin {"compute", "line"} => v.slip = slip[r]
        /\ pc[s] = "validate" => \A e \in Members(slip[r]) : slip[r][e].net >= 0

\* A compute has still to do what is as it was loaded; the rest is COMPUTED.
ComputeIsCurrent(s) ==
    LET v == view[s]
        r == v.run
    IN  /\ v.todo \subseteq Members(slip[r])
        /\ \A e \in v.todo : v.slip[e] = slip[r][e]
        /\ \A e \in Members(slip[r]) \ v.todo : slip[r][e].status = "COMPUTED"
        /\ pc[s] = "line" => v.cur \in v.todo /\ v.doomed = lines[r][v.cur]

ChosenAreFree(s) == /\ view[s].todo # {}
                    /\ \A e \in view[s].todo, r \in Payruns : ~Active(slip[r][e])

RequestIsCurrent == \A s \in Sessions :
    /\ Loaded(s) => ViewIsCurrent(s)
    /\ pc[s] \in {"compute", "line"} => ComputeIsCurrent(s)
    /\ pc[s] = "create" => ChosenAreFree(s)

SerialInv == /\ RaceInv /\ LinesAgree /\ StatusAgrees /\ SettledNetNonNegative
             /\ PaidStaysPaid /\ RequestIsCurrent

\* The payruns as the abstract ledger sees them.
Ledger == INSTANCE PayrollLedger WITH
    status <- run,
    member <- [r \in Payruns |-> Members(slip[r])],
    figure <- [r \in Payruns |-> [e \in Employees |-> slip[r][e].net]],
    paidBy <- payouts

\* Served one at a time, the requests implement the abstract ledger: the
\* lifecycle, figures that stop moving at validation, and one payment per
\* employee and period.
KeepsLedger == Ledger!LSpec
=============================================================================
