# PeoplePay360 in TLA+

PeoplePay360 is a payroll back end: FastAPI over async SQLAlchemy and
PostgreSQL (`src/backend`), with a React front end that keeps no state the
server depends on. This directory holds TLA+ modules for the parts of the back
end that go through states, TLC configurations that check them on small
instances, and TLAPS proofs of what holds for instances of every size.

Contents: [how the code runs](#how-the-code-runs), [inventory](#inventory),
[modules](#modules), [runs](#runs), [findings](#findings), [proofs](#proofs),
[bounds and assumptions](#bounds-and-assumptions),
[not modelled](#what-is-not-modelled), [plan](#plan). `PROJECT.json` maps every
definition to the lines it models and every hazard to the properties about it.

## How the code runs

Everything else follows from the session discipline in `db/database.py`:

* Each HTTP request has a session of its own (`get_db`), committed when the
  handler returns and rolled back when it raises. Payrun handlers and the
  e-mail code also commit in the middle.
* The isolation level is READ COMMITTED. A SELECT locks nothing.
* `expire_on_commit=False`, `autoflush=False`: an object stays in the identity
  map with the column values of its first load. A later SELECT of the same row
  returns the same object, old values included, and so does a
  `SELECT ... FOR UPDATE`, which waits for the lock but does not refresh.
* An UPDATE sets the columns whose value differs from the loaded one and no
  others, so two stale writers merge their changes column by column.

Hence the shape of every module: a handler is a **check or load step** (its
guards, on the committed rows, and a copy of what it read in a per-session
view) followed by one or more **commit steps** that act on the view and write
the difference. Any other handler may run in between, and the request may end
without its commit at any point. The repository's tests share one session and
one identity map between all requests (`tests/conftest.py`), so none of them
sees a stale view.

## Inventory

| Component | State | Operations | Interacts with | What is hard | What makes it correct |
|---|---|---|---|---|---|
| Payrun lifecycle (`payrun_service.py`) | `payruns`, `payslips` | create, compute, validate, mark paid, cancel, delete | payslip calculation in a loop, mail task after payment, contracts and attendance as inputs | stale status checks, several commits per compute, a unique index that refuses a late insert | one standing payslip per employee and period; nothing settled uncalculated; PAID is final; nobody paid twice |
| Payslip calculation (`payroll_processing_service.py`) | `payslip_lines`, totals of `payslips` | calculate one payslip | payrun, rule engine, attendance, time off | DELETE and INSERT of lines not serialised; order-dependent totals | lines are those of one calculation and agree with the totals |
| E-mail delivery (`email_delivery_service.py`) | `payslip_email_deliveries` | send all, retry failed, force resend, send one | payrun status, SMTP provider, same rows as the worker | one commit for many mails; stale skip test | SENT is true; no second mail without a reason |
| E-mail worker (`workers/email_worker.py`) | the same rows, a queue (ARQ or asyncio tasks) | claim, fetch, send, retry, record | as above | lost and repeated jobs, crashes, claims written over | a claim is exclusive and ends |
| SMTP provider (`email/smtp_provider.py`) | none | send | relay | accepted mail behind an error | the result classes a caller relies on |
| Time off (`time_off_*_service.py`, `api/time_off.py`) | `time_off_requests`, `time_off_allocations`, `time_off_types` | create, edit, approve, refuse, cancel a request; create, resize, cancel an allocation; switch a type | employees (schedule), attendance | balance check on stale figures, check-then-act overlap, refunds after a switch of type | consumed = taken and not more than granted; live requests disjoint; decisions final |
| Contracts and employees (`contract_service.py`, `employee_service.py`) | `contracts`, `employees` | draft, activate, close, cancel; deactivate an employee | payrun eligibility | overlap of RUNNING contracts is check-then-act, no constraint behind it | at most one running contract per day; none for an inactive employee |
| Salary structures and rules (`salary_rule_engine.py`, `salary_rule_service.py`) | `salary_rules`, `salary_structures` | create, edit, delete, reorder a rule; evaluate | payslip calculation | dependency, sequence and cycle checks without a lock; order-dependent totals | every dependency is evaluated first; totals match a reference |
| Attendance and schedules (`attendance_service.py`, `schedule_service.py`) | `attendances`, `working_schedules` | check in, check out, manual record, correct, delete | payslip calculation, employees | unique day against manual records; check-out and correction of one record; day metrics at the boundaries | one record per day; figures are those of the times; a closed session stays closed |
| Departments, job positions | two reference tables | create, edit, deactivate | employees | deactivation guarded by a count that nothing holds; PATCH without the guard | nobody employed is in an inactive unit |
| Users, roles, tokens (`user_service.py`, `auth_service.py`) | `users`, `roles` | log in, CRUD, link to an employee | employees, all endpoints | link and unlink on accounts read before | a linked account stays with its employee |
| PDF, bank export, dashboard, PDF storage | none, files | read and render | payruns | none (read-only) | |
| Front end | none | | API | | |

## Modules

| Module | What it is |
|---|---|
| `Payrun` | the payrun handlers and the per-payslip transaction |
| `PayrunProps` | what is claimed of them: under overlap, and served one at a time |
| `PayrollLedger` | abstract specification of a payrun, implemented by `Payrun` when requests do not overlap |
| `PayrunProofs` | proofs for `Payrun`: under overlap, and served one at a time, with the step by step implementation of `PayrollLedger` |
| `EmailDelivery` | delivery rows, batch and single requests, workers, queue, relay |
| `EmailProofs` | proofs for `EmailDelivery` |
| `TimeOff` | leave requests and allocations |
| `TimeOffProofs` | proofs for `TimeOff` |
| `Contracts` | contracts, and the two deactivations that look at running ones |
| `ContractsProofs` | proofs for `Contracts` |
| `SalaryRules` | the rules of a salary structure, their check and the engine's symbol table |
| `RulesProofs` | proofs for `SalaryRules` |
| `DayMetrics` | the figures of one day of attendance, as functions |
| `Attendance` | attendance records and the requests that write them |
| `Payslips` | the figures of a payslip and of a preview, computed on the records of `Attendance` |
| `AttendanceProofs` | proofs for `Attendance`, `DayMetrics` and `Payslips` |
| `FoldLemmas` | induction, recursion and sums, for the proofs about totals and symbol tables |
| `Organisation` | departments, positions, schedules, employees and their accounts |
| `OrganisationProofs` | proofs for `Organisation` |
| `MCPayrun`, `MCEmail`, `MCTimeOff`, `MCContracts`, `MCRules`, `MCAttendance`, `MCOrganisation` | instances for TLC: value sets and symmetry |

Operators whose comment starts with "Faulty" are variants of the operator that
follows them, as a plausible slip would have it. The specifications do not use
them; they are there so that each property can be seen to fail on one.

### Payrun

`run`, `slip` and `lines` are the three tables. `lines` keeps each calculation's
lines as a batch of their sum and the session that inserted them, because what
matters is whether the lines of two calculations mix. `running` (is the
contract RUNNING, the employee ACTIVE) and `basis` (the net the engine would
compute now) are the inputs, changed at any time by `ContractChange` and
`InputsChange`. `pc` and `view` are the request of each session.

| Action | Code |
|---|---|
| `CreateCheck`, `CreateCommit` | `create_payrun`: eligibility, then the inserts, which the partial unique index may refuse |
| `ComputeLoad`, `ComputeRead`, `ComputePayslip`, `ComputeFinish` | `compute_payrun`: per payslip its lines are found, deleted, inserted and its totals written in a commit of its own; then the payrun's status |
| `ValidateLoad`/`Commit`, `MarkPaidLoad`/`Commit`, `CancelLoad`/`Commit`, `DeleteLoad`/`Commit` | the handlers of those names; the audit of validate reads nets and contracts |
| `Abort` | the request fails or dies between two commits |

`payouts` and `reopened` are history variables: the payruns that paid an
employee, and the payruns that were written over after they had been PAID
(`NoteReopened`, conjoined to every step).

### EmailDelivery

`row` is the delivery row of each payslip, `jobs` what waits in the queue,
`released` whether the payrun is in a state the handlers send from. A batch
request loads all rows, sends one mail after the other and records everything
in ONE commit (`BatchLoad`, `BatchSend`, `BatchCommit`). A single request loads
the payslip, and `Payslip.email_deliveries` (`lazy="selectin"`) brings the
delivery row along (`SingleLoad`). It sends (`SingleSend`) and selects the row
(`SingleRead`): that answers with the object already loaded and its old values,
and reads something new only if there was no row before. Then it records
(`SingleCommit`), which writes the status only if it differs from the loaded
one. A worker claims with a conditional UPDATE and commits, fetches, sends,
queues the retry and records (`WorkerClaim` ... `WorkerRecord`).
`Dispatch` is the SMTP dialogue: the relay may accept a mail and the caller
still see a temporary failure. `crashed` stands for a process that died, an
exception that leaves the job, and ARQ's job timeout alike. `PendingRow` and
`SubmitJob` are external: in the repository only tests insert PENDING rows and
enqueue first jobs.

`mails`, `explained` and `overwritten` are history: mails accepted, payslips
for which one of the three causes listed at `Dispatch` has occurred, and
payslips whose claim a request recorded over.

### TimeOff

One employee, one type. `alloc` and `request` are the tables, `type` the two
flags, `view` the rows as the session saw them (`seen`, `held`) and as it will
write them (`new`, `left`). Every handler is one of the `...Check` actions,
which read and decide, and then `Insert` or `Update`, in which `Flush` writes
the columns that changed. `create_allocation` and `update_type` depend on no
row another request changes in between and are single steps. `waived` records
the requests that were approved while the type needed no allocation; `upset`
the allocations for which one of the two causes in `Disturbed` has occurred: a
commit on figures that had changed since they were read, or a refund of what
was never taken. `missed` has the sessions that looked whether days were free
and for which another commit has taken one of them since. With these the
properties can be stated for calls that overlap: what breaks them is one of the
named causes and nothing else.

### Contracts

`contract`, `employee` (its status) and `structure` (is it active) are the
rows, `pc` and `view` the request of each session. The handlers read, decide in
Python and commit at the end of the request, so each is a `...Check` action,
which keeps what it read (`seen`) and what it will write (`new`, or `ids`, the
contracts a deactivation will cancel), and one commit.

| Action | Code |
|---|---|
| `CreateCheck`, then `Insert` | `create_contract`: dates, active structure, overlap of running contracts |
| `UpdateCheck`, `ActivateCheck`, `CancelCheck`, then `Update` | `update_contract`, `activate_contract`, `cancel_contract`; `Flush` writes the changed columns only |
| `TerminateCheck`, then `Terminate` | `deactivate_employee` and the contracts it cancels |
| `RetireCheck`, then `Retire`; `Restore` | `update_structure` with `is_active` false, guarded by a count of running contracts, and true |
| `PatchEmployee` | `update_employee`, which may set any status and looks at no contract |
| `Abort` | the request fails or dies and is rolled back |

`missed` is history: the sessions for which, since they decided, another commit
has taken the ground of the decision (`Undermined`): a contract of the employee
that runs on more days, or one more running contract under what is being
deactivated. The overlap rule is nowhere a constraint of the database, and the
plain rules of `DATABASE_SCHEMA.md` (5, 8 and 17) do fail when two requests
overlap. The properties say that nothing else breaks them: each new breach is
the commit of a session in `missed`, or of one whose row has changed since it
was read (`Stale`). Two gaps need no overlap and are kept in the model as they
are in the code: activation looks neither at the employee's status nor at
whether the structure is still active, and a PATCH to TERMINATED cancels no
contract.

### SalaryRules

`rules` holds the rows of one structure, `pc` and `view` the request of each
session. A formula is the set of names in it; amounts, categories and names are
left out. `Ordered` is what `detect_circular_dependencies` accepts, `Complete`
the columns a computation type requires, `Computable` both: the calculation of
a payslip does not raise. The depth-first search of the check is not modelled:
it comes after a test that sequences decrease along every reference and finds
nothing that test has left.

| Action | Code |
|---|---|
| `CreateCheck`, then `Insert` | `create_rule`: unique code and sequence, complete, in order with the other rules |
| `UpdateCheck`, then `Update` | `update_rule`, likewise; `Flush` writes the changed columns only |
| `DeleteCheck`, then `Delete` | `delete_rule`: no other active rule mentions the code |
| `Abort` | a unique constraint refuses the commit, or the request fails or dies |

`Symbols` is the table the engine builds in ascending sequence, with the origin
of each value in place of the value. `overtaken` is history: sessions for which
another commit has changed the row they edit, moved or removed a rule theirs
uses, made a rule use the one they edit, or left the rules out of order.

### DayMetrics, Attendance, Payslips

`DayMetrics` translates `calculate_attendance_metrics`: lateness against the
start of the shift, the break deducted from four hours on, overtime against
hours that the schedule keeps in hundredths. `Attendance` has the records and
the requests:

| Action | Code |
|---|---|
| `CheckInCheck`, `ManualCheck`, then `Insert` | `check_in`, `create_manual_attendance`; the unique constraint may refuse the insert |
| `CheckOutCheck`, then `Update` | `check_out` and `check_out_specific_attendance`, which closes the employee's latest open session, not the record it was given |
| `CorrectCheck`, then `Update` | `update_attendance`; `Flush` writes the changed columns only |
| `Delete`, `SetActive` | `delete_attendance`; an employee leaves or comes back |
| `Abort` | the request fails or dies and is rolled back |

An instant is a minute of UTC. A check-in uses the zone of its request for the
date and the lateness; what is read back from the database is in UTC, so a
check-out computes lateness on the UTC clock. The schemas also take times
without a zone. Such a naive time is stored as a time of the server's zone
(`Local`), which is what the driver makes of it, but next to a time with a zone
`calculate_attendance_metrics` reads it in that zone (`Taken`), and stores it as
it was said: figures and times would disagree. No such record is committed. A
naive check-out cannot be compared with the check-in that was read back
(`CheckOutCheck`), and every handler answers before its transaction is committed,
with an `elapsed_hours` that subtracts the two times and raises TypeError if only
one of them is naive (`Answerable`). `overtaken` and `missed` are
history: sessions whose row, or whose ground, has changed since they read it.

`Payslips` adds what payroll computes on those records when nothing is on its
way: `Aggregate` (days and minutes of a period), `Calculate` (the amounts of
the rules), `Totals` (the loop over categories) and `Preview`. Amounts are
whole cents, percentages are rounded half up, worked days count in halves and
reach the engine as whole days.

### Organisation

`unit` says of each department, position and schedule whether it is active,
`employee` has the columns that refer to them, and `account` the employee an
account is linked to. Writes that look at no other row are one step; the
others are a check (`RetireCheck`, `CreateEmployee`, `UpdateEmployee`,
`LinkUser`, `UnlinkUser`) and a commit (`Retire`, `Hire`, `Patch`, `Link`,
`Unlink`). `Ground` is what a decision rests on: nobody is in the unit, the
units of a new row are active, the account is free or is the employee's.
`missed` has the sessions whose ground is gone.

## Runs

Passing runs:

| Run | Instance | Question and answer |
|---|---|---|
| `payrun_serial` | 2 payruns, 2 employees, 1 session, nets {-1, 0, 1} | Requests one at a time, dying anywhere. `LinesAgree`, `StatusAgrees`, `SettledNetNonNegative`, `PaidIsFinal` hold and the handlers implement `PayrollLedger` (`KeepsLedger`): lifecycle order, figures fixed from validation on, at most one payment per employee and period. |
| `payrun_race` | 2 payruns, 1 employee, 2 sessions | What survives any overlap: nobody is paid by two payruns of a period unless one of them was written over after it was PAID (`PaidOnceUnlessReopened`), what is settled was calculated (`SettledWasCalculated`), a deleted payrun leaves nothing behind (`NoOrphans`). |
| `email_mix` | 1 payslip, 2 requests, 1 worker, one retry | Two deliveries that overlap each other and a worker, with lost jobs, crashes and a relay that breaks off: SENT is true (`SentIsTrue`) and every second mail has a cause (`NoUnexplainedDuplicate`). |
| `email_claims_end` | 1 payslip, 1 request, 2 workers, no retry, fair | A claim is exclusive (`ClaimExclusive`), and a SENDING row leaves that status as long as no process dies, also when a request writes over the claim (`ClaimsEnd`). |
| `timeoff` | 2 requests, 1 allocation of 1 or 2 days, 2 sessions, all four flag settings and switches between them | Any two leave calls may overlap. Only a call overtaken by another one between its look and its commit lets two live requests share a day (`NoOverlap`) or changes a decision (`DecisionsAreFinal`), and the books of an allocation are off (`BooksBalance`) only after one of the causes in `Disturbed`. |
| `contracts_race` | 2 contracts, 1 employee, 1 structure, 2 sessions, starts {1, 2}, ends {1, open} | Any two calls overlap: a second contract applies (`OneContractApplies`), dates turn round (`DatesInOrder`), a deactivation leaves a contract running (`TerminationCancels`, `RetirementGuarded`) only by a commit on lost ground; a cancelled contract never wakes by accident (`CancellationHolds`). |
| `rules_race` | 2 rules, 2 codes, sequences 1 to 3, one base, one formula of a rule and a context name, 2 sessions, one part of a rule changed per update | Any two edits overlap: the structure stops computing only by a commit that was overtaken (`StaysComputable`). `EngineResolves` compares check and engine in every state on the way: a structure the check accepts never makes the engine miss a name or take the value of another rule. |
| `attendance_race` | 2 records, 1 employee, 2 sessions, 2 times to come, one of them naive, and 2 to go; three shifts, one wage or the other, all rule lists of up to two rules out of five and two longer ones | Any two attendance requests overlap: the figures of a record fit its times, whatever mix of naive times and zones was asked for (`FiguresFit`), closed sessions stay closed, a check-out closes the session the employee is in, only the active check in. On all records that come about: a longer stay is worth no less, shift times survive the rounding, periods add up, totals, preview and rounding agree with references that look at categories and not at order. |
| `organisation` | 2 departments, 1 position, 1 schedule, 2 employees, 2 accounts, 2 sessions | Any two requests overlap: somebody is left in an inactive unit only by one of four ways (`NobodyStranded`), a linked account is lost only by its employee's unlink (`LinksHold`). |

Runs that end in a violation, one per finding 1, 3 and 4:
`payrun_paid_not_final`, `email_antispam`, `timeoff_overdraw`.

`NoUnexplainedDuplicate`, `PaidOnceUnlessReopened`, `StaysComputable` and the
properties of `TimeOff`, `Contracts`, `Attendance` and `Organisation` deserve a
word. Under overlap the plain statements ("never two mails", "consumed is what
was taken", "one running contract at a time") are false of this code, as the
findings show. The invariants say that they fail in the listed ways only: no
retry, crash, edit, resize or cancellation path does so without one of them.

## Findings

1. **A PAID payrun can change** (`payrun_paid_not_final`). `cancel_payrun` and
   `compute_payrun` write on the strength of a status read at their first
   statement. `models/payrun.py` says that PAID payruns are frozen.
2. **A payslip can keep the lines of two calculations.** Two computes both
   delete the lines they can see, none, and both insert. `LinesAgree` in the
   instance of `payrun_race` shows it; the code promises nothing about requests
   that overlap, so it is no run of its own.
3. **The anti-spam filter misses a running delivery** (`email_antispam`). The
   skip test uses rows loaded before the first mail, and outcomes are committed
   after the last.
4. **A leave balance can be overdrawn** (`timeoff_overdraw`). `approve_request`
   takes the row lock but checks and increments the figures loaded before it.
   Test scenario 36 and `DATABASE_SCHEMA.md` promise the opposite; the test
   passes because its two calls share one session.

Met on the way and kept in the models as the code has them, but shown by no run:

* `POST /attendance/{id}/check-out` uses the record it names for its employee
  only and closes the latest open session, which may be another one
  (`api/attendance.py`, 121 to 144).
* A PATCH with `is_active` false deactivates a department or position without
  the count of employees that the deactivation makes; deactivating a schedule
  counts nobody. An inactive "Standard 40 Hours/Week" is still the default.
* `employee_service.py` announces that manager cycles are prevented; an employee
  cannot be his own manager, but two can be each other's.
* Leave that reaches over the end of a payroll period counts in full in both
  (`PeriodsAddUp` says so).
* A working schedule cannot be taken from an employee by PATCH: the validator
  turns 0 into null before the branch that looks for it.
* A contract can be activated for an employee who has been terminated and on a
  structure that is inactive, and a PATCH to TERMINATED cancels no contract.
* A bank file is said to be for finalized payruns, and is exported from a
  COMPUTED one, whose figures may still change.

## Proofs

Eight modules hold theorems, for every value of the constants under their
assumptions (`PayrunAssumption`, `EmailAssumption`, `TimeOffAssumption`,
`ContractsAssumption`, `RulesAssumption`, `AttendanceAssumption`,
`OrganisationAssumption`: ranges are integers, 0 is an amount, null keys are no
keys, kinds of unit do not share keys, retry and job limits are positive).

* `PayrunProofs`. `RaceInv` is inductive for any number of payruns, employees
  and sessions. The three properties of `payrun_race` are not inductive alone:
  a compute holds a list of payslips that another request may have deleted, so
  `ViewBound` says the payrun of a view was really loaded and `ViewCalculated`
  that whatever the view takes for calculated still has its lines or is gone.
  `PaidOnce` needs `PaidStands`: whoever is PAID, in a row or in the copy a
  request holds, belongs to a payrun that is PAID, and what was paid stays so
  until the payrun is reopened; the unique index, a conjunct of `RaceInv`, then
  keeps every other payrun from paying the employee. Theorems: `RaceSafety`,
  `TypeCorrect`, `PaidOnce`, `SettledHasLines`, `DeleteIsComplete`.
* `PayrunProofs`, second part. For requests that use one session (`Alone`),
  `SerialInv` adds to `RaceInv` that a request finds the rows as it loaded them
  (`RequestIsCurrent`): its status guard still holds, what a compute has not
  done yet is as it was, what it has done is COMPUTED, the employees chosen for
  a new payrun are free. From it follow what each commit does (the `...Effect`
  lemmas) and then `LinesAlwaysAgree`, `StatusAlwaysAgrees`,
  `NoNegativeSettled`, `PaidRunsAreFinal`, and `LedgerIsKept`: every commit is a
  step of `PayrollLedger` or leaves it alone. That nobody is paid twice
  (`NobodyIsPaidTwice`) rests on `PaidStaysPaid` and the unique index together:
  who was paid has a PAID payslip, so none of his payslips can be VALIDATED in
  another payrun.
* `EmailProofs`. `ClaimsAreExclusive` follows from types and the claim guard.
  `AuditIsTrue` needs `OutcomesTrue` and `OutcomesFresh`: an unrecorded outcome
  SENT belongs to an accepted mail and to none older. `DuplicatesAreExplained`
  needs `Accounted` for each payslip without an explanation: at most one
  unrecorded outcome, failures mean no mail, a row once seen SENT stays SENT.
  With `TypeCorrect` they hold for any number of payslips, requests, workers.
* `TimeOffProofs`. `TypeCorrect` rests on `Books`: a held row exists, keys refer
  to rows (`Linked`), and what will be written is a row, so that a stale
  column-wise flush is one as well; that `consumed` never exceeds the largest
  grant is part of it. `LiveRequestsDisjoint` adds, for a session that looked at
  days and is not in `missed`, that they are still free, and `DecisionsFinal`
  that what a view will write is a legal step from the status it saw. Both hold
  for any number of overlapping calls. `BooksAreBalanced` has an invariant of its
  own, `LedgerInv`: `Few`, that finitely many requests have been made, those
  approved without an allocation among them, so that what was taken is a sum; and `Booked`,
  that what a session is about to write on a request and on its allocation fits
  together (`Fits`): an approval takes what the request asks for, a cancellation
  gives back what it took, a resize leaves the consumed quantity as it was. A commit
  then changes the sum by one row (`Takes`, `Gives`, `Resizes`), or it is one that
  `Disturbed` names. `Booked` and `Few` were model-checked with the instance of
  `timeoff` before they were proved.
* `ContractsProofs`. The properties are action properties, so each needs what
  a view still promises at its commit. `Inv` adds to types that a session which
  is not in `missed` would decide the same again: `Checked`, that no running
  contract conflicts with what it will write, unless its row is stale; and
  `Looked`, that every running contract of the employee is among those to be
  cancelled and none is on the structure. `DatesChecked` says that what will be
  written is in order, `Held` that a key refers to a row. The argument for
  `Checked` is that a row which conflicts after a commit and did not before runs
  on a day it did not, which is `Undermined`. Theorems: `TypeCorrect`,
  `SecondContractExplained`, `DatesStayInOrder`, `TerminationIsClean`,
  `RetirementIsGuarded`, `CancelledStaysCancelled`.
* `RulesProofs`. `StaysComputable` is proved in the same way as the properties of
  `Contracts`: for a session not in `overtaken`, `Fresh` says the row is the one
  it read, `Placed` that the current rules with its new row are in order, and
  `Unneeded` that nothing uses what it deletes. `Placed` survives the commit of
  another because what used the edited rule before still stands where it stood
  (`UserGained`), and could be served by no other rule of the same code: that is
  where `KeysUnique`, the unique constraints, comes in. `SymbolsResolve` follows
  from types alone, by induction on the sequence numbers: after sequence `n` the
  table has the context names and the codes of the active rules up to `n`, each
  with an active rule of that code as its origin (`TableAt`), so a rule that refers backwards
  only, which is what the check demands, finds every name. Theorems:
  `TypeCorrect`, `StructureStaysComputable`, `SymbolsResolve`.
* `AttendanceProofs`. `FiguresAreExplained` needs that the columns a session
  will set make, with the ones it has read, a row whose figures are those of its
  times if the request can be answered; a session whose row has changed since is
  in `overtaken`. Times of any zone and naive ones are covered, under overlap as
  well. The same
  invariant gives `ClosedIsClosed`, `ClosesTheLast` and `OnlyTheActiveCheckIn`.
  `LongerIsNeverLess` and `ShiftTimeIsKept` are facts about the integer
  arithmetic of `DayMetrics`, for shifts and stays of any length. The figures
  of payroll are proved on any finite set of records (`FiniteRows`: requests
  insert one at a time) and for rule lists of any length: `PeriodsShareNothing`
  splits the sum over a period into those over its parts; `TotalsAreByCategory`
  is an induction along the rules, in which `Stands` says what the loop has
  after `k` lines in terms of categories; `PreviewTellsThePayslip` follows from
  it; and `SharesFitTheWage` adds up the roundings, each at most half a cent
  (`Close`).
* `OrganisationProofs`. The invariant says that whoever is not in `missed` still
  has the ground of the decision (`Grounded`), that a view refers to rows that
  are there (`HeldRows`), and that links go to employees, one account each
  (`Linked`). `NobodyIsStranded` and `LinksAreHeld` follow by looking at each
  commit with its ground.

`FoldLemmas` holds what these sums and folds rest on. The induction theorems of
the library take an operator as a parameter, which cannot be instantiated here;
`Induction`, `SubsetInduction` and `NatRecursion` say the same of sets and
functions, and are proved from the fact that every set of naturals with an element has
a least one (`WFMin`). `Total` is the sum of a
function over a finite set: its lemmas say that any element can be taken first,
that only the values on the set count, and how the sum of a union is made. The
proofs then show that what the community modules compute (`MapThenSumSet`,
`FoldLeft`) is that function, by the same argument.

Only model-checked: `ClaimsEnd`, because liveness under fairness (and ENABLED)
is out of the prover's reach. All other properties of the passing runs are
stated by a theorem.

## Bounds and assumptions

* Two of each actor that can conflict, and two rows where rows compete, give
  every pairwise overlap; the proofs remove the bound for the safety properties
  they cover. The modules' constants that bound values are `Amounts`
  (a sign each way), `MaxRetries` (2, one retry and its exhaustion; 1 in
  `email_claims_end`), `MaxJobs`
  = 1 (jobs waiting per delivery), `MaxQuantity` and `Quantities`, `Windows`
  and `Validities` (sets of days 1 and 2: disjoint, contained and equal ranges).
  Counters saturate: `attempts` at `MaxRetries`, `mails` at 2.
* `MaxSequence` (9999 in the schema) and `MaxChanges`, the parts of a rule (code,
  sequence, activity, definition) one update changes: three sequences are needed
  for a rule to move past another, and the merges of two updates need one part each.
* `timeoff` has one allocation that is valid on both days, requests for one day
  each (the same or different ones) and grants of 1 and 2, so that a balance can
  cover one approval or two. Its proofs cover any windows and quantities.
* `attendance_race` has one employee on two days with times on either day, and
  requests that find one short shift; manual entries are for the second day. One
  time to come is naive, and the server is an hour behind UTC, the zone of the
  others. Naive times to go, other zones and any mix are covered by the proofs.
  The functions are compared on three shifts and on stays on both sides of four
  and of eight hours and a few others.
* `organisation` starts with one active department and lets the rest be created;
  two rows can be hired with and three PATCHes made. It checks no type
  invariant: `TypeCorrect` of `OrganisationProofs` is for all sizes.
* Fairness is assumed only in `email_claims_end` (and its specification used by
  `email_antispam`): weak fairness of each worker's own steps. A worker never
  waits for another actor, its SMTP dialogue has a 15 s timeout, and none
  of its statements can block for ever, since a row lock is held no longer than
  the short transaction that took it, so an enabled step is eventually taken
  while the process lives; that it lives is a hypothesis of `ClaimsEnd`.
  Nothing is assumed of requests, of the queue, or of crashes.
* Keys are not reused; all payruns of an instance are for one period; an
  employee has one contract; the figures of a payslip are its net. A request's
  eager loading (`selectinload`) is one step.
* Symmetry is used for interchangeable keys, sessions and actors, and in no run
  that checks liveness. `email_antispam` has a fair specification and symmetry,
  but its property is an action property.
* Deadlock checking is on in all runs: there is always a request to make.
* In `TimeOff`, DRAFT and EXPIRED allocations behave as CANCELLED, APPROVED as
  ACTIVE. The quantity derived from dates and schedule is any member of
  `Quantities`. A row lock only delays a commit, so it leaves no trace in a
  model where a commit is one step.

## What is not modelled

Roles and tokens, schema validation and error texts; PDF layout, storage,
exports and the dashboard (read-only); names, codes and managers. In the
modelled parts: creation of salary structures, deletion of a payrun cascading
to delivery rows, the delay before a retry. In `TimeOff`, deactivation of a type
(looks at pending requests without a lock) and termination of the employee; in
`Contracts`, EXPIRED (as CANCELLED), INACTIVE and ON_LEAVE (as ACTIVE), and
wages; in `SalaryRules`, the parser of formulas. `PROJECT.json` gives the reason
for each component.

These exposures of the code have no property, because the property would only
restate that the code does not look: e-mails handed to a task after the payment
was committed (`payrun_service.py`, 398), a retry queued before its row is
PENDING again (`email_worker.py`, 170), a worker that does not look at the
payrun's status (91), deactivation of a leave type (`time_off_type_service.py`,
151), activation of a contract for a terminated employee
(`contract_service.py`, 388), a PATCH to TERMINATED (`employee_service.py`,
358), rule codes that are reserved names of the engine
(`salary_rule_engine.py`, 249).

## Plan

Done: the payrun core and its ledger with the refinement proved, e-mail
delivery, time off, contracts, salary rules, attendance and the figures of a
payslip, the organisation, each with proofs. Next would be:

1. `Payrun` and `EmailDelivery` composed over the payrun's status and rows, so
   that the deletion of a payrun and the mail task after payment are covered;
   likewise `Contracts` in place of the input `running` of `Payrun`.
2. `TimeOff` with several employees and types, termination and deactivation of a
   type, and an abstract leave account it implements.
3. The parser and evaluator of formulas as functions over small expressions.
