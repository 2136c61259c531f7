--------------------------- MODULE EmailDelivery ---------------------------
(***************************************************************************)
(* Payslip e-mails of one payrun: the table payslip_email_deliveries, the  *)
(* requests that send from the API (email_delivery_service.py) and the     *)
(* background workers (workers/email_worker.py).                           *)
(*                                                                         *)
(* A request for the whole payrun loads the delivery rows once, sends one  *)
(* mail after the other and records every outcome in ONE commit at the     *)
(* end.  A request for a single payslip has the row of that payslip from   *)
(* the moment it loads the payslip, which brings its deliveries with it;   *)
(* the select after the mail answers with that same object and its old     *)
(* values, and finds a newer row only if there was none at first.  A       *)
(* worker claims the row with a conditional UPDATE, commits the claim,     *)
(* sends, and records.  Rows keep the values they were loaded with, and a  *)
(* commit writes the status only if it differs from those.                 *)
(*                                                                         *)
(* Counters saturate: attempts at MaxRetries, mails at 2.                  *)
(***************************************************************************)
EXTENDS Naturals, FiniteSets

CONSTANTS Payslips, Requests, Workers,
          MaxRetries,  \* settings.email_max_retries
          MaxJobs      \* bound: jobs waiting for one delivery

ASSUME EmailAssumption == /\ MaxRetries \in Nat \ {0}
                          /\ MaxJobs \in Nat \ {0}
                          /\ Requests \cap Workers = {}

VARIABLES row,        \* the delivery row of each payslip
          jobs,       \* jobs queued for it, in ARQ or as asyncio tasks
          released,   \* is the payrun VALIDATED or PAID?
          mails,      \* history: mails the relay accepted
          explained,  \* history: payslips with a known cause for a second mail
          overwritten,\* history: payslips whose claim a request wrote over
          crashed,    \* history: a process died
          pc,         \* of every request and worker
          req,        \* what a request has loaded and done
          wrk         \* what a worker has loaded and done

actors == <<pc, req, wrk>>
past   == <<mails, explained, overwritten, crashed>>
vars   == <<row, jobs, released, past, actors>>
-----------------------------------------------------------------------------
Statuses == {"PENDING", "SENDING", "SENT", "FAILED"}
Results  == {"SENT", "TEMPORARY", "PERMANENT"}   \* of email_provider.send_email

Row   == [status : Statuses \cup {"NONE"}, attempts : 0..MaxRetries]
NoRow == [status |-> "NONE", attempts |-> 0]

\* out: what was sent and not recorded yet.
Req   == [forced : BOOLEAN, seen : [Payslips -> Row], todo : SUBSET Payslips,
          out : [Payslips -> Results \cup {"none"}]]
NoReq == [forced |-> FALSE, seen |-> [p \in Payslips |-> NoRow], todo |-> {},
          out |-> [p \in Payslips |-> "none"]]

\* on: the payslip a worker has claimed, as a set of at most one.
Wrk   == [on : SUBSET Payslips, seen : Row, out : Results \cup {"none"}]
NoWrk == [on |-> {}, seen |-> NoRow, out |-> "none"]

RequestSteps == {"idle", "batch", "single", "upsert"}
WorkerSteps  == {"idle", "claimed", "fetched", "sent", "enqueued"}

TypeOK == /\ row \in [Payslips -> Row]
          /\ jobs \in [Payslips -> 0..MaxJobs]
          /\ released \in BOOLEAN /\ crashed \in BOOLEAN
          /\ mails \in [Payslips -> 0..2]
          /\ explained \in SUBSET Payslips
          /\ overwritten \in SUBSET Payslips
          /\ pc \in [Requests \cup Workers -> RequestSteps \cup WorkerSteps]
          /\ req \in [Requests -> Req]
          /\ wrk \in [Workers -> Wrk]

Init == /\ row = [p \in Payslips |-> NoRow]
        /\ jobs = [p \in Payslips |-> 0]
        /\ released = FALSE /\ crashed = FALSE
        /\ mails = [p \in Payslips |-> 0]
        /\ explained = {} /\ overwritten = {}
        /\ pc = [a \in Requests \cup Workers |-> "idle"]
        /\ req = [q \in Requests |-> NoReq]
        /\ wrk = [w \in Workers |-> NoWrk]
-----------------------------------------------------------------------------
\* One more attempt, up to the saturation bound.
Bump(n) == IF n < MaxRetries THEN n + 1 ELSE n

\* Who has sent a mail for p and has not recorded the outcome.
Unrecorded(p) == {q \in Requests : req[q].out[p] # "none"}
                 \cup {w \in Workers : p \in wrk[w].on /\ wrk[w].out # "none"}

\* The SMTP dialogue for payslip p.  The relay may have accepted the mail and
\* the connection still break before quit returns: a TEMPORARY failure for the
\* caller.  Three causes explain a second mail: the row already says SENT and
\* the caller is excused; another actor is between sending and recording; the
\* result hides an accepted mail.
Dispatch(p, result, excused) ==
    \E accepted \in IF result = "SENT" THEN {TRUE}
                    ELSE IF result = "TEMPORARY" THEN BOOLEAN ELSE {FALSE} :
        /\ mails' = [mails EXCEPT ![p] = IF accepted /\ @ < 2 THEN @ + 1 ELSE @]
        /\ explained' =
              IF \/ row[p].status = "SENT" /\ excused
                 \/ Unrecorded(p) # {}
                 \/ accepted /\ result # "SENT"
              THEN explained \cup {p} ELSE explained

\* Faulty: the failure type is written into the status column.
RecordedRaw(result) == result

\* Faulty: a temporary failure is taken for a delivery.
RecordedHopefully(result) ==
    IF result = "PERMANENT" THEN "FAILED" ELSE "SENT"

\* What a request records of a result; workers decide on a retry themselves.
Recorded(result) == IF result = "SENT" THEN "SENT" ELSE "FAILED"

\* Faulty: only the attempt is counted.
UpdatedCountOnly(seen, now, status) ==
    [now EXCEPT !.attempts = Bump(seen.attempts)]

\* The row after the UPDATE of one delivery that was loaded as seen: the
\* attempt count is always written, the status when it differs from seen.
Updated(seen, now, status) ==
    [status   |-> IF seen.status # status THEN status ELSE now.status,
     attempts |-> Bump(seen.attempts)]
-----------------------------------------------------------------------------
(* deliver_payrun_payslips: send, retry and force-resend of a whole payrun. *)

\* Faulty: the skip of what is already SENT is forgotten.
SelectedAll(mode, seen) == TRUE

\* The filter of the loop: with retry_failed_only and without, everything
\* that is not SENT; with force_resend_all, everything.
Selected(mode, seen) == mode = "force" \/ seen.status # "SENT"

BatchLoad(q, mode) ==
    /\ pc[q] = "idle"
    /\ released
    /\ pc' = [pc EXCEPT ![q] = "batch"]
    /\ req' = [req EXCEPT ![q] =
          [NoReq EXCEPT !.forced = (mode = "force"), !.seen = row,
                        !.todo = {p \in Payslips : Selected(mode, row[p])}]]
    /\ UNCHANGED <<row, jobs, released, past, wrk>>

BatchSend(q, p) ==
    /\ pc[q] = "batch"
    /\ p \in req[q].todo
    /\ \E result \in Results :
          /\ Dispatch(p, result,
                      req[q].forced \/ req[q].seen[p].status # "SENT")
          /\ req' = [req EXCEPT ![q].out[p] = result, ![q].todo = @ \ {p}]
    /\ UNCHANGED <<row, jobs, released, overwritten, crashed, pc, wrk>>

\* INSERTs and UPDATEs of all outcomes; the unique constraint refuses an
\* INSERT whose row another actor has created meanwhile.
Insertable(now) == now.status = "NONE"

Record(q) ==
    LET v    == req[q]
        done == {p \in Payslips : v.out[p] # "none"}
    IN  /\ \A p \in done : v.seen[p].status = "NONE" => Insertable(row[p])
        /\ row' = [p \in Payslips |->
              IF p \in done
              THEN Updated(v.seen[p], row[p], Recorded(v.out[p])) ELSE row[p]]
        /\ overwritten' = overwritten \cup
                             {p \in done : row[p].status = "SENDING"}
        /\ pc' = [pc EXCEPT ![q] = "idle"]
        /\ req' = [req EXCEPT ![q] = NoReq]
        /\ UNCHANGED <<jobs, released, mails, explained, crashed, wrk>>

BatchCommit(q) == pc[q] = "batch" /\ req[q].todo = {} /\ Record(q)

(* send_single_payslip_email: no filter. *)

\* The payslip is loaded and, with it, its delivery if there is one:
\* Payslip.email_deliveries is loaded along by a select of its own.
SingleLoad(q, p) ==
    /\ pc[q] = "idle"
    /\ released
    /\ pc' = [pc EXCEPT ![q] = "single"]
    /\ req' = [req EXCEPT ![q] = [NoReq EXCEPT !.forced = TRUE, !.todo = {p},
                                              !.seen[p] = row[p]]]
    /\ UNCHANGED <<row, jobs, released, past, wrk>>

SingleSend(q, p) ==
    /\ pc[q] = "single"
    /\ p \in req[q].todo
    /\ \E result \in Results :
          /\ Dispatch(p, result, TRUE)
          /\ req' = [req EXCEPT ![q].out[p] = result, ![q].todo = {}]
    /\ UNCHANGED <<row, jobs, released, overwritten, crashed, pc, wrk>>

\* The select after the mail: a row already loaded keeps its old values in the
\* session, one that was not there before is read as it is now.
SingleRead(q, p) ==
    /\ pc[q] = "single"
    /\ req[q].out[p] # "none"
    /\ pc' = [pc EXCEPT ![q] = "upsert"]
    /\ req' = [req EXCEPT ![q].seen[p] = IF @.status = "NONE" THEN row[p] ELSE @]
    /\ UNCHANGED <<row, jobs, released, past, wrk>>

SingleCommit(q) == pc[q] = "upsert" /\ Record(q)

\* The request fails or its process dies: nothing it did is recorded.
RequestAbort(q) ==
    /\ pc[q] # "idle"
    /\ explained' = explained \cup {p \in Payslips : req[q].out[p] = "SENT"}
    /\ pc' = [pc EXCEPT ![q] = "idle"]
    /\ req' = [req EXCEPT ![q] = NoReq]
    /\ UNCHANGED <<row, jobs, released, mails, overwritten, crashed, wrk>>
-----------------------------------------------------------------------------
(* _process_delivery_with_session: one job on one delivery. *)

\* Faulty: a second worker may take over a claim.
ClaimableTwice(now) == now.status \in {"PENDING", "SENDING", "FAILED"}

Claimable(now) == now.status \in {"PENDING", "FAILED"}

\* The conditional UPDATE and its commit; without a row to claim the job ends.
WorkerClaim(w, p) ==
    /\ pc[w] = "idle"
    /\ jobs[p] > 0
    /\ jobs' = [jobs EXCEPT ![p] = @ - 1]
    /\ IF Claimable(row[p])
       THEN /\ row' = [row EXCEPT ![p].status = "SENDING"]
            /\ pc' = [pc EXCEPT ![w] = "claimed"]
            /\ wrk' = [wrk EXCEPT ![w].on = {p}]
       ELSE UNCHANGED <<row, pc, wrk>>
    /\ UNCHANGED <<released, past, req>>

WorkerFetch(w, p) ==
    /\ pc[w] = "claimed"
    /\ p \in wrk[w].on
    /\ pc' = [pc EXCEPT ![w] = "fetched"]
    /\ wrk' = [wrk EXCEPT ![w].seen = row[p]]
    /\ UNCHANGED <<row, jobs, released, past, req>>

WorkerSend(w, p) ==
    /\ pc[w] = "fetched"
    /\ p \in wrk[w].on
    /\ \E result \in Results :
          /\ Dispatch(p, result, TRUE)
          /\ wrk' = [wrk EXCEPT ![w].out = result]
    /\ pc' = [pc EXCEPT ![w] = "sent"]
    /\ UNCHANGED <<row, jobs, released, overwritten, crashed, req>>

\* A temporary failure below the limit is tried again.
CanRetry(result, attempts) == result = "TEMPORARY" /\ attempts < MaxRetries

\* The retry is queued before the new status is committed.
WorkerEnqueue(w, p) ==
    /\ pc[w] = "sent"
    /\ p \in wrk[w].on
    /\ CanRetry(wrk[w].out, Bump(wrk[w].seen.attempts))
    /\ jobs' = [jobs EXCEPT ![p] = IF @ < MaxJobs THEN @ + 1 ELSE @]
    /\ pc' = [pc EXCEPT ![w] = "enqueued"]
    /\ UNCHANGED <<row, released, past, req, wrk>>

WorkerRecord(w, p) ==
    LET v     == wrk[w]
        again == CanRetry(v.out, Bump(v.seen.attempts))
    IN  /\ pc[w] = IF again THEN "enqueued" ELSE "sent"
        /\ p \in v.on
        /\ row' = [row EXCEPT ![p] =
              Updated(v.seen, @, IF again THEN "PENDING" ELSE Recorded(v.out))]
        /\ pc' = [pc EXCEPT ![w] = "idle"]
        /\ wrk' = [wrk EXCEPT ![w] = NoWrk]
        /\ UNCHANGED <<jobs, released, past, req>>

\* The worker dies: a claim it had committed stays in the row.
WorkerCrash(w) ==
    /\ pc[w] # "idle"
    /\ explained' = IF wrk[w].out = "SENT" THEN explained \cup wrk[w].on
                    ELSE explained
    /\ crashed' = TRUE
    /\ pc' = [pc EXCEPT ![w] = "idle"]
    /\ wrk' = [wrk EXCEPT ![w] = NoWrk]
    /\ UNCHANGED <<row, jobs, released, mails, overwritten, req>>
-----------------------------------------------------------------------------
(* Around them: payrun status changes, and jobs submitted to the queue. *)

\* The payrun is validated or paid, or it is cancelled; a late commit of
\* mark_payrun_paid may bring a cancelled payrun back.
PayrunStatusChange == /\ released' = ~released
                      /\ UNCHANGED <<row, jobs, past, actors>>

\* A client of the queue inserts a PENDING row, or submits a job for a row.
PendingRow(p) == /\ Insertable(row[p])
                 /\ row' = [row EXCEPT ![p].status = "PENDING"]
                 /\ UNCHANGED <<jobs, released, past, actors>>

SubmitJob(p) == /\ row[p].status # "NONE"
                /\ jobs[p] < MaxJobs
                /\ jobs' = [jobs EXCEPT ![p] = @ + 1]
                /\ UNCHANGED <<row, released, past, actors>>

\* asyncio tasks, the fallback without Redis, end with their process.
JobLost(p) == /\ jobs[p] > 0
              /\ jobs' = [jobs EXCEPT ![p] = @ - 1]
              /\ crashed' = TRUE
              /\ UNCHANGED <<row, released, mails, explained, overwritten,
                             actors>>

RequestNext(q) ==
    \/ \E mode \in {"send", "retry", "force"} : BatchLoad(q, mode)
    \/ \E p \in Payslips :
          \/ BatchSend(q, p)
          \/ SingleLoad(q, p) \/ SingleSend(q, p) \/ SingleRead(q, p)
    \/ BatchCommit(q) \/ SingleCommit(q) \/ RequestAbort(q)

\* What a worker does with a job it has claimed.
WorkerWork(w) == \E p \in Payslips :
    WorkerFetch(w, p) \/ WorkerSend(w, p) \/ WorkerEnqueue(w, p)
       \/ WorkerRecord(w, p)

Next == \/ \E q \in Requests : RequestNext(q)
        \/ \E w \in Workers : \/ WorkerWork(w) \/ WorkerCrash(w)
                              \/ \E p \in Payslips : WorkerClaim(w, p)
        \/ \E p \in Payslips : PendingRow(p) \/ SubmitJob(p) \/ JobLost(p)
        \/ PayrunStatusChange

Spec == Init /\ [][Next]_vars

\* A worker that has begun gets on: every await in it returns, the SMTP
\* dialogue after the 15 s timeout of smtplib at the latest.
Fairness == \A w \in Workers : WF_vars(WorkerWork(w))
FairSpec == Spec /\ Fairness
-----------------------------------------------------------------------------
\* A delivery is recorded as SENT only if the relay accepted a mail for it,
\* whoever overwrote whom: the audit trail never claims a mail nobody got.
SentIsTrue == \A p \in Payslips : row[p].status = "SENT" => mails[p] > 0

\* Nobody gets the same payslip twice without one of the causes in Dispatch,
\* or an outcome that was lost with its process (RequestAbort, WorkerCrash):
\* filter, claim and record together keep every other path from a second mail.
NoUnexplainedDuplicate ==
    \A p \in Payslips : mails[p] > 1 => p \in explained

\* "Atomic database claiming ... to prevent duplicate sends across concurrent
\* workers" (email_worker.py): at most one worker is between the claim and the
\* record of a delivery, and the row says SENDING for as long, unless a request
\* of the API recorded its own outcome over the claim.
InFlight(p) == {w \in Workers : p \in wrk[w].on}
ClaimExclusive ==
    \A p \in Payslips \ overwritten :
        /\ \A v, w \in InFlight(p) : v = w
        /\ InFlight(p) # {} => row[p].status = "SENDING"

\* A claimed delivery does not stay SENDING, as long as no process dies.
ClaimsEnd ==
    [](~crashed) => \A p \in Payslips :
        row[p].status = "SENDING" ~> row[p].status # "SENDING"

\* "Anti-Spam: Automatically skips employees who already have status SENT
\* unless force_resend_all=True" (deliver_payrun_payslips).
AntiSpam ==
    [][\A q \in Requests, p \in Payslips :
          req[q].out[p] = "none" /\ req'[q].out[p] # "none" /\ ~req[q].forced
             => row[p].status # "SENT"]_vars
-----------------------------------------------------------------------------
(* Why the invariants hold. *)

\* An outcome belongs to a mail that was sent and to nothing older.
OutcomesFresh ==
    /\ \A q \in Requests : \A p \in Payslips :
          /\ pc[q] = "idle" \/ p \in req[q].todo => req[q].out[p] = "none"
          /\ pc[q] = "batch" /\ p \in req[q].todo
                => req[q].forced \/ req[q].seen[p].status # "SENT"
    /\ \A w \in Workers :
          /\ pc[w] \in {"sent", "enqueued"} <=> wrk[w].out # "none"
          /\ pc[w] \in {"idle", "claimed"} => wrk[w].seen = NoRow
          /\ \A p, o \in wrk[w].on : p = o

\* An outcome SENT belongs to a mail the relay accepted.
OutcomesTrue ==
    \A p \in Payslips :
        /\ \A q \in Requests : req[q].out[p] = "SENT" => mails[p] > 0
        /\ \A w \in Workers : p \in wrk[w].on /\ wrk[w].out = "SENT"
                                => mails[p] > 0

\* For a payslip without an explanation: one outcome is unrecorded at most, a
\* failure on record or on the way means that no mail was accepted, and a row
\* that has ever been seen as SENT still is.
Accounted(p) ==
    /\ mails[p] < 2
    /\ \A a, b \in Unrecorded(p) : a = b
    /\ mails[p] > 0 /\ Unrecorded(p) = {} => row[p].status = "SENT"
    /\ \A q \in Requests :
          /\ req[q].out[p] \in {"TEMPORARY", "PERMANENT"} => mails[p] = 0
          /\ req[q].seen[p].status = "SENT" => row[p].status = "SENT"
    /\ \A w \in Workers : p \in wrk[w].on =>
          /\ wrk[w].out \in {"TEMPORARY", "PERMANENT"} => mails[p] = 0
          /\ wrk[w].seen.status = "SENT" => row[p].status = "SENT"

MailInv == /\ TypeOK /\ OutcomesFresh /\ OutcomesTrue /\ SentIsTrue
           /\ \A p \in Payslips \ explained : Accounted(p)
=============================================================================
