---------------------------- MODULE EmailProofs ----------------------------
(***************************************************************************)
(* The invariants of EmailDelivery for every number of payslips, requests, *)
(* workers and retries, proved by induction over Next.                     *)
(***************************************************************************)
EXTENDS EmailDelivery, TLAPS

LEMMA NoRowType == NoRow \in Row
  BY EmailAssumption DEF NoRow, Row

LEMMA NoReqType == NoReq \in Req
  BY NoRowType DEF NoReq, Req

LEMMA NoWrkType == NoWrk \in Wrk
  BY NoRowType DEF NoWrk, Wrk

\* What is written to a row is a row.
LEMMA UpdatedType ==
  ASSUME NEW seen \in Row, NEW now \in Row, NEW status \in Statuses
  PROVE  Updated(seen, now, status) \in Row
<1>1. Bump(seen.attempts) \in 0..MaxRetries
  BY EmailAssumption DEF Bump, Row
<1>2. (IF seen.status # status THEN status ELSE now.status)
         \in Statuses \cup {"NONE"}
  BY DEF Row
<1>3. QED
  BY <1>1, <1>2 DEF Updated, Row

LEMMA RecordedType ==
  ASSUME NEW result
  PROVE  Recorded(result) \in {"SENT", "FAILED"}
  BY DEF Recorded

\* What a request has done stays well formed when it notes a result.
LEMMA OutcomeType ==
  ASSUME NEW v \in Req, NEW p \in Payslips, NEW result \in Results,
         NEW rest \in SUBSET Payslips
  PROVE  [v EXCEPT !.out[p] = result, !.todo = rest] \in Req
<1>1. [v.out EXCEPT ![p] = result] \in [Payslips -> Results \cup {"none"}]
  BY DEF Req
<1>2. QED
  BY <1>1 DEF Req

\* Everything a step may use of an SMTP dialogue.
LEMMA DispatchFacts ==
  ASSUME TypeOK, NEW p \in Payslips, NEW result \in Results, NEW excused,
         Dispatch(p, result, excused)
  PROVE  /\ mails' \in [Payslips -> 0..2]
         /\ explained' \in SUBSET Payslips
         /\ explained \subseteq explained'
         /\ explained' \subseteq explained \cup {p}
         /\ \A o \in Payslips : mails'[o] >= mails[o]
         /\ \A o \in Payslips \ {p} : mails'[o] = mails[o]
         /\ result = "SENT" => mails'[p] > 0
         /\ p \notin explained' =>
               /\ ~(row[p].status = "SENT" /\ excused)
               /\ Unrecorded(p) = {}
               /\ result # "SENT" => mails'[p] = mails[p]
               /\ mails'[p] <= mails[p] + 1
<1>1. PICK accepted \in BOOLEAN :
         /\ result = "SENT" => accepted
         /\ mails' = [mails EXCEPT ![p] = IF accepted /\ @ < 2 THEN @ + 1 ELSE @]
         /\ explained' = IF \/ row[p].status = "SENT" /\ excused
                            \/ Unrecorded(p) # {}
                            \/ accepted /\ result # "SENT"
                         THEN explained \cup {p} ELSE explained
  BY DEF Dispatch
<1>2. mails \in [Payslips -> 0..2] /\ explained \in SUBSET Payslips
  BY DEF TypeOK
<1>3. /\ mails' \in [Payslips -> 0..2]
      /\ \A o \in Payslips : mails'[o] >= mails[o]
      /\ \A o \in Payslips \ {p} : mails'[o] = mails[o]
      /\ result = "SENT" => mails'[p] > 0
      /\ ~accepted => mails'[p] = mails[p]
      /\ mails'[p] <= mails[p] + 1
  BY <1>1, <1>2
<1>4. /\ explained' \in SUBSET Payslips
      /\ explained \subseteq explained'
      /\ explained' \subseteq explained \cup {p}
  BY <1>1, <1>2
<1>5. p \notin explained' =>
         /\ ~(row[p].status = "SENT" /\ excused)
         /\ Unrecorded(p) = {}
         /\ ~(accepted /\ result # "SENT")
  BY <1>1
<1>6. QED
  BY <1>3, <1>4, <1>5
-----------------------------------------------------------------------------
LEMMA TypeInit == Init => TypeOK
<1> SUFFICES ASSUME Init PROVE TypeOK
  OBVIOUS
<1>1. /\ row \in [Payslips -> Row]
      /\ req \in [Requests -> Req]
      /\ wrk \in [Workers -> Wrk]
  BY NoRowType, NoReqType, NoWrkType DEF Init
<1>2. /\ jobs \in [Payslips -> 0..MaxJobs]
      /\ mails \in [Payslips -> 0..2]
      /\ pc \in [Requests \cup Workers -> RequestSteps \cup WorkerSteps]
  BY EmailAssumption DEF Init, RequestSteps, WorkerSteps
<1>3. QED
  BY <1>1, <1>2 DEF Init, TypeOK

\* The commit of a request leaves rows, and closes its session.
LEMMA RecordType ==
  ASSUME TypeOK, NEW q \in Requests, Record(q)
  PROVE  TypeOK'
<1>1. \A p \in Payslips :
         Updated(req[q].seen[p], row[p], Recorded(req[q].out[p])) \in Row
  <2>1. ASSUME NEW p \in Payslips
        PROVE  /\ req[q].seen[p] \in Row /\ row[p] \in Row
               /\ Recorded(req[q].out[p]) \in Statuses
    BY RecordedType DEF TypeOK, Req, Statuses
  <2>2. QED
    BY <2>1, UpdatedType
<1>2. row' \in [Payslips -> Row]
  BY <1>1 DEF Record, TypeOK
<1>3. /\ overwritten' \in SUBSET Payslips
      /\ req' \in [Requests -> Req]
      /\ pc' \in [Requests \cup Workers -> RequestSteps \cup WorkerSteps]
  BY NoReqType DEF Record, TypeOK, RequestSteps
<1>4. QED
  BY <1>2, <1>3 DEF Record, TypeOK

LEMMA RequestType ==
  ASSUME TypeOK, NEW q \in Requests, RequestNext(q)
  PROVE  TypeOK'
<1>1. CASE \E mode \in {"send", "retry", "force"} : BatchLoad(q, mode)
  <2>1. PICK mode \in {"send", "retry", "force"} : BatchLoad(q, mode)
    BY <1>1
  <2>2. [NoReq EXCEPT !.forced = (mode = "force"), !.seen = row,
           !.todo = {p \in Payslips : Selected(mode, row[p])}] \in Req
    BY NoReqType DEF TypeOK, Req
  <2>3. /\ req' \in [Requests -> Req]
        /\ pc' \in [Requests \cup Workers -> RequestSteps \cup WorkerSteps]
    BY <2>1, <2>2 DEF BatchLoad, TypeOK, RequestSteps
  <2>4. QED
    BY <2>1, <2>3 DEF BatchLoad, TypeOK, past
<1>2. CASE \E p \in Payslips : BatchSend(q, p)
  <2>1. PICK p \in Payslips, result \in Results :
           /\ Dispatch(p, result,
                       req[q].forced \/ req[q].seen[p].status # "SENT")
           /\ req' = [req EXCEPT ![q].out[p] = result, ![q].todo = @ \ {p}]
           /\ UNCHANGED <<row, jobs, released, overwritten, crashed, pc, wrk>>
    BY <1>2 DEF BatchSend
  <2>2. [req[q] EXCEPT !.out[p] = result, !.todo = @ \ {p}] \in Req
    <3>1. req[q] \in Req /\ req[q].todo \ {p} \in SUBSET Payslips
      BY DEF TypeOK, Req
    <3>2. QED
      BY <3>1, OutcomeType
  <2>3. req' \in [Requests -> Req]
    BY <2>1, <2>2 DEF TypeOK
  <2>4. QED
    BY <2>1, <2>3, DispatchFacts DEF TypeOK
<1>3. CASE \E p \in Payslips : SingleLoad(q, p)
  <2>1. PICK p \in Payslips : SingleLoad(q, p)
    BY <1>3
  <2>2. [NoReq EXCEPT !.forced = TRUE, !.todo = {p}, !.seen[p] = row[p]] \in Req
    BY NoReqType DEF TypeOK, Req
  <2>3. /\ req' \in [Requests -> Req]
        /\ pc' \in [Requests \cup Workers -> RequestSteps \cup WorkerSteps]
    BY <2>1, <2>2 DEF SingleLoad, TypeOK, RequestSteps
  <2>4. QED
    BY <2>1, <2>3 DEF SingleLoad, TypeOK, past
<1>4. CASE \E p \in Payslips : SingleSend(q, p)
  <2>1. PICK p \in Payslips, result \in Results :
           /\ Dispatch(p, result, TRUE)
           /\ req' = [req EXCEPT ![q].out[p] = result, ![q].todo = {}]
           /\ UNCHANGED <<row, jobs, released, overwritten, crashed, pc, wrk>>
    BY <1>4 DEF SingleSend
  <2>2. [req[q] EXCEPT !.out[p] = result, !.todo = {}] \in Req
    BY OutcomeType DEF TypeOK
  <2>3. req' \in [Requests -> Req]
    BY <2>1, <2>2 DEF TypeOK
  <2>4. QED
    BY <2>1, <2>3, DispatchFacts DEF TypeOK
<1>5. CASE BatchCommit(q) \/ SingleCommit(q)
  BY <1>5, RecordType DEF BatchCommit, SingleCommit
<1>6. CASE \E p \in Payslips : SingleRead(q, p)
  <2>1. PICK p \in Payslips : SingleRead(q, p)
    BY <1>6
  <2>2. req' \in [Requests -> Req]
    BY <2>1 DEF SingleRead, TypeOK, Req
  <2>3. pc' \in [Requests \cup Workers -> RequestSteps \cup WorkerSteps]
    BY <2>1 DEF SingleRead, TypeOK, RequestSteps
  <2>4. QED
    BY <2>1, <2>2, <2>3 DEF SingleRead, TypeOK, past
<1>7. CASE RequestAbort(q)
  <2>1. /\ req' \in [Requests -> Req]
        /\ pc' \in [Requests \cup Workers -> RequestSteps \cup WorkerSteps]
        /\ explained' \in SUBSET Payslips
    BY <1>7, NoReqType DEF RequestAbort, TypeOK, RequestSteps
  <2>2. QED
    BY <1>7, <2>1 DEF RequestAbort, TypeOK
<1>8. QED
  BY <1>1, <1>2, <1>3, <1>4, <1>5, <1>6, <1>7 DEF RequestNext

LEMMA WorkerType ==
  ASSUME TypeOK, NEW w \in Workers, NEW p \in Payslips,
         \/ WorkerClaim(w, p) \/ WorkerFetch(w, p) \/ WorkerSend(w, p)
         \/ WorkerEnqueue(w, p) \/ WorkerRecord(w, p)
  PROVE  TypeOK'
<1> USE DEF WorkerSteps
<1>1. CASE WorkerClaim(w, p)
  <2>1. [row[p] EXCEPT !.status = "SENDING"] \in Row
    BY DEF TypeOK, Row, Statuses
  <2>2. [wrk[w] EXCEPT !.on = {p}] \in Wrk
    BY DEF TypeOK, Wrk
  <2>3. /\ row' \in [Payslips -> Row]
        /\ wrk' \in [Workers -> Wrk]
        /\ pc' \in [Requests \cup Workers -> RequestSteps \cup WorkerSteps]
    BY <1>1, <2>1, <2>2 DEF WorkerClaim, TypeOK
  <2>4. jobs' \in [Payslips -> 0..MaxJobs]
    BY <1>1, EmailAssumption DEF WorkerClaim, TypeOK
  <2>5. QED
    BY <1>1, <2>3, <2>4 DEF WorkerClaim, TypeOK, past
<1>2. CASE WorkerFetch(w, p)
  <2>1. [wrk[w] EXCEPT !.seen = row[p]] \in Wrk
    BY DEF TypeOK, Wrk
  <2>2. /\ wrk' \in [Workers -> Wrk]
        /\ pc' \in [Requests \cup Workers -> RequestSteps \cup WorkerSteps]
    BY <1>2, <2>1 DEF WorkerFetch, TypeOK
  <2>3. QED
    BY <1>2, <2>2 DEF WorkerFetch, TypeOK, past
<1>3. CASE WorkerSend(w, p)
  <2>1. PICK result \in Results : /\ Dispatch(p, result, TRUE)
                                  /\ wrk' = [wrk EXCEPT ![w].out = result]
    BY <1>3 DEF WorkerSend
  <2>2. [wrk[w] EXCEPT !.out = result] \in Wrk
    BY DEF TypeOK, Wrk
  <2>3. /\ wrk' \in [Workers -> Wrk]
        /\ pc' \in [Requests \cup Workers -> RequestSteps \cup WorkerSteps]
    BY <1>3, <2>1, <2>2 DEF WorkerSend, TypeOK
  <2>4. QED
    BY <1>3, <2>1, <2>3, DispatchFacts DEF WorkerSend, TypeOK
<1>4. CASE WorkerEnqueue(w, p)
  <2>1. /\ jobs' \in [Payslips -> 0..MaxJobs]
        /\ pc' \in [Requests \cup Workers -> RequestSteps \cup WorkerSteps]
    BY <1>4, EmailAssumption DEF WorkerEnqueue, TypeOK
  <2>2. QED
    BY <1>4, <2>1 DEF WorkerEnqueue, TypeOK, past
<1>5. CASE WorkerRecord(w, p)
  <2>1. PICK status \in Statuses :
           row' = [row EXCEPT ![p] = Updated(wrk[w].seen, @, status)]
    BY <1>5, RecordedType DEF WorkerRecord, Statuses
  <2>2. row' \in [Payslips -> Row]
    BY <2>1, UpdatedType DEF TypeOK, Wrk
  <2>3. /\ wrk' \in [Workers -> Wrk]
        /\ pc' \in [Requests \cup Workers -> RequestSteps \cup WorkerSteps]
    BY <1>5, NoWrkType DEF WorkerRecord, TypeOK
  <2>4. QED
    BY <1>5, <2>2, <2>3 DEF WorkerRecord, TypeOK, past
<1>6. QED
  BY <1>1, <1>2, <1>3, <1>4, <1>5

LEMMA AroundType ==
  ASSUME TypeOK,
         \/ \E w \in Workers : WorkerCrash(w)
         \/ \E p \in Payslips : PendingRow(p) \/ SubmitJob(p) \/ JobLost(p)
         \/ PayrunStatusChange
  PROVE  TypeOK'
<1>1. ASSUME NEW w \in Workers, WorkerCrash(w) PROVE TypeOK'
  <2>1. /\ explained' \in SUBSET Payslips
        /\ wrk' \in [Workers -> Wrk]
        /\ pc' \in [Requests \cup Workers -> RequestSteps \cup WorkerSteps]
    BY <1>1, NoWrkType DEF WorkerCrash, TypeOK, Wrk, WorkerSteps
  <2>2. QED
    BY <1>1, <2>1 DEF WorkerCrash, TypeOK
<1>2. ASSUME NEW p \in Payslips, PendingRow(p) PROVE TypeOK'
  <2>1. [row[p] EXCEPT !.status = "PENDING"] \in Row
    BY DEF TypeOK, Row, Statuses
  <2>2. row' \in [Payslips -> Row]
    BY <1>2, <2>1 DEF PendingRow, TypeOK
  <2>3. QED
    BY <1>2, <2>2 DEF PendingRow, TypeOK, past, actors
<1>3. ASSUME NEW p \in Payslips, SubmitJob(p) \/ JobLost(p) PROVE TypeOK'
  <2>1. PICK n \in 0..MaxJobs : jobs' = [jobs EXCEPT ![p] = n]
    <3>1. jobs[p] \in 0..MaxJobs
      BY DEF TypeOK
    <3>2. CASE SubmitJob(p)
      <4>1. jobs[p] + 1 \in 0..MaxJobs
        BY <3>1, <3>2, EmailAssumption DEF SubmitJob
      <4>2. QED
        BY <3>2, <4>1 DEF SubmitJob
    <3>3. CASE JobLost(p)
      <4>1. jobs[p] - 1 \in 0..MaxJobs
        BY <3>1, <3>3, EmailAssumption DEF JobLost
      <4>2. QED
        BY <3>3, <4>1 DEF JobLost
    <3>4. QED
      BY <1>3, <3>2, <3>3
  <2>2. jobs' \in [Payslips -> 0..MaxJobs] /\ crashed' \in BOOLEAN
    BY <1>3, <2>1 DEF SubmitJob, JobLost, TypeOK, past
  <2>3. QED
    BY <1>3, <2>2 DEF SubmitJob, JobLost, TypeOK, past, actors
<1>4. CASE PayrunStatusChange
  BY <1>4 DEF PayrunStatusChange, TypeOK, past, actors
<1>5. QED
  BY <1>1, <1>2, <1>3, <1>4

LEMMA TypeStep == TypeOK /\ [Next]_vars => TypeOK'
<1> SUFFICES ASSUME TypeOK, [Next]_vars PROVE TypeOK'
  OBVIOUS
<1>1. CASE UNCHANGED vars
  BY <1>1 DEF TypeOK, vars, past, actors
<1>2. CASE \E q \in Requests : RequestNext(q)
  BY <1>2, RequestType
<1>3. CASE \E w \in Workers : \/ WorkerWork(w)
                               \/ \E p \in Payslips : WorkerClaim(w, p)
  BY <1>3, WorkerType DEF WorkerWork
<1>4. QED
  BY <1>1, <1>2, <1>3, AroundType DEF Next

\* All rows, requests and workers stay well formed, for any number of them.
THEOREM TypeCorrect == Spec => []TypeOK
  BY TypeInit, TypeStep, PTL DEF Spec
-----------------------------------------------------------------------------
\* Only a claim adds a worker to a delivery.
LEMMA ClaimStep == TypeOK /\ ClaimExclusive /\ [Next]_vars => ClaimExclusive'
<1> SUFFICES ASSUME TypeOK, ClaimExclusive, [Next]_vars,
                    NEW p \in Payslips, p \notin overwritten'
             PROVE  /\ \A v, w \in InFlight(p)' : v = w
                    /\ InFlight(p)' # {} => row'[p].status = "SENDING"
  BY DEF ClaimExclusive
<1> DEFINE Still == p \notin overwritten /\ InFlight(p)' \subseteq InFlight(p)
<1>1. ASSUME Still, InFlight(p) = {} \/ row'[p].status = row[p].status
      PROVE  /\ \A v, w \in InFlight(p)' : v = w
             /\ InFlight(p)' # {} => row'[p].status = "SENDING"
  BY <1>1 DEF ClaimExclusive
<1>2. CASE UNCHANGED vars
  BY <1>1, <1>2 DEF vars, past, actors, InFlight
<1>3. ASSUME NEW q \in Requests, Record(q)
      PROVE  Still /\ (InFlight(p) = {} \/ row'[p].status = row[p].status)
  <2>1. Still
    BY <1>3 DEF Record, InFlight
  <2>2. row[p].status # "SENDING" \/ req[q].out[p] = "none"
    BY <1>3 DEF Record
  <2>3. req[q].out[p] = "none" => row'[p] = row[p]
    BY <1>3 DEF Record
  <2>4. QED
    BY <2>1, <2>2, <2>3 DEF ClaimExclusive
<1>4. ASSUME NEW q \in Requests, RequestNext(q)
      PROVE  Still /\ (InFlight(p) = {} \/ row'[p].status = row[p].status)
  <2>1. CASE BatchCommit(q) \/ SingleCommit(q)
    BY <2>1, <1>3 DEF BatchCommit, SingleCommit
  <2>2. CASE ~(BatchCommit(q) \/ SingleCommit(q))
    BY <1>4, <2>2 DEF RequestNext, BatchLoad, BatchSend, SingleLoad,
       SingleSend, SingleRead, RequestAbort, past, InFlight
  <2>3. QED
    BY <2>1, <2>2
<1>5. ASSUME NEW w \in Workers, NEW o \in Payslips, WorkerClaim(w, o)
      PROVE  /\ \A u, v \in InFlight(p)' : u = v
             /\ InFlight(p)' # {} => row'[p].status = "SENDING"
  <2>1. p \notin overwritten
    BY <1>5 DEF WorkerClaim, past
  <2>2. CASE Claimable(row[o]) /\ o = p
    <3>1. InFlight(p) = {}
      BY <2>1, <2>2 DEF ClaimExclusive, Claimable
    <3>2. row'[p].status = "SENDING" /\ InFlight(p)' \subseteq {w}
      BY <1>5, <2>2, <3>1 DEF WorkerClaim, InFlight, TypeOK, Row
    <3>3. QED
      BY <3>2
  <2>3. CASE ~Claimable(row[o]) \/ o # p
    <3>1. InFlight(p)' \subseteq InFlight(p) /\ row'[p] = row[p]
      BY <1>5, <2>3 DEF WorkerClaim, InFlight, TypeOK, Wrk
    <3>2. QED
      BY <1>1, <2>1, <3>1
  <2>4. QED
    BY <2>2, <2>3
<1>6. ASSUME NEW w \in Workers, NEW o \in Payslips,
             WorkerFetch(w, o) \/ WorkerSend(w, o) \/ WorkerEnqueue(w, o)
      PROVE  Still /\ row'[p] = row[p]
  <2>1. overwritten' = overwritten /\ row' = row
    BY <1>6 DEF WorkerFetch, WorkerSend, WorkerEnqueue, past
  <2>2. \A v \in Workers : wrk'[v].on = wrk[v].on
    <3>1. wrk \in [Workers -> Wrk]
      BY DEF TypeOK
    <3>2. CASE WorkerFetch(w, o)
      BY <3>1, <3>2 DEF WorkerFetch, Wrk
    <3>3. CASE WorkerSend(w, o)
      BY <3>1, <3>3 DEF WorkerSend, Wrk
    <3>4. CASE WorkerEnqueue(w, o)
      BY <3>4 DEF WorkerEnqueue
    <3>5. QED
      BY <1>6, <3>2, <3>3, <3>4
  <2>3. QED
    BY <2>1, <2>2 DEF InFlight
<1>7. ASSUME NEW w \in Workers, NEW o \in Payslips, WorkerRecord(w, o)
      PROVE  /\ \A u, v \in InFlight(p)' : u = v
             /\ InFlight(p)' # {} => row'[p].status = "SENDING"
  <2>1. p \notin overwritten /\ o \in wrk[w].on
    BY <1>7 DEF WorkerRecord, past
  <2>2. InFlight(p)' \subseteq InFlight(p) \ {w}
    BY <1>7 DEF WorkerRecord, InFlight, TypeOK, NoWrk
  <2>3. CASE o = p
    BY <2>1, <2>2, <2>3 DEF ClaimExclusive, InFlight
  <2>4. CASE o # p
    <3>1. row'[p] = row[p]
      BY <1>7, <2>4 DEF WorkerRecord
    <3>2. QED
      BY <1>1, <2>1, <2>2, <3>1
  <2>5. QED
    BY <2>3, <2>4
<1>8. ASSUME NEW w \in Workers, WorkerCrash(w)
      PROVE  Still /\ row'[p] = row[p]
  BY <1>8 DEF WorkerCrash, InFlight, TypeOK, NoWrk
<1>9. ASSUME NEW o \in Payslips, PendingRow(o)
      PROVE  Still /\ (InFlight(p) = {} \/ row'[p].status = row[p].status)
  <2>1. Still
    BY <1>9 DEF PendingRow, past, actors, InFlight
  <2>2. o # p => row'[p] = row[p]
    BY <1>9 DEF PendingRow
  <2>3. o = p => row[p].status = "NONE"
    BY <1>9 DEF PendingRow, Insertable
  <2>4. QED
    BY <2>1, <2>2, <2>3 DEF ClaimExclusive
<1>10. ASSUME \/ \E o \in Payslips : SubmitJob(o) \/ JobLost(o)
              \/ PayrunStatusChange
       PROVE  Still /\ row'[p] = row[p]
  BY <1>10 DEF SubmitJob, JobLost, PayrunStatusChange, past, actors, InFlight
<1>11. QED
  BY <1>1, <1>2, <1>4, <1>5, <1>6, <1>7, <1>8, <1>9, <1>10
     DEF Next, WorkerWork

\* A claim is exclusive for any number of workers and requests, as long as no
\* request records over it.
THEOREM ClaimsAreExclusive == Spec => []ClaimExclusive
<1>1. Init => ClaimExclusive
  BY DEF Init, ClaimExclusive, InFlight, NoWrk
<1>2. QED
  BY <1>1, TypeCorrect, ClaimStep, PTL DEF Spec
-----------------------------------------------------------------------------
\* A step of a request leaves every other actor alone.
LEMMA RequestFrame ==
  ASSUME TypeOK, NEW q \in Requests, RequestNext(q)
  PROVE  /\ wrk' = wrk
         /\ \A w \in Workers : pc'[w] = pc[w]
         /\ \A t \in Requests \ {q} : pc'[t] = pc[t] /\ req'[t] = req[t]
<1>1. /\ req \in [Requests -> Req]
      /\ pc \in [Requests \cup Workers -> RequestSteps \cup WorkerSteps]
      /\ q \notin Workers
  BY EmailAssumption DEF TypeOK
<1>2. PICK step, v : /\ pc' = pc \/ pc' = [pc EXCEPT ![q] = step]
                     /\ req' = [req EXCEPT ![q] = v]
                     /\ wrk' = wrk
  <2>1. ASSUME NEW mode \in {"send", "retry", "force"}, BatchLoad(q, mode)
        PROVE  \E step, v : /\ pc' = pc \/ pc' = [pc EXCEPT ![q] = step]
                            /\ req' = [req EXCEPT ![q] = v]
                            /\ wrk' = wrk
    BY <2>1 DEF BatchLoad
  <2>2. ASSUME NEW p \in Payslips,
               \/ BatchSend(q, p) \/ SingleRead(q, p)
               \/ SingleLoad(q, p) \/ SingleSend(q, p)
        PROVE  \E step, v : /\ pc' = pc \/ pc' = [pc EXCEPT ![q] = step]
                            /\ req' = [req EXCEPT ![q] = v]
                            /\ wrk' = wrk
    BY <2>2 DEF BatchSend, SingleLoad, SingleSend, SingleRead
  <2>3. ASSUME BatchCommit(q) \/ SingleCommit(q) \/ RequestAbort(q)
        PROVE  \E step, v : /\ pc' = pc \/ pc' = [pc EXCEPT ![q] = step]
                            /\ req' = [req EXCEPT ![q] = v]
                            /\ wrk' = wrk
    BY <2>3 DEF BatchCommit, SingleCommit, RequestAbort, Record
  <2>4. QED
    BY <2>1, <2>2, <2>3 DEF RequestNext
<1>3. QED
  BY <1>1, <1>2

LEMMA WorkerFrame ==
  ASSUME TypeOK, NEW w \in Workers,
         \/ WorkerWork(w) \/ WorkerCrash(w)
         \/ \E p \in Payslips : WorkerClaim(w, p)
  PROVE  /\ req' = req
         /\ \A q \in Requests : pc'[q] = pc[q]
         /\ \A v \in Workers \ {w} : pc'[v] = pc[v] /\ wrk'[v] = wrk[v]
<1>1. /\ wrk \in [Workers -> Wrk]
      /\ pc \in [Requests \cup Workers -> RequestSteps \cup WorkerSteps]
      /\ w \notin Requests
  BY EmailAssumption DEF TypeOK
<1>2. PICK step, v : /\ pc' = pc \/ pc' = [pc EXCEPT ![w] = step]
                     /\ wrk' = wrk \/ wrk' = [wrk EXCEPT ![w] = v]
                     /\ req' = req
  <2>1. ASSUME NEW p \in Payslips, WorkerClaim(w, p) \/ WorkerFetch(w, p)
        PROVE  \E step, v : /\ pc' = pc \/ pc' = [pc EXCEPT ![w] = step]
                            /\ wrk' = wrk \/ wrk' = [wrk EXCEPT ![w] = v]
                            /\ req' = req
    BY <2>1 DEF WorkerClaim, WorkerFetch
  <2>2. ASSUME NEW p \in Payslips,
               WorkerSend(w, p) \/ WorkerEnqueue(w, p) \/ WorkerRecord(w, p)
        PROVE  \E step, v : /\ pc' = pc \/ pc' = [pc EXCEPT ![w] = step]
                            /\ wrk' = wrk \/ wrk' = [wrk EXCEPT ![w] = v]
                            /\ req' = req
    BY <2>2 DEF WorkerSend, WorkerEnqueue, WorkerRecord
  <2>3. ASSUME WorkerCrash(w)
        PROVE  \E step, v : /\ pc' = pc \/ pc' = [pc EXCEPT ![w] = step]
                            /\ wrk' = wrk \/ wrk' = [wrk EXCEPT ![w] = v]
                            /\ req' = req
    BY <2>3 DEF WorkerCrash
  <2>4. QED
    BY <2>1, <2>2, <2>3 DEF WorkerWork
<1>3. QED
  BY <1>1, <1>2

LEMMA FreshRequest ==
  ASSUME TypeOK, OutcomesFresh, NEW q \in Requests, RequestNext(q)
  PROVE  OutcomesFresh'
<1>1. /\ \A w \in Workers : pc'[w] = pc[w] /\ wrk'[w] = wrk[w]
      /\ \A t \in Requests \ {q} : pc'[t] = pc[t] /\ req'[t] = req[t]
  BY RequestFrame
<1>3. ASSUME NEW p \in Payslips
      PROVE  /\ pc'[q] = "idle" \/ p \in req'[q].todo => req'[q].out[p] = "none"
             /\ pc'[q] = "batch" /\ p \in req'[q].todo
                   => req'[q].forced \/ req'[q].seen[p].status # "SENT"
  <2> DEFINE Goal ==
        /\ pc'[q] = "idle" \/ p \in req'[q].todo => req'[q].out[p] = "none"
        /\ pc'[q] = "batch" /\ p \in req'[q].todo
              => req'[q].forced \/ req'[q].seen[p].status # "SENT"
  <2>0. /\ req \in [Requests -> Req] /\ req[q] \in Req
        /\ pc \in [Requests \cup Workers -> RequestSteps \cup WorkerSteps]
    BY DEF TypeOK
  <2>1. ASSUME NEW mode \in {"send", "retry", "force"}, BatchLoad(q, mode)
        PROVE  Goal
    BY <2>0, <2>1 DEF BatchLoad, NoReq, Selected
  <2>2. ASSUME NEW o \in Payslips, BatchSend(q, o) PROVE Goal
    <3>1. PICK result \in Results :
             req' = [req EXCEPT ![q].out[o] = result, ![q].todo = @ \ {o}]
      BY <2>2 DEF BatchSend
    <3>2. /\ pc'[q] = "batch" /\ pc[q] = "batch"
          /\ req'[q].todo = req[q].todo \ {o}
          /\ p # o => req'[q].out[p] = req[q].out[p]
          /\ req'[q].forced = req[q].forced /\ req'[q].seen = req[q].seen
      BY <2>0, <2>2, <3>1 DEF BatchSend, Req
    <3>3. QED
      BY <3>2 DEF OutcomesFresh
  <2>3. ASSUME NEW o \in Payslips, SingleLoad(q, o) PROVE Goal
    BY <2>0, <2>3 DEF SingleLoad, NoReq
  <2>4. ASSUME NEW o \in Payslips, SingleSend(q, o) PROVE Goal
    <3>1. pc'[q] = "single" /\ req'[q].todo = {}
      BY <2>0, <2>4 DEF SingleSend, Req
    <3>2. QED
      BY <3>1
  <2>5. CASE Record(q) \/ RequestAbort(q)
    BY <2>0, <2>5 DEF Record, RequestAbort, NoReq
  <2>6. ASSUME NEW o \in Payslips, SingleRead(q, o) PROVE Goal
    <3>1. /\ pc[q] = "single" /\ pc'[q] = "upsert"
          /\ req'[q].todo = req[q].todo /\ req'[q].out = req[q].out
      BY <2>0, <2>6 DEF SingleRead, Req
    <3>2. QED
      BY <3>1 DEF OutcomesFresh
  <2>7. QED
    BY <2>1, <2>2, <2>3, <2>4, <2>5, <2>6
       DEF RequestNext, BatchCommit, SingleCommit
<1>4. QED
  BY <1>1, <1>3 DEF OutcomesFresh

LEMMA FreshWorker ==
  ASSUME TypeOK, OutcomesFresh, NEW w \in Workers,
         \/ WorkerWork(w) \/ WorkerCrash(w)
         \/ \E p \in Payslips : WorkerClaim(w, p)
  PROVE  OutcomesFresh'
<1>1. /\ req' = req /\ \A q \in Requests : pc'[q] = pc[q]
      /\ \A v \in Workers \ {w} : pc'[v] = pc[v] /\ wrk'[v] = wrk[v]
  BY WorkerFrame
<1> DEFINE Goal == /\ pc'[w] \in {"sent", "enqueued"} <=> wrk'[w].out # "none"
                   /\ pc'[w] \in {"idle", "claimed"} => wrk'[w].seen = NoRow
                   /\ \A p, o \in wrk'[w].on : p = o
<1>3. Goal
  <2>0. /\ wrk \in [Workers -> Wrk] /\ wrk[w] \in Wrk
        /\ pc \in [Requests \cup Workers -> RequestSteps \cup WorkerSteps]
    BY DEF TypeOK
  <2>f. /\ pc[w] \in {"sent", "enqueued"} <=> wrk[w].out # "none"
        /\ pc[w] \in {"idle", "claimed"} => wrk[w].seen = NoRow
        /\ \A p, o \in wrk[w].on : p = o
    BY DEF OutcomesFresh
  <2>1. ASSUME NEW p \in Payslips, WorkerClaim(w, p) PROVE Goal
    BY <2>0, <2>f, <2>1 DEF WorkerClaim, Wrk
  <2>2. ASSUME NEW p \in Payslips, WorkerFetch(w, p) PROVE Goal
    BY <2>0, <2>f, <2>2 DEF WorkerFetch, Wrk
  <2>3. ASSUME NEW p \in Payslips, WorkerSend(w, p) PROVE Goal
    BY <2>0, <2>f, <2>3 DEF WorkerSend, Wrk, Results
  <2>4. ASSUME NEW p \in Payslips, WorkerEnqueue(w, p) PROVE Goal
    BY <2>0, <2>f, <2>4 DEF WorkerEnqueue
  <2>5. ASSUME NEW p \in Payslips, WorkerRecord(w, p) PROVE Goal
    BY <2>0, <2>5 DEF WorkerRecord, NoWrk
  <2>6. ASSUME WorkerCrash(w) PROVE Goal
    BY <2>0, <2>6 DEF WorkerCrash, NoWrk
  <2>7. QED
    BY <2>1, <2>2, <2>3, <2>4, <2>5, <2>6 DEF WorkerWork
<1>4. QED
  BY <1>1, <1>3 DEF OutcomesFresh

LEMMA FreshStep == TypeOK /\ OutcomesFresh /\ [Next]_vars => OutcomesFresh'
<1> SUFFICES ASSUME TypeOK, OutcomesFresh, [Next]_vars PROVE OutcomesFresh'
  OBVIOUS
<1>1. CASE \/ UNCHANGED vars \/ PayrunStatusChange
           \/ \E p \in Payslips : PendingRow(p) \/ SubmitJob(p) \/ JobLost(p)
  <2>1. pc' = pc /\ req' = req /\ wrk' = wrk
    BY <1>1 DEF vars, actors, PayrunStatusChange, PendingRow, SubmitJob,
       JobLost
  <2>2. QED
    BY <2>1 DEF OutcomesFresh
<1>2. QED
  BY <1>1, FreshRequest, FreshWorker DEF Next
-----------------------------------------------------------------------------
\* Mails are only ever added.
LEMMA MailsGrow ==
  ASSUME TypeOK, [Next]_vars
  PROVE  \A p \in Payslips : mails'[p] >= mails[p]
<1>0. \A p \in Payslips : mails[p] \in 0..2
  BY DEF TypeOK
<1>1. ASSUME mails' = mails PROVE \A p \in Payslips : mails'[p] >= mails[p]
  BY <1>0, <1>1
<1>2. ASSUME NEW p \in Payslips, NEW result \in Results, NEW excused,
             Dispatch(p, result, excused)
      PROVE  \A o \in Payslips : mails'[o] >= mails[o]
  BY <1>2, DispatchFacts
<1>3. ASSUME NEW q \in Requests, RequestNext(q)
      PROVE  \A p \in Payslips : mails'[p] >= mails[p]
  <2>1. CASE \E p \in Payslips : BatchSend(q, p) \/ SingleSend(q, p)
    BY <2>1, <1>2 DEF BatchSend, SingleSend
  <2>2. CASE ~\E p \in Payslips : BatchSend(q, p) \/ SingleSend(q, p)
    BY <1>1, <1>3, <2>2 DEF RequestNext, BatchLoad, SingleLoad, SingleRead,
       BatchCommit, SingleCommit, RequestAbort, Record, past
  <2>3. QED
    BY <2>1, <2>2
<1>4. ASSUME NEW w \in Workers, NEW p \in Payslips, WorkerSend(w, p)
      PROVE  \A o \in Payslips : mails'[o] >= mails[o]
  BY <1>4, <1>2 DEF WorkerSend
<1>5. ASSUME NEW w \in Workers, NEW p \in Payslips,
             \/ WorkerClaim(w, p) \/ WorkerFetch(w, p) \/ WorkerEnqueue(w, p)
             \/ WorkerRecord(w, p)
      PROVE  mails' = mails
  BY <1>5 DEF WorkerClaim, WorkerFetch, WorkerEnqueue, WorkerRecord, past
<1>6. ASSUME NEW w \in Workers,
             \/ WorkerWork(w) \/ WorkerCrash(w)
             \/ \E p \in Payslips : WorkerClaim(w, p)
      PROVE  \A p \in Payslips : mails'[p] >= mails[p]
  <2>1. CASE WorkerCrash(w)
    BY <1>1, <2>1 DEF WorkerCrash
  <2>2. CASE \E p \in Payslips : WorkerSend(w, p)
    BY <1>4, <2>2
  <2>3. CASE \E p \in Payslips : \/ WorkerClaim(w, p) \/ WorkerFetch(w, p)
                                 \/ WorkerEnqueue(w, p) \/ WorkerRecord(w, p)
    <3>1. mails' = mails
      BY <1>5, <2>3
    <3>2. QED
      BY <1>1, <3>1
  <2>4. QED
    BY <1>6, <2>1, <2>2, <2>3 DEF WorkerWork
<1>7. CASE \/ PayrunStatusChange \/ UNCHANGED vars
           \/ \E p \in Payslips : PendingRow(p) \/ SubmitJob(p) \/ JobLost(p)
  <2>1. mails' = mails
    BY <1>7 DEF PayrunStatusChange, PendingRow, SubmitJob, JobLost, vars, past
  <2>2. QED
    BY <1>1, <2>1
<1>8. QED
  BY <1>3, <1>6, <1>7 DEF Next

\* The outcome an actor holds is an older one, or the SMTP dialogue of this
\* very step produced it.
LEMMA TrueStep ==
  ASSUME TypeOK, OutcomesFresh, OutcomesTrue, [Next]_vars
  PROVE  OutcomesTrue'
<1> SUFFICES ASSUME NEW p \in Payslips
             PROVE  /\ \A q \in Requests : req'[q].out[p] = "SENT" => mails'[p] > 0
                    /\ \A w \in Workers :
                          p \in wrk'[w].on /\ wrk'[w].out = "SENT" => mails'[p] > 0
  BY DEF OutcomesTrue
<1>0. /\ mails[p] \in 0..2 /\ mails'[p] \in 0..2 /\ mails'[p] >= mails[p]
      /\ req \in [Requests -> Req] /\ wrk \in [Workers -> Wrk]
  <2>1. TypeOK'
    BY TypeStep
  <2>2. QED
    BY <2>1, MailsGrow DEF TypeOK
<1>1. ASSUME NEW q \in Requests, req'[q].out[p] = "SENT",
             req'[q].out[p] = req[q].out[p]
      PROVE  mails'[p] > 0
  BY <1>0, <1>1 DEF OutcomesTrue
<1>2. ASSUME NEW w \in Workers, p \in wrk'[w].on, wrk'[w].out = "SENT",
             wrk'[w] = wrk[w]
      PROVE  mails'[p] > 0
  BY <1>0, <1>2 DEF OutcomesTrue
<1>3. CASE \/ UNCHANGED vars \/ PayrunStatusChange
           \/ \E o \in Payslips : PendingRow(o) \/ SubmitJob(o) \/ JobLost(o)
  <2>1. req' = req /\ wrk' = wrk
    BY <1>3 DEF vars, actors, PayrunStatusChange, PendingRow, SubmitJob,
       JobLost
  <2>2. QED
    BY <1>1, <1>2, <2>1
<1>4. ASSUME NEW q \in Requests, RequestNext(q)
      PROVE  req'[q].out[p] = "SENT" => mails'[p] > 0
  <2>1. ASSUME NEW o \in Payslips, BatchSend(q, o) \/ SingleSend(q, o)
        PROVE  req'[q].out[p] = "SENT" => mails'[p] > 0
    <3>1. PICK result, excused, rest :
             /\ result \in Results
             /\ Dispatch(o, result, excused)
             /\ req' = [req EXCEPT ![q].out[o] = result, ![q].todo = rest]
      BY <2>1 DEF BatchSend, SingleSend
    <3>2. /\ p # o => req'[q].out[p] = req[q].out[p]
          /\ p = o => req'[q].out[p] = result
      BY <1>0, <3>1 DEF Req
    <3>3. QED
      BY <1>1, <3>1, <3>2, DispatchFacts
  <2>2. ASSUME \/ \E mode \in {"send", "retry", "force"} : BatchLoad(q, mode)
               \/ \E o \in Payslips : SingleLoad(q, o)
               \/ Record(q) \/ RequestAbort(q)
        PROVE  req'[q].out[p] # "SENT"
    <3>1. req'[q].out = NoReq.out
      <4>1. ASSUME NEW mode, BatchLoad(q, mode) PROVE req'[q].out = NoReq.out
        BY <1>0, <4>1, NoReqType DEF BatchLoad, Req
      <4>2. ASSUME NEW o, SingleLoad(q, o) PROVE req'[q].out = NoReq.out
        BY <1>0, <4>2, NoReqType DEF SingleLoad, Req
      <4>3. ASSUME Record(q) \/ RequestAbort(q) PROVE req'[q].out = NoReq.out
        BY <1>0, <4>3 DEF Record, RequestAbort
      <4>4. QED
        BY <2>2, <4>1, <4>2, <4>3
    <3>2. NoReq.out[p] = "none"
      BY DEF NoReq
    <3>3. QED
      BY <3>1, <3>2
  <2>3. ASSUME NEW o \in Payslips, SingleRead(q, o)
        PROVE  req'[q].out[p] = req[q].out[p]
    BY <1>0, <2>3 DEF SingleRead, Req
  <2>4. QED
    BY <1>1, <1>4, <2>1, <2>2, <2>3 DEF RequestNext, BatchCommit, SingleCommit
<1>5. ASSUME NEW q \in Requests, RequestNext(q)
      PROVE  /\ \A t \in Requests : req'[t].out[p] = "SENT" => mails'[p] > 0
             /\ \A w \in Workers :
                   p \in wrk'[w].on /\ wrk'[w].out = "SENT" => mails'[p] > 0
  BY <1>1, <1>2, <1>4, <1>5, RequestFrame
<1>6. ASSUME NEW w \in Workers,
             \/ WorkerWork(w) \/ WorkerCrash(w)
             \/ \E o \in Payslips : WorkerClaim(w, o)
      PROVE  p \in wrk'[w].on /\ wrk'[w].out = "SENT" => mails'[p] > 0
  <2>0. wrk[w] \in Wrk /\ \A o, r \in wrk[w].on : o = r
    BY <1>0 DEF OutcomesFresh
  <2>1. ASSUME NEW o \in Payslips, WorkerClaim(w, o)
        PROVE  wrk'[w] = wrk[w] \/ wrk'[w].out # "SENT"
    BY <1>0, <2>0, <2>1 DEF WorkerClaim, OutcomesFresh, Wrk
  <2>2. ASSUME NEW o \in Payslips, WorkerFetch(w, o)
        PROVE  wrk'[w].out # "SENT"
    BY <1>0, <2>0, <2>2 DEF WorkerFetch, OutcomesFresh, Wrk
  <2>3. ASSUME NEW o \in Payslips, WorkerSend(w, o),
               p \in wrk'[w].on, wrk'[w].out = "SENT"
        PROVE  mails'[p] > 0
    <3>1. PICK result \in Results : /\ Dispatch(o, result, TRUE)
                                    /\ wrk' = [wrk EXCEPT ![w].out = result]
      BY <2>3 DEF WorkerSend
    <3>2. wrk'[w].on = wrk[w].on /\ wrk'[w].out = result
      BY <1>0, <2>0, <3>1 DEF Wrk
    <3>3. o = p /\ result = "SENT"
      BY <2>0, <2>3, <3>2 DEF WorkerSend
    <3>4. QED
      BY <3>1, <3>3, DispatchFacts
  <2>4. ASSUME NEW o \in Payslips, WorkerEnqueue(w, o)
        PROVE  wrk'[w] = wrk[w]
    BY <2>4 DEF WorkerEnqueue
  <2>5. ASSUME WorkerCrash(w) \/ \E o \in Payslips : WorkerRecord(w, o)
        PROVE  wrk'[w].out # "SENT"
    BY <1>0, <2>5 DEF WorkerCrash, WorkerRecord, NoWrk
  <2>6. QED
    BY <1>2, <1>6, <2>1, <2>2, <2>3, <2>4, <2>5 DEF WorkerWork
<1>7. ASSUME NEW w \in Workers,
             \/ WorkerWork(w) \/ WorkerCrash(w)
             \/ \E o \in Payslips : WorkerClaim(w, o)
      PROVE  /\ \A q \in Requests : req'[q].out[p] = "SENT" => mails'[p] > 0
             /\ \A v \in Workers :
                   p \in wrk'[v].on /\ wrk'[v].out = "SENT" => mails'[p] > 0
  BY <1>1, <1>2, <1>6, <1>7, WorkerFrame
<1>8. QED
  BY <1>3, <1>5, <1>7 DEF Next

\* Only a recorded outcome SENT turns a row into SENT.
LEMMA UpdatedSent ==
  ASSUME NEW seen, NEW now, NEW status
  PROVE  Updated(seen, now, status).status = "SENT"
            => status = "SENT" \/ now.status = "SENT"
  BY DEF Updated

LEMMA RecordedSent ==
  ASSUME NEW result
  PROVE  Recorded(result) = "SENT" <=> result = "SENT"
  BY DEF Recorded

LEMMA SentStep ==
  ASSUME TypeOK, OutcomesFresh, OutcomesTrue, SentIsTrue, [Next]_vars
  PROVE  SentIsTrue'
<1> SUFFICES ASSUME NEW p \in Payslips, row'[p].status = "SENT",
                    row'[p] # row[p]
             PROVE  mails[p] > 0
  <2>1. \A p \in Payslips : /\ mails[p] \in 0..2 /\ mails'[p] \in 0..2
                           /\ mails'[p] >= mails[p]
    <3>1. TypeOK'
      BY TypeStep
    <3>2. QED
      BY <3>1, MailsGrow DEF TypeOK
  <2>2. QED
    BY <2>1 DEF SentIsTrue
<1>0. row \in [Payslips -> Row]
  BY DEF TypeOK
<1>1. ASSUME NEW q \in Requests, Record(q) PROVE mails[p] > 0
  <2>1. row'[p] = Updated(req[q].seen[p], row[p], Recorded(req[q].out[p]))
    BY <1>1 DEF Record
  <2>2. req[q].out[p] = "SENT" \/ row[p].status = "SENT"
    BY <2>1, UpdatedSent, RecordedSent
  <2>3. QED
    BY <2>2 DEF OutcomesTrue, SentIsTrue
<1>2. ASSUME NEW w \in Workers, NEW o \in Payslips, WorkerRecord(w, o)
      PROVE  mails[p] > 0
  <2>1. PICK status :
           /\ row' = [row EXCEPT ![o] = Updated(wrk[w].seen, @, status)]
           /\ status = "PENDING" \/ status = Recorded(wrk[w].out)
           /\ o \in wrk[w].on
    BY <1>2 DEF WorkerRecord
  <2>2. o = p /\ row'[p] = Updated(wrk[w].seen, row[p], status)
    BY <1>0, <2>1
  <2>3. wrk[w].out = "SENT" \/ row[p].status = "SENT"
    BY <2>1, <2>2, UpdatedSent, RecordedSent
  <2>4. QED
    BY <2>1, <2>2, <2>3 DEF OutcomesTrue, SentIsTrue
<1>3. ASSUME NEW w \in Workers, NEW o \in Payslips, WorkerClaim(w, o)
      PROVE  row'[p] = row[p] \/ row'[p].status = "SENDING"
  BY <1>0, <1>3 DEF WorkerClaim, Row
<1>4. ASSUME NEW o \in Payslips, PendingRow(o)
      PROVE  row'[p] = row[p] \/ row'[p].status = "PENDING"
  BY <1>0, <1>4 DEF PendingRow, Row
<1>5. CASE \E q \in Requests : RequestNext(q)
  BY <1>1, <1>5 DEF RequestNext, BatchLoad, BatchSend, SingleLoad, SingleSend,
     SingleRead, BatchCommit, SingleCommit, RequestAbort
<1>6. CASE \E w \in Workers : WorkerWork(w) \/ WorkerCrash(w)
  BY <1>2, <1>6 DEF WorkerWork, WorkerFetch, WorkerSend, WorkerEnqueue,
     WorkerCrash
<1>7. CASE \/ UNCHANGED vars \/ PayrunStatusChange
           \/ \E o \in Payslips : SubmitJob(o) \/ JobLost(o)
  BY <1>7 DEF vars, PayrunStatusChange, SubmitJob, JobLost
<1>8. QED
  BY <1>3, <1>4, <1>5, <1>6, <1>7 DEF Next
-----------------------------------------------------------------------------
\* A payslip the step does not touch stays accounted for.
LEMMA AccountFrame ==
  ASSUME NEW p \in Payslips, Accounted(p),
         row'[p].status = row[p].status, mails'[p] = mails[p],
         \A q \in Requests : /\ req'[q].out[p] = req[q].out[p]
                             /\ \/ req'[q].seen[p].status = req[q].seen[p].status
                                \/ req'[q].seen[p].status = row[p].status
                                \/ req'[q].seen[p].status = "NONE",
         \A w \in Workers :
            \/ /\ p \in wrk'[w].on <=> p \in wrk[w].on
               /\ wrk'[w].out = wrk[w].out
               /\ \/ wrk'[w].seen.status = wrk[w].seen.status
                  \/ wrk'[w].seen.status = row[p].status
            \/ /\ p \notin wrk'[w].on
               /\ p \notin wrk[w].on \/ wrk[w].out = "none"
            \/ /\ wrk'[w].out = "none" /\ wrk[w].out = "none"
               /\ wrk'[w].seen.status = "NONE"
  PROVE  Accounted(p)'
<1>1. Unrecorded(p)' = Unrecorded(p)
  BY DEF Unrecorded
<1>2. QED
  BY <1>1 DEF Accounted

\* After the dialogue of actor a, which found p accounted for.
LEMMA AccountDispatch ==
  ASSUME TypeOK, NEW p \in Payslips, NEW result \in Results,
         Dispatch(p, result, TRUE), p \notin explained', Accounted(p)
  PROVE  /\ Unrecorded(p) = {} /\ row[p].status # "SENT"
         /\ mails[p] = 0 /\ mails'[p] < 2
         /\ result # "SENT" => mails'[p] = 0
<1>1. /\ row[p].status # "SENT" /\ Unrecorded(p) = {}
      /\ result # "SENT" => mails'[p] = mails[p]
      /\ mails'[p] <= mails[p] + 1
      /\ mails[p] \in 0..2 /\ mails'[p] \in 0..2
  BY DispatchFacts DEF TypeOK
<1>2. mails[p] = 0
  BY <1>1 DEF Accounted
<1>3. QED
  BY <1>1, <1>2

\* A request records: its outcome is the only one, and a row SENT stays SENT.
LEMMA AccountRecord ==
  ASSUME MailInv, NEW p \in Payslips, Accounted(p), NEW q \in Requests,
         Record(q)
  PROVE  Accounted(p)'
<1>0. /\ req \in [Requests -> Req] /\ wrk' = wrk /\ mails' = mails
      /\ mails[p] \in 0..2
      /\ req' = [req EXCEPT ![q] = NoReq]
      /\ NoReq.out[p] = "none" /\ NoReq.seen[p].status = "NONE"
  BY DEF MailInv, TypeOK, Record, NoReq, NoRow
<1>1. /\ req'[q].out[p] = "none" /\ req'[q].seen[p].status = "NONE"
      /\ \A t \in Requests \ {q} : req'[t] = req[t]
  BY <1>0
<1>2. CASE req[q].out[p] = "none"
  <2>1. row'[p] = row[p]
    BY <1>2 DEF Record
  <2>2. QED
    BY <1>0, <1>1, <1>2, <2>1, AccountFrame
<1>3. CASE req[q].out[p] # "none"
  <2>1. \A t \in Requests \ {q} : req[t].out[p] = "none"
    BY <1>3 DEF Accounted, Unrecorded
  <2>2. \A w \in Workers : p \in wrk[w].on => wrk[w].out = "none"
    BY <1>3, EmailAssumption DEF Accounted, Unrecorded
  <2>3. Unrecorded(p)' = {}
    BY <1>0, <1>1, <2>1, <2>2 DEF Unrecorded
  <2>4. row'[p] = Updated(req[q].seen[p], row[p], Recorded(req[q].out[p]))
    BY <1>3 DEF Record
  <2>5. req[q].out[p] \in Results
    BY <1>0, <1>3 DEF Req
  <2>6. mails[p] > 0 => req[q].out[p] = "SENT"
    BY <1>0, <2>5 DEF Accounted, Results
  <2>7. mails[p] > 0 => row'[p].status = "SENT"
    <3>1. req[q].seen[p].status = "SENT" => row[p].status = "SENT"
      BY DEF Accounted
    <3>2. QED
      BY <2>4, <2>6, <3>1, RecordedSent DEF Updated
  <2>8. row[p].status = "SENT" => row'[p].status = "SENT"
    BY <2>7 DEF MailInv, SentIsTrue
  <2>9. QED
    BY <1>0, <1>1, <2>1, <2>2, <2>3, <2>7, <2>8 DEF Accounted
<1>4. QED
  BY <1>2, <1>3

LEMMA AccountRequest ==
  ASSUME MailInv, NEW p \in Payslips, Accounted(p), p \notin explained',
         NEW q \in Requests, RequestNext(q)
  PROVE  Accounted(p)'
<1>0. /\ TypeOK /\ OutcomesFresh
      /\ req \in [Requests -> Req] /\ req[q] \in Req
      /\ wrk' = wrk
      /\ \A t \in Requests \ {q} : req'[t] = req[t]
      /\ NoReq.out[p] = "none" /\ NoReq.seen[p].status = "NONE"
  BY RequestFrame DEF MailInv, TypeOK, NoReq, NoRow
<1>1. ASSUME NEW mode \in {"send", "retry", "force"}, BatchLoad(q, mode)
      PROVE  Accounted(p)'
  <2>1. req[q].out[p] = "none"
    BY <1>0, <1>1 DEF BatchLoad, OutcomesFresh
  <2>2. req'[q].out = NoReq.out /\ req'[q].seen = row
    BY <1>0, <1>1, NoReqType DEF BatchLoad, Req
  <2>3. QED
    BY <1>0, <1>1, <2>1, <2>2, AccountFrame DEF BatchLoad, past
<1>2. ASSUME NEW o \in Payslips, SingleLoad(q, o) PROVE Accounted(p)'
  <2>1. req[q].out[p] = "none"
    BY <1>0, <1>2 DEF SingleLoad, OutcomesFresh
  <2>2. /\ req'[q].out = NoReq.out
        /\ req'[q].seen[p] = row[p] \/ req'[q].seen[p] = NoReq.seen[p]
    BY <1>0, <1>2, NoReqType DEF SingleLoad, Req
  <2>3. QED
    BY <1>0, <1>2, <2>1, <2>2, AccountFrame DEF SingleLoad, past
<1>3. ASSUME NEW o \in Payslips, BatchSend(q, o) \/ SingleSend(q, o)
      PROVE  Accounted(p)'
  <2>1. PICK result, rest :
           /\ result \in Results
           /\ Dispatch(o, result, TRUE)
           /\ req' = [req EXCEPT ![q].out[o] = result, ![q].todo = rest]
           /\ row' = row
    <3>1. ASSUME BatchSend(q, o)
          PROVE  req[q].forced \/ req[q].seen[o].status # "SENT"
      BY <1>0, <3>1 DEF BatchSend, OutcomesFresh
    <3>2. CASE BatchSend(q, o)
      <4>1. PICK result \in Results :
               /\ Dispatch(o, result,
                           req[q].forced \/ req[q].seen[o].status # "SENT")
               /\ req' = [req EXCEPT ![q].out[o] = result, ![q].todo = @ \ {o}]
               /\ row' = row
        BY <3>2 DEF BatchSend
      <4>2. Dispatch(o, result, TRUE)
        BY <3>1, <3>2, <4>1 DEF Dispatch
      <4>3. QED
        BY <4>1, <4>2
    <3>3. CASE SingleSend(q, o)
      BY <3>3 DEF SingleSend
    <3>4. QED
      BY <1>3, <3>2, <3>3
  <2>2. /\ req'[q].seen = req[q].seen
        /\ p # o => req'[q].out[p] = req[q].out[p]
        /\ p = o => req'[q].out[p] = result
    BY <1>0, <2>1 DEF Req
  <2>3. CASE p # o
    <3>1. mails'[p] = mails[p]
      BY <1>0, <2>1, <2>3, DispatchFacts
    <3>2. QED
      BY <1>0, <2>1, <2>2, <2>3, <3>1, AccountFrame
  <2>4. CASE p = o
    <3>1. /\ Unrecorded(p) = {} /\ row[p].status # "SENT"
          /\ mails'[p] < 2
          /\ result # "SENT" => mails'[p] = 0
      BY <1>0, <2>1, <2>4, AccountDispatch
    <3>2. /\ \A t \in Requests : req[t].out[p] = "none"
          /\ \A w \in Workers : p \in wrk[w].on => wrk[w].out = "none"
      BY <3>1 DEF Unrecorded
    <3>3. Unrecorded(p)' = {q}
      BY <1>0, <2>1, <2>2, <2>4, <3>2 DEF Unrecorded, Results
    <3>4. QED
      BY <1>0, <2>1, <2>2, <2>4, <3>1, <3>2, <3>3 DEF Accounted, Results
  <2>5. QED
    BY <2>3, <2>4
<1>4. ASSUME NEW o \in Payslips, SingleRead(q, o) PROVE Accounted(p)'
  <2>1. /\ req'[q].out = req[q].out
        /\ req'[q].seen[p] = row[p] \/ req'[q].seen[p] = req[q].seen[p]
    BY <1>0, <1>4 DEF SingleRead, Req
  <2>2. QED
    BY <1>0, <1>4, <2>1, AccountFrame DEF SingleRead, past
<1>5. CASE RequestAbort(q)
  <2>1. /\ row' = row /\ mails' = mails /\ req'[q] = NoReq
        /\ req[q].out[p] # "SENT"
    BY <1>0, <1>5 DEF RequestAbort
  <2>2. CASE req[q].out[p] = "none"
    BY <1>0, <2>1, <2>2, AccountFrame
  <2>3. CASE req[q].out[p] # "none"
    <3>1. mails[p] = 0
      BY <1>0, <2>1, <2>3 DEF Accounted, Req, Results
    <3>2. Unrecorded(p)' \subseteq Unrecorded(p)
      BY <1>0, <2>1 DEF Unrecorded
    <3>3. QED
      BY <1>0, <2>1, <3>1, <3>2 DEF Accounted
  <2>4. QED
    BY <2>2, <2>3
<1>6. QED
  BY <1>1, <1>2, <1>3, <1>4, <1>5, AccountRecord
     DEF RequestNext, BatchCommit, SingleCommit

LEMMA AccountWorker ==
  ASSUME MailInv, NEW p \in Payslips, Accounted(p), p \notin explained',
         NEW w \in Workers,
         \/ WorkerWork(w) \/ WorkerCrash(w)
         \/ \E o \in Payslips : WorkerClaim(w, o)
  PROVE  Accounted(p)'
<1>0. /\ TypeOK /\ OutcomesFresh
      /\ wrk \in [Workers -> Wrk] /\ wrk[w] \in Wrk
      /\ row \in [Payslips -> Row] /\ mails[p] \in 0..2
      /\ req' = req
      /\ \A v \in Workers \ {w} : wrk'[v] = wrk[v]
      /\ \A o, r \in wrk[w].on : o = r
  BY WorkerFrame DEF MailInv, TypeOK, OutcomesFresh
<1>1. ASSUME NEW o \in Payslips, WorkerClaim(w, o) PROVE Accounted(p)'
  <2>1. CASE Claimable(row[o])
    <3>1. /\ wrk[w].out = "none" /\ wrk[w].seen = NoRow
          /\ wrk' = [wrk EXCEPT ![w].on = {o}] /\ mails' = mails
      BY <1>0, <1>1, <2>1 DEF WorkerClaim, OutcomesFresh, past
    <3>2. /\ wrk'[w].out = "none" /\ wrk'[w].seen.status = "NONE"
      BY <1>0, <3>1 DEF Wrk, NoRow
    <3>3. Unrecorded(p)' = Unrecorded(p)
      BY <1>0, <3>1, <3>2 DEF Unrecorded
    <3>4. row[p].status = "SENT" => row'[p].status = "SENT"
      BY <1>0, <1>1, <2>1 DEF WorkerClaim, Claimable
    <3>5. QED
      BY <1>0, <3>1, <3>2, <3>3, <3>4 DEF Accounted
  <2>2. CASE ~Claimable(row[o])
    BY <1>0, <1>1, <2>2, AccountFrame DEF WorkerClaim, past
  <2>3. QED
    BY <2>1, <2>2
<1>2. ASSUME NEW o \in Payslips, WorkerFetch(w, o) PROVE Accounted(p)'
  <2>1. /\ wrk'[w].on = wrk[w].on /\ wrk'[w].out = wrk[w].out
        /\ wrk'[w].seen = row[o] /\ o \in wrk[w].on
    BY <1>0, <1>2 DEF WorkerFetch, Wrk
  <2>2. CASE o = p
    BY <1>0, <1>2, <2>1, <2>2, AccountFrame DEF WorkerFetch, past
  <2>3. CASE o # p
    <3>1. p \notin wrk[w].on
      BY <1>0, <2>1, <2>3
    <3>2. QED
      BY <1>0, <1>2, <2>1, <3>1, AccountFrame DEF WorkerFetch, past
  <2>4. QED
    BY <2>2, <2>3
<1>3. ASSUME NEW o \in Payslips, WorkerSend(w, o) PROVE Accounted(p)'
  <2>1. PICK result \in Results : /\ Dispatch(o, result, TRUE)
                                  /\ wrk' = [wrk EXCEPT ![w].out = result]
    BY <1>3 DEF WorkerSend
  <2>2. /\ wrk'[w].on = wrk[w].on /\ wrk'[w].out = result
        /\ wrk'[w].seen = wrk[w].seen /\ o \in wrk[w].on /\ row' = row
    BY <1>0, <1>3, <2>1 DEF WorkerSend, Wrk
  <2>3. CASE o # p
    <3>1. p \notin wrk[w].on /\ mails'[p] = mails[p]
      BY <1>0, <2>1, <2>2, <2>3, DispatchFacts
    <3>2. QED
      BY <1>0, <2>2, <3>1, AccountFrame
  <2>4. CASE o = p
    <3>1. /\ Unrecorded(p) = {} /\ row[p].status # "SENT"
          /\ mails'[p] < 2
          /\ result # "SENT" => mails'[p] = 0
      BY <1>0, <2>1, <2>4, AccountDispatch
    <3>2. /\ \A q \in Requests : req[q].out[p] = "none"
          /\ \A v \in Workers : p \in wrk[v].on => wrk[v].out = "none"
      BY <3>1 DEF Unrecorded
    <3>3. Unrecorded(p)' = {w}
      BY <1>0, <2>2, <2>4, <3>2 DEF Unrecorded, Results
    <3>4. QED
      BY <1>0, <2>2, <2>4, <3>1, <3>2, <3>3 DEF Accounted, Results
  <2>5. QED
    BY <2>3, <2>4
<1>4. ASSUME NEW o \in Payslips, WorkerEnqueue(w, o) PROVE Accounted(p)'
  BY <1>0, <1>4, AccountFrame DEF WorkerEnqueue, past
<1>5. ASSUME NEW o \in Payslips, WorkerRecord(w, o) PROVE Accounted(p)'
  <2>1. PICK status :
           /\ row' = [row EXCEPT ![o] = Updated(wrk[w].seen, @, status)]
           /\ wrk[w].out = "SENT" => status = "SENT"
           /\ o \in wrk[w].on /\ wrk'[w] = NoWrk /\ mails' = mails
    BY <1>0, <1>5 DEF WorkerRecord, CanRetry, Recorded, past
  <2>2. NoWrk.on = {}
    BY DEF NoWrk
  <2>3. CASE o # p
    <3>1. p \notin wrk[w].on /\ row'[p] = row[p]
      BY <1>0, <2>1, <2>3
    <3>2. QED
      BY <1>0, <2>1, <2>2, <3>1, AccountFrame
  <2>4. CASE o = p
    <3>1. wrk[w].out # "none" /\ p \in wrk[w].on
      BY <1>5, <2>1, <2>4, <1>0 DEF WorkerRecord, OutcomesFresh
    <3>2. \A q \in Requests : req[q].out[p] = "none"
      BY <3>1, EmailAssumption DEF Accounted, Unrecorded
    <3>3. \A v \in Workers \ {w} : p \in wrk[v].on => wrk[v].out = "none"
      BY <3>1 DEF Accounted, Unrecorded
    <3>4. Unrecorded(p)' = {}
      BY <1>0, <2>1, <2>2, <3>2, <3>3 DEF Unrecorded
    <3>5. mails[p] > 0 => wrk[w].out = "SENT"
      BY <1>0, <3>1 DEF Accounted, Wrk, Results
    <3>6. row'[p] = Updated(wrk[w].seen, row[p], status)
      BY <1>0, <2>1, <2>4
    <3>7. wrk[w].seen.status = "SENT" => row[p].status = "SENT"
      BY <3>1 DEF Accounted
    <3>8. mails[p] > 0 => row'[p].status = "SENT"
      BY <2>1, <3>5, <3>6, <3>7 DEF Updated
    <3>9. row[p].status = "SENT" => row'[p].status = "SENT"
      BY <3>8 DEF MailInv, SentIsTrue
    <3>10. QED
      BY <1>0, <2>1, <2>2, <3>2, <3>3, <3>4, <3>8, <3>9 DEF Accounted
  <2>5. QED
    BY <2>3, <2>4
<1>6. CASE WorkerCrash(w)
  <2>1. /\ row' = row /\ mails' = mails /\ wrk'[w] = NoWrk /\ NoWrk.on = {}
        /\ p \in wrk[w].on => wrk[w].out # "SENT"
    BY <1>0, <1>6 DEF WorkerCrash, NoWrk
  <2>2. CASE p \notin wrk[w].on \/ wrk[w].out = "none"
    BY <1>0, <2>1, <2>2, AccountFrame
  <2>3. CASE p \in wrk[w].on /\ wrk[w].out # "none"
    <3>1. mails[p] = 0
      BY <1>0, <2>1, <2>3 DEF Accounted, Wrk, Results
    <3>2. Unrecorded(p)' \subseteq Unrecorded(p)
      BY <1>0, <2>1 DEF Unrecorded
    <3>3. QED
      BY <1>0, <2>1, <3>1, <3>2 DEF Accounted
  <2>4. QED
    BY <2>2, <2>3
<1>7. QED
  BY <1>1, <1>2, <1>3, <1>4, <1>5, <1>6 DEF WorkerWork

LEMMA MailStep == MailInv /\ [Next]_vars => MailInv'
<1> SUFFICES ASSUME MailInv, [Next]_vars PROVE MailInv'
  OBVIOUS
<1>1. TypeOK' /\ OutcomesFresh' /\ OutcomesTrue' /\ SentIsTrue'
  BY TypeStep, FreshStep, TrueStep, SentStep DEF MailInv
<1>2. ASSUME NEW p \in Payslips \ explained' PROVE Accounted(p)'
  <2>1. explained \subseteq explained'
    <3>1. ASSUME NEW q \in Requests, RequestNext(q)
          PROVE  explained \subseteq explained'
      <4>1. CASE \E o \in Payslips : BatchSend(q, o) \/ SingleSend(q, o)
        BY <4>1 DEF BatchSend, SingleSend, Dispatch
      <4>2. CASE ~\E o \in Payslips : BatchSend(q, o) \/ SingleSend(q, o)
        BY <3>1, <4>2 DEF RequestNext, BatchLoad, SingleLoad, SingleRead,
           BatchCommit, SingleCommit, RequestAbort, Record, past
      <4>3. QED
        BY <4>1, <4>2
    <3>2. ASSUME NEW w \in Workers, WorkerWork(w) \/ WorkerCrash(w)
          PROVE  explained \subseteq explained'
      BY <3>2 DEF WorkerWork, WorkerFetch, WorkerSend, WorkerEnqueue,
         WorkerRecord, WorkerCrash, Dispatch, past
    <3>3. CASE \/ UNCHANGED vars \/ PayrunStatusChange
               \/ \E w \in Workers, o \in Payslips : WorkerClaim(w, o)
               \/ \E o \in Payslips :
                     PendingRow(o) \/ SubmitJob(o) \/ JobLost(o)
      BY <3>3 DEF vars, PayrunStatusChange, WorkerClaim, PendingRow,
         SubmitJob, JobLost, past
    <3>4. QED
      BY <3>1, <3>2, <3>3 DEF Next
  <2>2. p \in Payslips /\ Accounted(p) /\ p \notin explained'
    BY <2>1 DEF MailInv
  <2>3. CASE \/ UNCHANGED vars \/ PayrunStatusChange
             \/ \E o \in Payslips : SubmitJob(o) \/ JobLost(o)
    <3>1. row' = row /\ mails' = mails /\ req' = req /\ wrk' = wrk
      BY <2>3 DEF vars, PayrunStatusChange, SubmitJob, JobLost, past, actors
    <3>2. QED
      BY <2>2, <3>1 DEF Accounted, Unrecorded
  <2>4. ASSUME NEW o \in Payslips, PendingRow(o) PROVE Accounted(p)'
    <3>1. /\ mails' = mails /\ req' = req /\ wrk' = wrk
          /\ row[p].status = "SENT" => row'[p].status = "SENT"
      BY <2>4 DEF PendingRow, Insertable, past, actors, MailInv, TypeOK
    <3>2. QED
      BY <2>2, <3>1 DEF Accounted, Unrecorded
  <2>5. QED
    BY <2>2, <2>3, <2>4, AccountRequest, AccountWorker DEF Next
<1>3. QED
  BY <1>1, <1>2 DEF MailInv

LEMMA MailInit == Init => MailInv
<1> SUFFICES ASSUME Init PROVE MailInv
  OBVIOUS
<1>1. \A p \in Payslips : Unrecorded(p) = {}
  BY DEF Init, Unrecorded, NoReq, NoWrk
<1>2. OutcomesFresh /\ OutcomesTrue /\ SentIsTrue
  BY DEF Init, OutcomesFresh, OutcomesTrue, SentIsTrue, NoReq, NoWrk, NoRow
<1>3. \A p \in Payslips : Accounted(p)
  BY <1>1 DEF Init, Accounted, NoReq, NoWrk, NoRow
<1>4. QED
  BY <1>2, <1>3, TypeInit DEF MailInv

LEMMA MailSafety == Spec => []MailInv
  BY MailInit, MailStep, PTL DEF Spec

\* A delivery recorded as SENT was accepted by the relay, whatever requests and
\* workers wrote over one another.
THEOREM AuditIsTrue == Spec => []SentIsTrue
<1>1. MailInv => SentIsTrue
  BY DEF MailInv
<1>2. QED
  BY <1>1, MailSafety, PTL

\* A second mail for a payslip always has one of the known causes, for any
\* number of requests, workers and retries.
THEOREM DuplicatesAreExplained == Spec => []NoUnexplainedDuplicate
<1>1. MailInv => NoUnexplainedDuplicate
  BY DEF MailInv, Accounted, NoUnexplainedDuplicate, TypeOK
<1>2. QED
  BY <1>1, MailSafety, PTL
=============================================================================
