---------------------------- MODULE PayrunProofs ----------------------------
(***************************************************************************)
(* The invariants of Payrun that hold for every number of payruns,         *)
(* employees and concurrent requests, proved by induction over Next; and,  *)
(* while requests are served one at a time, SerialInv and the refinement   *)
(* of PayrollLedger.                                                       *)
(***************************************************************************)
EXTENDS PayrunProps, TLAPS

LEMMA NoViewType == NoView \in View
  BY PayrunAssumption DEF NoView, View, NoSlip, Slip, RunState, PayrunStatus

LEMMA LoadType ==
  ASSUME TypeOK, NEW s \in Sessions, NEW r \in Payruns, NEW step \in Steps,
         Load(s, r, step), reopened' \in SUBSET Payruns
  PROVE  TypeOK'
<1>1. [NoView EXCEPT !.run = r, !.status = run[r], !.slip = slip[r]] \in View
  BY NoViewType DEF TypeOK, View
<1>2. view' \in [Sessions -> View]
  BY <1>1 DEF Load, TypeOK
<1>3. QED
  BY <1>2 DEF Load, TypeOK, db, env

LEMMA CloseType ==
  ASSUME TypeOK, NEW s \in Sessions, Close(s)
  PROVE  pc' \in [Sessions -> Steps] /\ view' \in [Sessions -> View]
  BY NoViewType DEF TypeOK, Close, Steps

LEMMA SetStatusType ==
  ASSUME TypeOK, NEW s \in Sessions, NEW new \in PayrunStatus,
         view[s].run \in Payruns, SetStatus(s, new)
  PROVE  /\ run' \in [Payruns -> RunState]
         /\ slip' \in [Payruns -> [Employees -> Slip]]
         /\ lines' = lines /\ running' = running /\ basis' = basis
         /\ pc' \in [Sessions -> Steps] /\ view' \in [Sessions -> View]
<1> DEFINE r == view[s].run
<1>1. ASSUME NEW e \in Employees
      PROVE  [slip[r][e] EXCEPT !.status = new] \in Slip
  <2>1. slip[r][e] \in Slip
    BY DEF TypeOK
  <2>2. new \in PayslipStatus
    BY DEF PayrunStatus, PayslipStatus
  <2>3. QED
    BY <2>1, <2>2 DEF Slip
<1>2. slip' \in [Payruns -> [Employees -> Slip]]
  BY <1>1 DEF TypeOK, SetStatus
<1>3. run' \in [Payruns -> RunState]
  BY DEF TypeOK, SetStatus, RunState
<1>4. QED
  BY <1>2, <1>3, CloseType DEF SetStatus, env
-----------------------------------------------------------------------------
\* The inductive step for the rows and the requests' bookkeeping.
LEMMA TypeStep ==
  ASSUME TypeOK, ViewBound, [Next]_vars
  PROVE  TypeOK'
<1>0. reopened' \in SUBSET Payruns
  BY DEF TypeOK, Next, NoteReopened, vars
<1>1. ASSUME NEW s \in Sessions, Request(s)
      PROVE  TypeOK'
  <2>1. CASE CreateCheck(s)
    <3>1. PICK chosen \in SUBSET Employees :
             view' = [view EXCEPT ![s] = [NoView EXCEPT !.todo = chosen]]
      BY <2>1 DEF CreateCheck
    <3>2. [NoView EXCEPT !.todo = chosen] \in View
      BY NoViewType DEF View
    <3>3. view' \in [Sessions -> View] /\ pc' \in [Sessions -> Steps]
      BY <2>1, <3>1, <3>2 DEF CreateCheck, TypeOK, Steps
    <3>4. QED
      BY <1>0, <2>1, <3>3 DEF CreateCheck, TypeOK, db, env
  <2>2. CASE CreateCommit(s)
    <3>1. PICK r \in Payruns : /\ run' = [run EXCEPT ![r] = "DRAFT"]
                               /\ slip' = WithDrafts(r, view[s].todo)
      BY <2>2 DEF CreateCommit
    <3>2. run' \in [Payruns -> RunState]
      BY <3>1 DEF TypeOK, RunState, PayrunStatus
    <3>3. \A e \in Employees :
             (IF e \in view[s].todo THEN [status |-> "DRAFT", net |-> 0]
              ELSE NoSlip) \in Slip
      BY PayrunAssumption DEF Slip, NoSlip, PayslipStatus
    <3>4. slip' \in [Payruns -> [Employees -> Slip]]
      BY <3>1, <3>3 DEF TypeOK, WithDrafts
    <3>5. QED
      BY <1>0, <2>2, <3>2, <3>4, CloseType DEF CreateCommit, TypeOK, env
  <2>3. CASE \E r \in Payruns : ComputeLoad(s, r)
    <3>1. PICK r \in Payruns : ComputeLoad(s, r)
      BY <2>3
    <3>2. [NoView EXCEPT !.run = r, !.status = run[r], !.slip = slip[r],
                         !.todo = Members(slip[r])] \in View
      BY NoViewType DEF TypeOK, View, Members
    <3>3. view' \in [Sessions -> View] /\ pc' \in [Sessions -> Steps]
      BY <3>1, <3>2 DEF ComputeLoad, TypeOK, Steps
    <3>4. QED
      BY <1>0, <3>1, <3>3 DEF ComputeLoad, TypeOK, db, env
  <2>4. CASE \E r \in Payruns : ValidateLoad(s, r) \/ MarkPaidLoad(s, r)
                                \/ CancelLoad(s, r) \/ DeleteLoad(s, r)
    <3>1. PICK r \in Payruns, step \in Steps : Load(s, r, step)
      BY <2>4 DEF ValidateLoad, MarkPaidLoad, CancelLoad, DeleteLoad, Steps
    <3>2. QED
      BY <1>0, <3>1, LoadType
  <2>5. CASE \E e \in Employees : ComputeRead(s, e)
    <3>1. PICK e \in Employees : ComputeRead(s, e)
      BY <2>5
    <3>2. view[s].run \in Payruns
      BY <3>1 DEF ComputeRead, ViewBound, Loaded
    <3>a. /\ view[s] \in View /\ basis[e] \in Amounts
          /\ lines[view[s].run][e] \in SUBSET Batch
      BY <3>2 DEF TypeOK
    <3>3. [view[s] EXCEPT !.cur = e, !.net = basis[e],
                          !.doomed = lines[view[s].run][e]] \in View
      BY <3>a DEF View
    <3>4. view' \in [Sessions -> View] /\ pc' \in [Sessions -> Steps]
      BY <3>1, <3>3 DEF ComputeRead, TypeOK, Steps
    <3>5. QED
      BY <1>0, <3>1, <3>4 DEF ComputeRead, TypeOK, db, env
  <2>6. CASE ComputePayslip(s)
    <3> DEFINE v == view[s]
               r == view[s].run
               e == view[s].cur
    <3>1. r \in Payruns /\ e \in Employees /\ v \in View /\ v.net \in Amounts
      BY <2>6 DEF ComputePayslip, ViewBound, Loaded, TypeOK, View
    <3>2. slip[r][e] \in Slip /\ v.slip[e] \in Slip
      BY <3>1 DEF TypeOK, View
    <3>3. Recalculated(v.slip[e], slip[r][e], v.net) \in Slip
      BY <3>1, <3>2 DEF Recalculated, Slip, PayslipStatus
    <3>4. slip' \in [Payruns -> [Employees -> Slip]]
      BY <2>6, <3>1, <3>3 DEF ComputePayslip, TypeOK
    <3>5. [by |-> s, net |-> v.net] \in Batch
      BY <3>1 DEF Batch
    <3>6. lines' \in [Payruns -> [Employees -> SUBSET Batch]]
      BY <2>6, <3>1, <3>5 DEF ComputePayslip, TypeOK
    <3>7. [v EXCEPT !.todo = @ \ {e}, !.cur = None, !.net = 0,
                    !.doomed = {}] \in View
      BY <3>1, PayrunAssumption DEF View
    <3>8. \A t \in Sessions :
             [view[t] EXCEPT !.doomed = @ \ v.doomed] \in View
      BY DEF TypeOK, View
    <3>9. view' \in [Sessions -> View]
      BY <2>6, <3>7, <3>8 DEF ComputePayslip, TypeOK
    <3>10. pc' \in [Sessions -> Steps]
      BY <2>6 DEF ComputePayslip, TypeOK, Steps
    <3>11. QED
      BY <1>0, <2>6, <3>4, <3>6, <3>9, <3>10 DEF ComputePayslip, TypeOK, env
  <2>7. CASE ComputeFinish(s)
    <3>1. run' \in [Payruns -> RunState]
      BY <2>7 DEF ComputeFinish, TypeOK, RunState, PayrunStatus
    <3>2. QED
      BY <1>0, <2>7, <3>1, CloseType DEF ComputeFinish, TypeOK, env
  <2>8. CASE ValidateCommit(s) \/ CancelCommit(s)
    <3>1. /\ SetStatus(s, "VALIDATED") \/ SetStatus(s, "CANCELLED")
          /\ view[s].run \in Payruns /\ payouts' = payouts
      BY <2>8 DEF ValidateCommit, CancelCommit, ViewBound, Loaded
    <3>2. "VALIDATED" \in PayrunStatus /\ "CANCELLED" \in PayrunStatus
      BY DEF PayrunStatus
    <3>3. QED
      BY <1>0, <3>1, <3>2, SetStatusType DEF TypeOK
  <2>9. CASE MarkPaidCommit(s)
    <3>1. SetStatus(s, "PAID") /\ view[s].run \in Payruns
      BY <2>9 DEF MarkPaidCommit, ViewBound, Loaded
    <3>2. payouts' \in [Employees -> SUBSET Payruns]
      BY <2>9, <3>1 DEF MarkPaidCommit, TypeOK
    <3>3. "PAID" \in PayrunStatus
      BY DEF PayrunStatus
    <3>4. QED
      BY <1>0, <3>1, <3>2, <3>3, SetStatusType DEF TypeOK
  <2>10. CASE DeleteCommit(s)
    <3>1. view[s].run \in Payruns
      BY <2>10 DEF DeleteCommit, ViewBound, Loaded
    <3>2. run' \in [Payruns -> RunState]
      BY <2>10, <3>1 DEF DeleteCommit, TypeOK, RunState
    <3>3. slip' \in [Payruns -> [Employees -> Slip]]
      BY <2>10, <3>1, PayrunAssumption
         DEF DeleteCommit, TypeOK, NoSlip, Slip
    <3>4. lines' \in [Payruns -> [Employees -> SUBSET Batch]]
      BY <2>10, <3>1 DEF DeleteCommit, TypeOK
    <3>5. QED
      BY <1>0, <2>10, <3>2, <3>3, <3>4, CloseType DEF DeleteCommit, TypeOK, env
  <2>11. CASE Abort(s)
    BY <1>0, <2>11, CloseType DEF Abort, TypeOK, db, env
  <2>12. QED
    BY <1>1, <2>1, <2>2, <2>3, <2>4, <2>5, <2>6, <2>7, <2>8, <2>9, <2>10,
       <2>11 DEF Request
<1>2. ASSUME NEW e \in Employees, InputsChange(e) \/ ContractChange(e)
      PROVE  TypeOK'
  BY <1>0, <1>2 DEF InputsChange, ContractChange, TypeOK, db
<1>3. CASE UNCHANGED vars
  BY <1>3 DEF vars, TypeOK
<1>4. QED
  BY <1>1, <1>2, <1>3 DEF Next, Step
-----------------------------------------------------------------------------
\* A commit of a status change leaves the rows in place.
LEMMA SetStatusRows ==
  ASSUME TypeOK, NEW s \in Sessions, NEW new \in PayrunStatus,
         view[s].run \in Payruns, SetStatus(s, new)
  PROVE  /\ \A r \in Payruns : Members(slip'[r]) = Members(slip[r])
         /\ \A r \in Payruns : r # view[s].run => run'[r] = run[r]
         /\ run'[view[s].run] = IF view[s].status = new
                                THEN run[view[s].run] ELSE new
<1> DEFINE q == view[s].run
<1>1. /\ slip' = [slip EXCEPT ![q] = [e \in Employees |->
                    IF e \in Dirty(view[s], new)
                    THEN [slip[q][e] EXCEPT !.status = new]
                    ELSE slip[q][e]]]
      /\ \A e \in Dirty(view[s], new) : slip[q][e].status # "NONE"
  BY DEF SetStatus, StillThere
<1>2. \A e \in Employees : slip[q][e] \in Slip
  BY DEF TypeOK
<1>3. \A e \in Employees : slip'[q][e].status # "NONE"
                           <=> slip[q][e].status # "NONE"
  BY <1>1, <1>2 DEF TypeOK, Slip, PayrunStatus
<1>4. \A r \in Payruns : r # q => slip'[r] = slip[r]
  BY <1>1 DEF TypeOK
<1>5. \A r \in Payruns : Members(slip'[r]) = Members(slip[r])
  BY <1>3, <1>4 DEF Members
<1>6. QED
  BY <1>5 DEF SetStatus, TypeOK

\* Calculating a payslip keeps every row and leaves lines on that payslip.
LEMMA ComputePayslipRows ==
  ASSUME TypeOK, ViewBound, NEW s \in Sessions, ComputePayslip(s)
  PROVE  /\ \A r \in Payruns : Members(slip'[r]) = Members(slip[r])
         /\ \A r \in Payruns, e \in Employees :
               lines[r][e] # {} => lines'[r][e] # {}
         /\ lines'[view[s].run][view[s].cur] # {}
<1> DEFINE q == view[s].run
           c == view[s].cur
<1>1. q \in Payruns /\ c \in Employees
  BY DEF ComputePayslip, ViewBound, Loaded
<1>2. /\ slip[q][c].status # "NONE"
      /\ slip' = [slip EXCEPT ![q][c] =
                    Recalculated(view[s].slip[c], @, view[s].net)]
  BY DEF ComputePayslip, StillThere
<1>3. Recalculated(view[s].slip[c], slip[q][c], view[s].net).status # "NONE"
  BY <1>2 DEF Recalculated
<1>4. slip'[q][c].status # "NONE"
  BY <1>1, <1>2, <1>3 DEF TypeOK
<1>5. \A r \in Payruns, e \in Employees :
         (r # q \/ e # c) => slip'[r][e] = slip[r][e]
  BY <1>1, <1>2 DEF TypeOK
<1>6. \A r \in Payruns, e \in Employees :
         (r # q \/ e # c) => lines'[r][e] = lines[r][e]
  BY <1>1 DEF ComputePayslip, TypeOK
<1>7. [by |-> s, net |-> view[s].net] \in lines'[q][c]
  BY <1>1 DEF ComputePayslip, TypeOK
<1>8. \A r \in Payruns : Members(slip'[r]) = Members(slip[r])
  BY <1>2, <1>4, <1>5 DEF Members
<1>9. QED
  BY <1>6, <1>7, <1>8

\* No step brings back an absent row, adds a payslip to a payrun that exists,
\* or takes the lines of a payslip away and leaves the payslip.
LEMMA RowsPersist ==
  ASSUME TypeOK, ViewBound, [Next]_vars, NEW r \in Payruns, run[r] # "ABSENT"
  PROVE  /\ run'[r] # "ABSENT"
         /\ \A e \in Members(slip'[r]) :
               /\ e \in Members(slip[r])
               /\ lines[r][e] # {} => lines'[r][e] # {}
<1>1. CASE run' = run /\ slip' = slip /\ lines' = lines
  BY <1>1 DEF Members
<1>2. ASSUME NEW s \in Sessions, CreateCommit(s)
      PROVE  run'[r] = run[r] /\ slip'[r] = slip[r] /\ lines'[r] = lines[r]
  BY <1>2 DEF CreateCommit, TypeOK, WithDrafts
<1>3. ASSUME NEW s \in Sessions, ComputePayslip(s)
      PROVE  /\ run'[r] = run[r] /\ Members(slip'[r]) = Members(slip[r])
             /\ \A e \in Employees : lines[r][e] # {} => lines'[r][e] # {}
  BY <1>3, ComputePayslipRows DEF ComputePayslip
<1>4. ASSUME NEW s \in Sessions, ComputeFinish(s)
      PROVE  run'[r] # "ABSENT" /\ slip'[r] = slip[r] /\ lines'[r] = lines[r]
  BY <1>4 DEF ComputeFinish, TypeOK
<1>5. ASSUME NEW s \in Sessions,
             ValidateCommit(s) \/ MarkPaidCommit(s) \/ CancelCommit(s)
      PROVE  /\ run'[r] # "ABSENT" /\ Members(slip'[r]) = Members(slip[r])
             /\ lines'[r] = lines[r]
  <2>1. PICK new \in {"VALIDATED", "PAID", "CANCELLED"} : SetStatus(s, new)
    BY <1>5 DEF ValidateCommit, MarkPaidCommit, CancelCommit
  <2>2. new \in PayrunStatus /\ view[s].run \in Payruns /\ lines' = lines
    BY <1>5, <2>1 DEF PayrunStatus, ValidateCommit, MarkPaidCommit,
                      CancelCommit, ViewBound, Loaded, SetStatus
  <2>3. QED
    BY <2>1, <2>2, SetStatusRows
<1>6. ASSUME NEW s \in Sessions, DeleteCommit(s)
      PROVE  /\ run'[r] # "ABSENT"
             /\ \A e \in Members(slip'[r]) :
                   e \in Members(slip[r]) /\ lines'[r] = lines[r]
  <2>1. view[s].run \in Payruns
    BY <1>6 DEF DeleteCommit, ViewBound, Loaded
  <2>2. CASE r = view[s].run
    BY <1>6, <2>1, <2>2 DEF DeleteCommit, TypeOK, Members, NoSlip
  <2>3. CASE r # view[s].run
    BY <1>6, <2>1, <2>3 DEF DeleteCommit, TypeOK, Members
  <2>4. QED
    BY <2>2, <2>3
<1>7. Members(slip[r]) \in SUBSET Employees
  BY DEF Members
<1>8. CASE \E s \in Sessions : CreateCommit(s)
  BY <1>2, <1>8
<1>9. CASE \E s \in Sessions : ComputePayslip(s)
  BY <1>3, <1>7, <1>9
<1>10. CASE \E s \in Sessions : ComputeFinish(s)
  BY <1>4, <1>10
<1>11. CASE \E s \in Sessions :
               ValidateCommit(s) \/ MarkPaidCommit(s) \/ CancelCommit(s)
  BY <1>5, <1>11
<1>12. CASE \E s \in Sessions : DeleteCommit(s)
  BY <1>6, <1>12
<1>13. QED
  BY <1>1, <1>8, <1>9, <1>10, <1>11, <1>12
     DEF Next, Step, Request, CreateCheck, ComputeLoad, ValidateLoad,
         MarkPaidLoad,
         CancelLoad, DeleteLoad, Load, ComputeRead, Abort, InputsChange,
         ContractChange, vars, db
-----------------------------------------------------------------------------
\* Between two steps a request that was open and stays open keeps its payrun;
\* only ComputeRead picks a payslip.
LEMMA ViewBoundStep ==
  ASSUME TypeOK, ViewBound, [Next]_vars
  PROVE  ViewBound'
<1> DEFINE Stands(t) == /\ view'[t].run \in Payruns
                        /\ run[view'[t].run] # "ABSENT"
                        /\ pc'[t] = "line" => view'[t].cur \in Employees
<1>1. ASSUME NEW t \in Sessions, Loaded(t)'
      PROVE  Stands(t)
  <2>1. CASE pc'[t] = pc[t] /\ view'[t] = view[t]
    BY <1>1, <2>1 DEF ViewBound, Loaded
  <2>2. ASSUME NEW s \in Sessions, NEW r \in Payruns, NEW step \in Steps,
               step # "line", Load(s, r, step)
        PROVE  Stands(t)
    <3>1. CASE t = s
      <4>1. view'[s] = [NoView EXCEPT !.run = r, !.status = run[r],
                                      !.slip = slip[r]]
            /\ pc'[s] = step
        BY <2>2 DEF Load, TypeOK
      <4>2. view'[s].run = r
        BY <4>1 DEF NoView
      <4>3. run[r] # "ABSENT"
        BY <2>2 DEF Load, Exists, PayrunStatus
      <4>4. QED
        BY <2>2, <3>1, <4>1, <4>2, <4>3
    <3>2. CASE t # s
      BY <1>1, <2>1, <2>2, <3>2 DEF Load, TypeOK
    <3>3. QED
      BY <3>1, <3>2
  <2>3. ASSUME NEW s \in Sessions, NEW r \in Payruns, ComputeLoad(s, r)
        PROVE  Stands(t)
    <3>1. CASE t = s
      <4>1. view'[s] = [NoView EXCEPT !.run = r, !.status = run[r],
                              !.slip = slip[r], !.todo = Members(slip[r])]
            /\ pc'[s] = "compute"
        BY <2>3 DEF ComputeLoad, TypeOK
      <4>2. view'[s].run = r
        BY <4>1 DEF NoView
      <4>3. run[r] # "ABSENT"
        BY <2>3 DEF ComputeLoad
      <4>4. QED
        BY <3>1, <4>1, <4>2, <4>3
    <3>2. CASE t # s
      BY <1>1, <2>1, <2>3, <3>2 DEF ComputeLoad, TypeOK
    <3>3. QED
      BY <3>1, <3>2
  <2>4. ASSUME NEW s \in Sessions, NEW e \in Employees, ComputeRead(s, e)
        PROVE  Stands(t)
    <3>1. CASE t = s
      <4>1. view'[s] = [view[s] EXCEPT !.cur = e, !.net = basis[e],
                                       !.doomed = lines[view[s].run][e]]
        BY <2>4 DEF ComputeRead, TypeOK
      <4>2. view[s] \in View
        BY DEF TypeOK
      <4>3. view'[s].run = view[s].run /\ view'[s].cur = e
        BY <4>1, <4>2 DEF View
      <4>4. QED
        BY <2>4, <3>1, <4>3 DEF ComputeRead, ViewBound, Loaded
    <3>2. CASE t # s
      BY <1>1, <2>1, <2>4, <3>2 DEF ComputeRead, TypeOK
    <3>3. QED
      BY <3>1, <3>2
  <2>5. ASSUME NEW s \in Sessions, ComputePayslip(s)
        PROVE  Stands(t)
    <3>1. view'[t].run = view[t].run /\ (t # s => view'[t].cur = view[t].cur)
      BY <2>5 DEF ComputePayslip, TypeOK, View
    <3>2. pc'[t] = IF t = s THEN "compute" ELSE pc[t]
      BY <2>5 DEF ComputePayslip, TypeOK
    <3>3. QED
      BY <1>1, <2>5, <3>1, <3>2 DEF ComputePayslip, ViewBound, Loaded
  <2>6. ASSUME NEW s \in Sessions, Close(s)
        PROVE  Stands(t)
    <3>1. pc'[s] = "idle" /\ (t # s => pc'[t] = pc[t] /\ view'[t] = view[t])
      BY <2>6 DEF Close, TypeOK
    <3>2. QED
      BY <1>1, <2>1, <3>1 DEF Loaded
  <2>7. ASSUME NEW s \in Sessions, CreateCheck(s)
        PROVE  Stands(t)
    <3>1. pc'[s] = "create" /\ (t # s => pc'[t] = pc[t] /\ view'[t] = view[t])
      BY <2>7 DEF CreateCheck, TypeOK
    <3>2. QED
      BY <1>1, <2>1, <3>1 DEF Loaded
  <2>8. ASSUME NEW s \in Sessions, NEW r \in Payruns,
               ValidateLoad(s, r) \/ MarkPaidLoad(s, r) \/ CancelLoad(s, r)
               \/ DeleteLoad(s, r)
        PROVE  Stands(t)
    BY <2>2, <2>8
       DEF ValidateLoad, MarkPaidLoad, CancelLoad, DeleteLoad, Steps
  <2>9. ASSUME NEW s \in Sessions,
               CreateCommit(s) \/ ComputeFinish(s) \/ ValidateCommit(s)
               \/ MarkPaidCommit(s) \/ CancelCommit(s) \/ DeleteCommit(s)
               \/ Abort(s)
        PROVE  Stands(t)
    BY <2>6, <2>9 DEF CreateCommit, ComputeFinish, ValidateCommit, SetStatus,
                      MarkPaidCommit, CancelCommit, DeleteCommit, Abort
  <2>10. ASSUME NEW s \in Sessions, Request(s)
         PROVE  Stands(t)
    BY <2>3, <2>4, <2>5, <2>7, <2>8, <2>9, <2>10 DEF Request
  <2>11. QED
    BY <2>1, <2>10 DEF Next, Step, InputsChange, ContractChange, vars
<1>2. QED
  BY <1>1, RowsPersist DEF ViewBound, Loaded
-----------------------------------------------------------------------------
\* The index is enforced by every commit that writes a payslip's status.
LEMMA UniqueActiveStep ==
  ASSUME TypeOK, ViewBound, UniqueActive(slip), [Next]_vars
  PROVE  UniqueActive(slip)'
<1>1. CASE slip' = slip
  BY <1>1 DEF UniqueActive
<1>2. CASE UniqueActive(slip')
  BY <1>2 DEF UniqueActive
<1>3. ASSUME NEW s \in Sessions, DeleteCommit(s)
      PROVE  UniqueActive(slip)'
  <2>1. \A r \in Payruns, e \in Employees :
           slip'[r][e] = slip[r][e] \/ slip'[r][e] = NoSlip
    BY <1>3 DEF DeleteCommit, ViewBound, Loaded, TypeOK
  <2>2. QED
    BY <2>1 DEF UniqueActive, Active, NoSlip
<1>4. QED
  BY <1>1, <1>2, <1>3
     DEF Next, Step, Request, CreateCheck, CreateCommit, ComputeLoad,
         ValidateLoad, MarkPaidLoad, CancelLoad, DeleteLoad, Load, ComputeRead,
         ComputePayslip, ComputeFinish, ValidateCommit, MarkPaidCommit,
         CancelCommit, SetStatus, Abort, InputsChange, ContractChange, vars, db

LEMMA NoOrphansStep ==
  ASSUME TypeOK, ViewBound, NoOrphans, [Next]_vars
  PROVE  NoOrphans'
<1> SUFFICES ASSUME NEW r \in Payruns, ~Exists(r)', NEW e \in Employees
             PROVE  slip'[r][e] = NoSlip /\ lines'[r][e] = {}
  BY DEF NoOrphans
<1>1. CASE run' = run /\ slip' = slip /\ lines' = lines
  BY <1>1 DEF NoOrphans, Exists
<1>2. ASSUME NEW s \in Sessions, CreateCommit(s)
      PROVE  slip'[r][e] = NoSlip /\ lines'[r][e] = {}
  <2>1. PICK q \in Payruns : /\ run[q] = "ABSENT"
                             /\ run' = [run EXCEPT ![q] = "DRAFT"]
                             /\ slip' = WithDrafts(q, view[s].todo)
                             /\ lines' = lines
    BY <1>2 DEF CreateCommit
  <2>2. r # q
    BY <2>1 DEF Exists, PayrunStatus, TypeOK
  <2>3. QED
    BY <2>1, <2>2 DEF NoOrphans, Exists, TypeOK, WithDrafts
<1>3. ASSUME NEW s \in Sessions, ComputePayslip(s)
      PROVE  slip'[r][e] = NoSlip /\ lines'[r][e] = {}
  <2>1. /\ view[s].run \in Payruns /\ view[s].cur \in Employees
        /\ slip[view[s].run][view[s].cur].status # "NONE"
        /\ run' = run
    BY <1>3 DEF ComputePayslip, ViewBound, Loaded, StillThere
  <2>2. r # view[s].run
    BY <2>1 DEF NoOrphans, Exists, NoSlip
  <2>3. slip'[r] = slip[r] /\ lines'[r] = lines[r]
    BY <1>3, <2>1, <2>2 DEF ComputePayslip, TypeOK
  <2>4. QED
    BY <2>1, <2>3 DEF NoOrphans, Exists
<1>4. ASSUME NEW s \in Sessions, ComputeFinish(s)
      PROVE  slip'[r][e] = NoSlip /\ lines'[r][e] = {}
  <2>1. ~Exists(r)
    BY <1>4 DEF ComputeFinish, Exists, PayrunStatus, TypeOK
  <2>2. QED
    BY <1>4, <2>1 DEF ComputeFinish, NoOrphans
<1>5. ASSUME NEW s \in Sessions, NEW new \in PayrunStatus, Loaded(s),
             SetStatus(s, new)
      PROVE  slip'[r][e] = NoSlip /\ lines'[r][e] = {}
  <2>1. view[s].run \in Payruns
    BY <1>5 DEF ViewBound
  <2>2. ~Exists(r)
    BY <1>5, <2>1 DEF SetStatus, Exists, TypeOK
  <2>3. slip[r][e] = NoSlip /\ lines[r][e] = {}
    BY <2>2 DEF NoOrphans
  <2>4. r = view[s].run => e \notin Dirty(view[s], new)
    BY <1>5, <2>3 DEF SetStatus, StillThere, NoSlip
  <2>5. slip'[r][e] = slip[r][e]
    BY <1>5, <2>1, <2>4 DEF SetStatus, TypeOK
  <2>6. QED
    BY <1>5, <2>3, <2>5 DEF SetStatus
<1>6. ASSUME NEW s \in Sessions, DeleteCommit(s)
      PROVE  slip'[r][e] = NoSlip /\ lines'[r][e] = {}
  <2>1. view[s].run \in Payruns
    BY <1>6 DEF DeleteCommit, ViewBound, Loaded
  <2>2. CASE r = view[s].run
    BY <1>6, <2>1, <2>2 DEF DeleteCommit, TypeOK
  <2>3. CASE r # view[s].run
    BY <1>6, <2>1, <2>3 DEF DeleteCommit, TypeOK, NoOrphans, Exists
  <2>4. QED
    BY <2>2, <2>3
<1>7. CASE \E s \in Sessions :
              ValidateCommit(s) \/ MarkPaidCommit(s) \/ CancelCommit(s)
  <2>1. PICK s \in Sessions, new \in {"VALIDATED", "PAID", "CANCELLED"} :
           SetStatus(s, new) /\ Loaded(s)
    BY <1>7 DEF ValidateCommit, MarkPaidCommit, CancelCommit, Loaded
  <2>2. QED
    BY <1>5, <2>1 DEF PayrunStatus
<1>8. QED
  BY <1>1, <1>2, <1>3, <1>4, <1>6, <1>7
     DEF Next, Step, Request, CreateCheck, ComputeLoad, ValidateLoad,
         MarkPaidLoad,
         CancelLoad, DeleteLoad, Load, ComputeRead, Abort, InputsChange,
         ContractChange, vars, db
-----------------------------------------------------------------------------
\* A payrun enters COMPUTED when the loop of its request is done, VALIDATED and
\* PAID on a view that was COMPUTED or VALIDATED.
LEMMA SettledStep ==
  ASSUME TypeOK, ViewBound, NoOrphans, SettledWasCalculated, ViewCalculated,
         [Next]_vars
  PROVE  SettledWasCalculated'
<1> DEFINE Settled == {"COMPUTED", "VALIDATED", "PAID"}
<1> SUFFICES ASSUME NEW r \in Payruns, run'[r] \in Settled
             PROVE  Calculated(r)'
  BY DEF SettledWasCalculated, Calculated
<1>1. CASE run[r] # "ABSENT" /\ Calculated(r)
  BY <1>1, RowsPersist DEF Calculated
<1>2. CASE run'[r] = run[r]
  BY <1>1, <1>2 DEF SettledWasCalculated, Calculated
<1>3. ASSUME NEW s \in Sessions, CreateCommit(s)
      PROVE  run'[r] = run[r]
  BY <1>3 DEF CreateCommit, TypeOK
<1>4. ASSUME NEW s \in Sessions, ComputeFinish(s)
      PROVE  Calculated(r)'
  <2>1. CASE r = view[s].run
    BY <1>1, <1>4, <2>1 DEF ComputeFinish, ViewCalculated, ViewBound, Loaded,
                            Calculated
  <2>2. CASE r # view[s].run
    BY <1>2, <1>4, <2>2 DEF ComputeFinish, TypeOK
  <2>3. QED
    BY <2>1, <2>2
<1>5. ASSUME NEW s \in Sessions, NEW new \in PayrunStatus, Loaded(s),
             SetStatus(s, new),
             new # "CANCELLED" => view[s].status \in Settled
      PROVE  Calculated(r)'
  <2>1. view[s].run \in Payruns /\ run[view[s].run] # "ABSENT"
    BY <1>5 DEF ViewBound
  <2>2. CASE r = view[s].run /\ new # "CANCELLED"
    BY <1>1, <1>5, <2>1, <2>2 DEF ViewCalculated
  <2>3. CASE r = view[s].run /\ new = "CANCELLED"
    BY <1>2, <1>5, <2>1, <2>3, SetStatusRows
  <2>4. CASE r # view[s].run
    BY <1>2, <1>5, <2>1, <2>4, SetStatusRows
  <2>5. QED
    BY <2>2, <2>3, <2>4
<1>6. ASSUME NEW s \in Sessions, DeleteCommit(s)
      PROVE  run'[r] = run[r]
  BY <1>6 DEF DeleteCommit, TypeOK
<1>7. CASE \E s \in Sessions :
              ValidateCommit(s) \/ MarkPaidCommit(s) \/ CancelCommit(s)
  <2>1. PICK s \in Sessions, new \in {"VALIDATED", "PAID", "CANCELLED"} :
           /\ SetStatus(s, new) /\ Loaded(s)
           /\ new # "CANCELLED" => view[s].status \in Settled
    BY <1>7 DEF ValidateCommit, MarkPaidCommit, CancelCommit, Loaded,
                ViewCalculated
  <2>2. QED
    BY <1>5, <2>1 DEF PayrunStatus
<1>8. QED
  BY <1>2, <1>3, <1>4, <1>6, <1>7
     DEF Next, Step, Request, CreateCheck, ComputeLoad, ValidateLoad,
         MarkPaidLoad,
         CancelLoad, DeleteLoad, Load, ComputeRead, ComputePayslip, Abort,
         InputsChange, ContractChange, vars, db

\* What a view says was calculated is still there in the next state.
LEMMA ViewCalculatedStep ==
  ASSUME TypeOK, ViewBound, SettledWasCalculated, ViewCalculated, [Next]_vars
  PROVE  ViewCalculated'
<1> DEFINE Settled == {"COMPUTED", "VALIDATED", "PAID"}
           CalculatedAfter(q) == \A e \in Members(slip'[q]) : lines'[q][e] # {}
           Sound(t) ==
             /\ view'[t].status \in Settled => CalculatedAfter(view'[t].run)
             /\ pc'[t] = "validate" => view'[t].status = "COMPUTED"
             /\ pc'[t] = "pay" => view'[t].status = "VALIDATED"
             /\ pc'[t] \in {"compute", "line"} =>
                   \A e \in Members(slip'[view'[t].run]) \ view'[t].todo :
                      lines'[view'[t].run][e] # {}
<1> SUFFICES ASSUME NEW t \in Sessions, Loaded(t)'
             PROVE  Sound(t)
  BY DEF ViewCalculated, Loaded, Calculated
<1>1. CASE /\ Loaded(t) /\ view'[t].run = view[t].run
           /\ view'[t].status = view[t].status
           /\ view'[t].todo = view[t].todo
           /\ \/ pc'[t] = pc[t]
              \/ pc[t] \in {"compute", "line"} /\ pc'[t] \in {"compute", "line"}
  <2>1. view[t].run \in Payruns /\ run[view[t].run] # "ABSENT"
    BY <1>1 DEF ViewBound
  <2>2. \A e \in Members(slip'[view[t].run]) :
           /\ e \in Members(slip[view[t].run])
           /\ lines[view[t].run][e] # {} => lines'[view[t].run][e] # {}
    BY <2>1, RowsPersist
  <2>3. QED
    BY <1>1, <2>2 DEF ViewCalculated, Calculated
<1>2. CASE pc'[t] = pc[t] /\ view'[t] = view[t]
  BY <1>1, <1>2 DEF Loaded
<1>3. ASSUME NEW s \in Sessions, NEW r \in Payruns, NEW step \in Steps,
             Load(s, r, step), step \notin {"compute", "line"},
             step = "validate" => run[r] = "COMPUTED",
             step = "pay" => run[r] = "VALIDATED"
      PROVE  Sound(t)
  <2>1. CASE t = s
    <3>1. view'[s] = [NoView EXCEPT !.run = r, !.status = run[r],
                                    !.slip = slip[r]]
          /\ pc'[s] = step /\ slip' = slip /\ lines' = lines
      BY <1>3 DEF Load, TypeOK, db
    <3>2. view'[s].run = r /\ view'[s].status = run[r]
      BY <3>1 DEF NoView
    <3>3. run[r] \in Settled => CalculatedAfter(r)
      BY <3>1 DEF SettledWasCalculated, Calculated
    <3>4. QED
      BY <1>3, <2>1, <3>1, <3>2, <3>3
  <2>2. CASE t # s
    BY <1>2, <1>3, <2>2 DEF Load, TypeOK
  <2>3. QED
    BY <2>1, <2>2
<1>4. ASSUME NEW s \in Sessions, NEW r \in Payruns, ComputeLoad(s, r)
      PROVE  Sound(t)
  <2>1. CASE t = s
    <3>1. view'[s] = [NoView EXCEPT !.run = r, !.status = run[r],
                            !.slip = slip[r], !.todo = Members(slip[r])]
          /\ pc'[s] = "compute" /\ slip' = slip /\ lines' = lines
      BY <1>4 DEF ComputeLoad, TypeOK, db
    <3>2. /\ view'[s].run = r /\ view'[s].status = run[r]
          /\ view'[s].todo = Members(slip[r])
      BY <3>1 DEF NoView
    <3>3. run[r] \in Settled => CalculatedAfter(r)
      BY <3>1 DEF SettledWasCalculated, Calculated
    <3>4. QED
      BY <2>1, <3>1, <3>2, <3>3
  <2>2. CASE t # s
    BY <1>2, <1>4, <2>2 DEF ComputeLoad, TypeOK
  <2>3. QED
    BY <2>1, <2>2
<1>5. ASSUME NEW s \in Sessions, NEW e \in Employees, ComputeRead(s, e)
      PROVE  Sound(t)
  <2>1. CASE t = s
    <3>1. view'[s] = [view[s] EXCEPT !.cur = e, !.net = basis[e],
                                     !.doomed = lines[view[s].run][e]]
      BY <1>5 DEF ComputeRead, TypeOK
    <3>2. view[s] \in View
      BY DEF TypeOK
    <3>3. /\ view'[s].run = view[s].run /\ view'[s].status = view[s].status
          /\ view'[s].todo = view[s].todo
      BY <3>1, <3>2 DEF View
    <3>4. pc[s] = "compute" /\ pc'[s] = "line"
      BY <1>5 DEF ComputeRead, TypeOK
    <3>5. QED
      BY <1>1, <2>1, <3>3, <3>4 DEF Loaded
  <2>2. CASE t # s
    BY <1>2, <1>5, <2>2 DEF ComputeRead, TypeOK
  <2>3. QED
    BY <2>1, <2>2
<1>6. ASSUME NEW s \in Sessions, ComputePayslip(s)
      PROVE  Sound(t)
  <2>1. /\ view'[t].run = view[t].run /\ view'[t].status = view[t].status
        /\ view'[t].todo = IF t = s THEN view[t].todo \ {view[s].cur}
                           ELSE view[t].todo
    BY <1>6 DEF ComputePayslip, TypeOK, View
  <2>2. pc[s] = "line" /\ pc'[t] = IF t = s THEN "compute" ELSE pc[t]
    BY <1>6 DEF ComputePayslip, TypeOK
  <2>3. CASE t # s
    BY <1>1, <2>1, <2>2, <2>3 DEF Loaded
  <2>4. CASE t = s
    <3>1. view[s].run \in Payruns
      BY <2>2 DEF ViewBound, Loaded
    <3>2. /\ Members(slip'[view[s].run]) = Members(slip[view[s].run])
          /\ \A e \in Employees :
                lines[view[s].run][e] # {} => lines'[view[s].run][e] # {}
          /\ lines'[view[s].run][view[s].cur] # {}
      BY <1>6, <3>1, ComputePayslipRows
    <3>3. Members(slip[view[s].run]) \in SUBSET Employees
      BY DEF Members
    <3>4. QED
      BY <2>1, <2>2, <2>4, <3>2, <3>3 DEF ViewCalculated, Loaded, Calculated
  <2>5. QED
    BY <2>3, <2>4
<1>7. ASSUME NEW s \in Sessions, Close(s) \/ CreateCheck(s)
      PROVE  Sound(t)
  <2>1. /\ pc'[s] \in {"idle", "create"}
        /\ t # s => pc'[t] = pc[t] /\ view'[t] = view[t]
    BY <1>7 DEF Close, CreateCheck, TypeOK
  <2>2. QED
    BY <1>2, <2>1 DEF Loaded
<1>8. ASSUME NEW s \in Sessions, NEW r \in Payruns,
             ValidateLoad(s, r) \/ MarkPaidLoad(s, r) \/ CancelLoad(s, r)
             \/ DeleteLoad(s, r)
      PROVE  Sound(t)
  <2>1. PICK step \in Steps :
           /\ Load(s, r, step) /\ step \notin {"compute", "line"}
           /\ step = "validate" => run[r] = "COMPUTED"
           /\ step = "pay" => run[r] = "VALIDATED"
    BY <1>8 DEF ValidateLoad, MarkPaidLoad, CancelLoad, DeleteLoad, Steps
  <2>2. QED
    BY <1>3, <2>1
<1>9. ASSUME NEW s \in Sessions,
             CreateCommit(s) \/ ComputeFinish(s) \/ ValidateCommit(s)
             \/ MarkPaidCommit(s) \/ CancelCommit(s) \/ DeleteCommit(s)
             \/ Abort(s)
      PROVE  Sound(t)
  <2>1. Close(s)
    BY <1>9 DEF CreateCommit, ComputeFinish, ValidateCommit, SetStatus,
                MarkPaidCommit, CancelCommit, DeleteCommit, Abort
  <2>2. QED
    BY <1>7, <2>1
<1>10. ASSUME NEW s \in Sessions, Request(s)
       PROVE  Sound(t)
  BY <1>4, <1>5, <1>6, <1>7, <1>8, <1>9, <1>10 DEF Request
<1>11. QED
  BY <1>2, <1>10 DEF Next, Step, InputsChange, ContractChange, vars
-----------------------------------------------------------------------------
(* What is PAID stays as it is until the payrun counts as reopened. *)

LEMMA KeptUnlessReopened ==
  ASSUME [Next]_vars, NEW r \in Payruns, r \notin reopened'
  PROVE  /\ r \notin reopened
         /\ run[r] = "PAID" => run'[r] = run[r] /\ slip'[r] = slip[r]
  BY DEF Next, NoteReopened, vars

\* A payslip becomes PAID only together with its payrun.
LEMMA PaidRowSource ==
  ASSUME TypeOK, ViewBound, ViewCalculated, [Next]_vars,
         NEW r \in Payruns, NEW e \in Employees, slip'[r][e].status = "PAID"
  PROVE  slip[r][e].status = "PAID" \/ run'[r] = "PAID"
<1>1. CASE slip' = slip
  BY <1>1
<1>2. ASSUME NEW s \in Sessions, CreateCommit(s)
      PROVE  slip[r][e].status = "PAID"
  BY <1>2 DEF CreateCommit, WithDrafts, TypeOK, NoSlip
<1>3. ASSUME NEW s \in Sessions, ComputePayslip(s)
      PROVE  slip[r][e].status = "PAID"
  BY <1>3 DEF ComputePayslip, Recalculated, TypeOK, ViewBound, Loaded
<1>4. ASSUME NEW s \in Sessions, NEW new \in {"VALIDATED", "CANCELLED"},
             SetStatus(s, new)
      PROVE  slip[r][e].status = "PAID"
  BY <1>4 DEF SetStatus, TypeOK, Slip
<1>5. ASSUME NEW s \in Sessions, MarkPaidCommit(s)
      PROVE  slip[r][e].status = "PAID" \/ run'[r] = "PAID"
  <2>1. view[s].run \in Payruns /\ view[s].status # "PAID"
    BY <1>5 DEF MarkPaidCommit, ViewBound, ViewCalculated, Loaded
  <2>2. CASE r = view[s].run
    BY <1>5, <2>1, <2>2 DEF MarkPaidCommit, SetStatus, TypeOK
  <2>3. CASE r # view[s].run
    BY <1>5, <2>1, <2>3 DEF MarkPaidCommit, SetStatus, TypeOK
  <2>4. QED
    BY <2>2, <2>3
<1>6. ASSUME NEW s \in Sessions, DeleteCommit(s)
      PROVE  slip[r][e].status = "PAID"
  BY <1>6 DEF DeleteCommit, TypeOK, NoSlip
<1>7. QED
  BY <1>1, <1>2, <1>3, <1>4, <1>5, <1>6
     DEF Next, Step, Request, CreateCheck, ComputeLoad, ValidateLoad,
         MarkPaidLoad, CancelLoad, DeleteLoad, Load, ComputeRead, ComputeFinish,
         ValidateCommit, CancelCommit, Abort, InputsChange, ContractChange,
         vars, db

\* mark_payrun_paid settles with whoever it leaves with a PAID payslip.
LEMMA PayoutSource ==
  ASSUME TypeOK, ViewBound, PaidStands, [Next]_vars,
         NEW r \in Payruns, r \notin reopened',
         NEW e \in Employees, r \in payouts'[e]
  PROVE  r \in payouts[e] \/ slip'[r][e].status = "PAID"
<1>1. CASE payouts' = payouts
  BY <1>1
<1>2. ASSUME NEW s \in Sessions, MarkPaidCommit(s), r \notin payouts[e]
      PROVE  slip'[r][e].status = "PAID"
  <2>1. r = view[s].run /\ e \in Members(view[s].slip) /\ Loaded(s)
    BY <1>2 DEF MarkPaidCommit, TypeOK, Loaded
  <2>2. CASE e \in Dirty(view[s], "PAID")
    <3>1. slip'[r][e] = [slip[r][e] EXCEPT !.status = "PAID"]
      BY <1>2, <2>1, <2>2 DEF MarkPaidCommit, SetStatus, TypeOK
    <3>2. QED
      BY <3>1 DEF TypeOK, Slip
  <2>3. CASE e \notin Dirty(view[s], "PAID")
    <3>1. view[s].slip[e].status = "PAID"
      BY <2>1, <2>3 DEF Dirty
    <3>2. slip[r][e].status = "PAID"
      BY <2>1, <3>1, KeptUnlessReopened DEF PaidStands
    <3>3. slip'[r][e] = slip[r][e]
      BY <1>2, <2>1, <2>3 DEF MarkPaidCommit, SetStatus, TypeOK
    <3>4. QED
      BY <3>2, <3>3
  <2>4. QED
    BY <2>2, <2>3
<1>3. QED
  BY <1>1, <1>2
     DEF Next, Step, Request, CreateCheck, CreateCommit, ComputeLoad,
         ValidateLoad, CancelLoad, MarkPaidLoad, DeleteLoad, Load, ComputeRead,
         ComputePayslip, ComputeFinish, ValidateCommit, CancelCommit,
         DeleteCommit, Abort, InputsChange, ContractChange, vars

\* The payslips in a view were there before, or are loaded as the rows are.
LEMMA ViewSource ==
  ASSUME TypeOK, [Next]_vars, NEW s \in Sessions, Loaded(s)'
  PROVE  \/ /\ Loaded(s) /\ view'[s].run = view[s].run
            /\ view'[s].slip = view[s].slip
         \/ /\ slip' = slip /\ view'[s].slip = slip[view'[s].run]
<1> DEFINE Kept   == /\ Loaded(s) /\ view'[s].run = view[s].run
                     /\ view'[s].slip = view[s].slip
           Fresh  == slip' = slip /\ view'[s].slip = slip[view'[s].run]
<1>1. CASE pc'[s] = pc[s] /\ view'[s] = view[s]
  BY <1>1 DEF Loaded
<1>2. ASSUME NEW t \in Sessions, NEW r \in Payruns, NEW step,
             Load(t, r, step) \/ ComputeLoad(t, r)
      PROVE  Kept \/ Fresh
  <2>1. CASE t = s
    <3>1. /\ slip' = slip
          /\ \/ view'[s] = [NoView EXCEPT !.run = r, !.status = run[r],
                                          !.slip = slip[r]]
             \/ view'[s] = [NoView EXCEPT !.run = r, !.status = run[r],
                              !.slip = slip[r], !.todo = Members(slip[r])]
      BY <1>2, <2>1 DEF Load, ComputeLoad, TypeOK, db
    <3>2. view'[s].run = r /\ view'[s].slip = slip[r]
      BY <3>1 DEF NoView
    <3>3. QED
      BY <3>1, <3>2
  <2>2. CASE t # s
    BY <1>1, <1>2, <2>2 DEF Load, ComputeLoad, TypeOK
  <2>3. QED
    BY <2>1, <2>2
<1>3. ASSUME NEW t \in Sessions, NEW e \in Employees, ComputeRead(t, e)
      PROVE  Kept
  <2>1. /\ view'[s].run = view[s].run /\ view'[s].slip = view[s].slip
        /\ pc'[s] = pc[s] \/ pc[s] = "compute"
    BY <1>3 DEF ComputeRead, TypeOK, View
  <2>2. QED
    BY <2>1 DEF Loaded
<1>4. ASSUME NEW t \in Sessions, ComputePayslip(t)
      PROVE  Kept
  <2>1. /\ view'[s].run = view[s].run /\ view'[s].slip = view[s].slip
        /\ pc'[s] = pc[s] \/ pc[s] = "line"
    BY <1>4 DEF ComputePayslip, TypeOK, View
  <2>2. QED
    BY <2>1 DEF Loaded
<1>5. ASSUME NEW t \in Sessions, Close(t) \/ CreateCheck(t)
      PROVE  Kept
  <2>1. pc'[t] \in {"idle", "create"}
        /\ (t # s => pc'[s] = pc[s] /\ view'[s] = view[s])
    BY <1>5 DEF Close, CreateCheck, TypeOK
  <2>2. QED
    BY <2>1 DEF Loaded
<1>6. ASSUME NEW t \in Sessions, Request(t)
      PROVE  Kept \/ Fresh
  <2>1. CASE \E r \in Payruns :
                \/ ComputeLoad(t, r) \/ ValidateLoad(t, r) \/ MarkPaidLoad(t, r)
                \/ CancelLoad(t, r) \/ DeleteLoad(t, r)
    BY <1>2, <2>1 DEF ValidateLoad, MarkPaidLoad, CancelLoad, DeleteLoad
  <2>2. CASE \/ CreateCommit(t) \/ ComputeFinish(t) \/ ValidateCommit(t)
             \/ MarkPaidCommit(t) \/ CancelCommit(t) \/ DeleteCommit(t)
             \/ Abort(t)
    BY <1>5, <2>2 DEF CreateCommit, ComputeFinish, ValidateCommit, SetStatus,
                      MarkPaidCommit, CancelCommit, DeleteCommit, Abort
  <2>3. QED
    BY <1>3, <1>4, <1>5, <1>6, <2>1, <2>2 DEF Request
<1>7. QED
  BY <1>1, <1>6 DEF Next, Step, InputsChange, ContractChange, vars

LEMMA PaidStandsStep ==
  ASSUME TypeOK, ViewBound, ViewCalculated, PaidStands, [Next]_vars
  PROVE  PaidStands'
<1> SUFFICES ASSUME NEW r \in Payruns \ reopened', NEW e \in Employees
             PROVE  (/\ slip[r][e].status = "PAID" => run[r] = "PAID"
                     /\ r \in payouts[e] => slip[r][e].status = "PAID"
                     /\ \A s \in Sessions :
                           Loaded(s) /\ view[s].run = r
                           /\ view[s].slip[e].status = "PAID"
                              => slip[r][e].status = "PAID")'
  BY DEF PaidStands
<1>1. r \notin reopened
  BY KeptUnlessReopened
<1>2. slip[r][e].status = "PAID" => run'[r] = "PAID" /\ slip'[r] = slip[r]
  BY <1>1, KeptUnlessReopened DEF PaidStands
<1>3. slip'[r][e].status = "PAID" => run'[r] = "PAID"
  BY <1>2, PaidRowSource
<1>4. r \in payouts'[e] => slip'[r][e].status = "PAID"
  BY <1>1, <1>2, PayoutSource DEF PaidStands
<1>5. ASSUME NEW s \in Sessions, Loaded(s)', view'[s].run = r,
             view'[s].slip[e].status = "PAID"
      PROVE  slip'[r][e].status = "PAID"
  <2>1. CASE Loaded(s) /\ view'[s].run = view[s].run
             /\ view'[s].slip = view[s].slip
    BY <1>1, <1>2, <1>5, <2>1 DEF PaidStands
  <2>2. CASE slip' = slip /\ view'[s].slip = slip[view'[s].run]
    BY <1>5, <2>2
  <2>3. QED
    BY <1>5, <2>1, <2>2, ViewSource
<1>6. QED
  BY <1>3, <1>4, <1>5
-----------------------------------------------------------------------------
LEMMA RaceInvInit == Init => RaceInv
<1> SUFFICES ASSUME Init
             PROVE  RaceInv
  OBVIOUS
<1>1. NoSlip \in Slip
  BY PayrunAssumption DEF NoSlip, Slip
<1>2. TypeOK
  BY <1>1, NoViewType DEF Init, TypeOK, RunState, Steps
<1>3. ViewBound /\ ViewCalculated
  BY DEF Init, ViewBound, ViewCalculated, Loaded
<1>4. /\ UniqueActive(slip) /\ NoOrphans /\ SettledWasCalculated
      /\ PaidStands
  BY DEF Init, UniqueActive, Active, NoOrphans, NoSlip, SettledWasCalculated,
         PaidStands, Loaded
<1>5. QED
  BY <1>2, <1>3, <1>4 DEF RaceInv

\* However many requests overlap, and wherever they fail, the rows of the three
\* tables keep the relations of RaceInv.
THEOREM RaceSafety == Spec => []RaceInv
<1>1. RaceInv /\ [Next]_vars => RaceInv'
  BY TypeStep, ViewBoundStep, UniqueActiveStep, NoOrphansStep, SettledStep,
     ViewCalculatedStep, PaidStandsStep DEF RaceInv
<1>2. QED
  BY RaceInvInit, <1>1, PTL DEF Spec

\* Type correctness of every row and every request.
THEOREM TypeCorrect == Spec => []TypeOK
  BY RaceSafety, PTL DEF RaceInv

\* However many requests overlap, two payruns that both paid an employee for the
\* period have not both been left alone since.
THEOREM PaidOnce == Spec => []PaidOnceUnlessReopened
<1>1. RaceInv => PaidOnceUnlessReopened
  <2> SUFFICES ASSUME RaceInv, NEW e \in Employees,
                      NEW q \in payouts[e] \ reopened,
                      NEW r \in payouts[e] \ reopened
               PROVE  q = r
    BY DEF PaidOnceUnlessReopened
  <2>1. q \in Payruns /\ r \in Payruns
    BY DEF RaceInv, TypeOK
  <2>2. slip[q][e].status = "PAID" /\ slip[r][e].status = "PAID"
    BY <2>1 DEF RaceInv, PaidStands
  <2>3. QED
    BY <2>1, <2>2 DEF RaceInv, UniqueActive, Active
<1>2. QED
  BY <1>1, RaceSafety, PTL

\* No interleaving presents, approves or settles a payslip without lines.
THEOREM SettledHasLines == Spec => []SettledWasCalculated
  BY RaceSafety, PTL DEF RaceInv

\* No interleaving leaves a payslip or a line of a deleted payrun behind.
THEOREM DeleteIsComplete == Spec => []NoOrphans
  BY RaceSafety, PTL DEF RaceInv
-----------------------------------------------------------------------------
(* Requests that are served one at a time *)

\* All requests use one session.
Alone == \A s, t \in Sessions : s = t

\* The part of SerialInv that is about committed rows.
RowsInv == LinesAgree /\ StatusAgrees /\ SettledNetNonNegative /\ PaidStaysPaid

\* A row that is PAID, and what hangs on it, is left as it is.
PaidKept == \A r \in Payruns : run[r] = "PAID" =>
               run'[r] = "PAID" /\ slip'[r] = slip[r] /\ lines'[r] = lines[r]
-----------------------------------------------------------------------------
\* What each commit does to the rows, given that its view is current.
LEMMA CreateEffect ==
  ASSUME SerialInv, NEW s \in Sessions, CreateCommit(s)
  PROVE  \E r \in Payruns :
            /\ run[r] = "ABSENT" /\ run' = [run EXCEPT ![r] = "DRAFT"]
            /\ \A q \in Payruns : q # r => slip'[q] = slip[q]
            /\ \A e \in Employees :
                  /\ slip[r][e] = NoSlip /\ lines[r][e] = {}
                  /\ slip'[r][e] = IF e \in view[s].todo
                                   THEN [status |-> "DRAFT", net |-> 0] ELSE NoSlip
            /\ lines' = lines /\ payouts' = payouts
<1>1. PICK r \in Payruns : /\ run[r] = "ABSENT"
                           /\ run' = [run EXCEPT ![r] = "DRAFT"]
                           /\ slip' = WithDrafts(r, view[s].todo)
  BY DEF CreateCommit
<1>2. ~Exists(r)
  BY <1>1 DEF Exists, PayrunStatus
<1>3. \A e \in Employees : slip[r][e] = NoSlip /\ lines[r][e] = {}
  BY <1>2 DEF SerialInv, RaceInv, NoOrphans
<1>4. slip \in [Payruns -> [Employees -> Slip]]
  BY DEF SerialInv, RaceInv, TypeOK
<1>5. /\ \A q \in Payruns : q # r => slip'[q] = slip[q]
      /\ \A e \in Employees : slip'[r][e] = IF e \in view[s].todo
                                            THEN [status |-> "DRAFT", net |-> 0]
                                            ELSE NoSlip
  BY <1>1, <1>4 DEF WithDrafts
<1>6. QED
  BY <1>1, <1>3, <1>5 DEF CreateCommit

LEMMA ComputePayslipEffect ==
  ASSUME SerialInv, NEW s \in Sessions, ComputePayslip(s)
  PROVE  LET r == view[s].run
             c == view[s].cur
         IN  /\ r \in Payruns /\ run[r] \in {"DRAFT", "COMPUTED"}
             /\ c \in view[s].todo /\ c \in Members(slip[r])
             /\ view[s].net \in Amounts
             /\ slip'[r][c] = [status |-> "COMPUTED", net |-> view[s].net]
             /\ lines'[r][c] = {[by |-> s, net |-> view[s].net]}
             /\ \A q \in Payruns, e \in Employees : q # r \/ e # c =>
                   slip'[q][e] = slip[q][e] /\ lines'[q][e] = lines[q][e]
             /\ \A q \in Payruns : q # r =>
                   slip'[q] = slip[q] /\ lines'[q] = lines[q]
             /\ run' = run /\ payouts' = payouts
<1> DEFINE v == view[s]
           r == view[s].run
           c == view[s].cur
<1>1. pc[s] = "line" /\ Loaded(s)
  BY DEF ComputePayslip, Loaded
<1>2. /\ r \in Payruns /\ c \in Employees /\ v \in View /\ v.net \in Amounts
      /\ slip \in [Payruns -> [Employees -> Slip]]
      /\ lines \in [Payruns -> [Employees -> SUBSET Batch]]
  BY <1>1 DEF SerialInv, RaceInv, TypeOK, ViewBound, View
<1>3. ViewIsCurrent(s) /\ ComputeIsCurrent(s)
  BY <1>1 DEF SerialInv, RequestIsCurrent
<1>4. run[r] \in {"DRAFT", "COMPUTED"}
  BY <1>1, <1>3 DEF ViewIsCurrent, GuardOf
<1>5. /\ c \in v.todo /\ c \in Members(slip[r])
      /\ v.slip[c] = slip[r][c] /\ v.doomed = lines[r][c]
  BY <1>1, <1>3 DEF ComputeIsCurrent
<1>6. Recalculated(v.slip[c], slip[r][c], v.net)
         = [status |-> "COMPUTED", net |-> v.net]
  BY <1>5 DEF Recalculated
<1>7. /\ slip' = [slip EXCEPT ![r][c] = Recalculated(v.slip[c], @, v.net)]
      /\ lines' = [lines EXCEPT ![r][c] =
                     (@ \ v.doomed) \cup {[by |-> s, net |-> v.net]}]
      /\ run' = run /\ payouts' = payouts
  BY DEF ComputePayslip
<1>8. slip'[r][c] = [status |-> "COMPUTED", net |-> v.net]
  BY <1>2, <1>6, <1>7
<1>9. lines'[r][c] = {[by |-> s, net |-> v.net]}
  BY <1>2, <1>5, <1>7
<1>10. /\ \A q \in Payruns, e \in Employees : q # r \/ e # c =>
             slip'[q][e] = slip[q][e] /\ lines'[q][e] = lines[q][e]
       /\ \A q \in Payruns : q # r =>
             slip'[q] = slip[q] /\ lines'[q] = lines[q]
  BY <1>2, <1>7
<1>11. QED
  BY <1>2, <1>4, <1>5, <1>7, <1>8, <1>9, <1>10

LEMMA ComputeFinishEffect ==
  ASSUME SerialInv, NEW s \in Sessions, ComputeFinish(s)
  PROVE  LET r == view[s].run
         IN  /\ r \in Payruns /\ run[r] \in {"DRAFT", "COMPUTED"}
             /\ run' = [run EXCEPT ![r] = "COMPUTED"]
             /\ \A e \in Members(slip[r]) : slip[r][e].status = "COMPUTED"
             /\ slip' = slip /\ lines' = lines /\ payouts' = payouts
<1> DEFINE r == view[s].run
<1>1. pc[s] = "compute" /\ Loaded(s) /\ view[s].todo = {}
  BY DEF ComputeFinish, Loaded
<1>2. r \in Payruns /\ run \in [Payruns -> RunState]
  BY <1>1 DEF SerialInv, RaceInv, TypeOK, ViewBound
<1>3. ViewIsCurrent(s) /\ ComputeIsCurrent(s)
  BY <1>1 DEF SerialInv, RequestIsCurrent
<1>4. view[s].status = run[r] /\ run[r] \in {"DRAFT", "COMPUTED"}
  BY <1>1, <1>3 DEF ViewIsCurrent, GuardOf
<1>5. run' = [run EXCEPT ![r] = "COMPUTED"]
  BY <1>2, <1>4 DEF ComputeFinish
<1>6. \A e \in Members(slip[r]) : slip[r][e].status = "COMPUTED"
  BY <1>1, <1>3 DEF ComputeIsCurrent
<1>7. QED
  BY <1>2, <1>4, <1>5, <1>6 DEF ComputeFinish

LEMMA SetStatusEffect ==
  ASSUME SerialInv, NEW s \in Sessions, NEW new \in PayrunStatus,
         pc[s] \in {"validate", "pay", "cancel"}, SetStatus(s, new)
  PROVE  LET r == view[s].run
         IN  /\ r \in Payruns /\ Exists(r) /\ GuardOf(pc[s], run[r])
             /\ pc[s] = "validate" =>
                   \A e \in Members(slip[r]) : slip[r][e].net >= 0
             /\ view[s].slip = slip[r]
             /\ run' = [run EXCEPT ![r] = new]
             /\ \A q \in Payruns : q # r => slip'[q] = slip[q]
             /\ \A e \in Employees :
                   slip'[r][e] = IF e \in Members(slip[r])
                                 THEN [status |-> new, net |-> slip[r][e].net]
                                 ELSE slip[r][e]
             /\ lines' = lines
<1> DEFINE v == view[s]
           r == view[s].run
<1>1. Loaded(s)
  BY DEF Loaded
<1>2. /\ r \in Payruns /\ run \in [Payruns -> RunState]
      /\ slip \in [Payruns -> [Employees -> Slip]]
  BY <1>1 DEF SerialInv, RaceInv, TypeOK, ViewBound
<1>3. ViewIsCurrent(s)
  BY <1>1 DEF SerialInv, RequestIsCurrent
<1>4. /\ Exists(r) /\ GuardOf(pc[s], run[r])
      /\ v.status = run[r] /\ v.slip = slip[r]
      /\ pc[s] = "validate" => \A e \in Members(slip[r]) : slip[r][e].net >= 0
  BY <1>3 DEF ViewIsCurrent
<1>5. run' = [run EXCEPT ![r] = new]
  BY <1>2, <1>4 DEF SetStatus
<1>6. slip' = [slip EXCEPT ![r] = [e \in Employees |->
                 IF e \in Dirty(v, new) THEN [slip[r][e] EXCEPT !.status = new]
                 ELSE slip[r][e]]]
  BY DEF SetStatus
<1>7. \A q \in Payruns : q # r => slip'[q] = slip[q]
  BY <1>2, <1>6
<1>8. ASSUME NEW e \in Employees
      PROVE  slip'[r][e] = IF e \in Members(slip[r])
                           THEN [status |-> new, net |-> slip[r][e].net]
                           ELSE slip[r][e]
  <2>1. slip[r][e] \in Slip
    BY <1>2
  <2>2. [slip[r][e] EXCEPT !.status = new]
           = [status |-> new, net |-> slip[r][e].net]
    BY <2>1 DEF Slip
  <2>3. slip[r][e].status = new =>
           slip[r][e] = [status |-> new, net |-> slip[r][e].net]
    BY <2>1 DEF Slip
  <2>4. e \in Dirty(v, new) <=> e \in Members(slip[r]) /\ slip[r][e].status # new
    BY <1>4 DEF Dirty
  <2>5. slip'[r][e] = IF e \in Dirty(v, new)
                      THEN [slip[r][e] EXCEPT !.status = new] ELSE slip[r][e]
    BY <1>2, <1>6
  <2>6. QED
    BY <2>2, <2>3, <2>4, <2>5
<1>9. QED
  BY <1>2, <1>4, <1>5, <1>7, <1>8 DEF SetStatus

LEMMA DeleteEffect ==
  ASSUME SerialInv, NEW s \in Sessions, DeleteCommit(s)
  PROVE  LET r == view[s].run
         IN  /\ r \in Payruns /\ run[r] \in {"DRAFT", "CANCELLED"}
             /\ run' = [run EXCEPT ![r] = "DELETED"]
             /\ \A q \in Payruns : q # r =>
                   slip'[q] = slip[q] /\ lines'[q] = lines[q]
             /\ \A e \in Employees : slip'[r][e] = NoSlip /\ lines'[r][e] = {}
             /\ payouts' = payouts
<1> DEFINE r == view[s].run
<1>1. pc[s] = "delete" /\ Loaded(s)
  BY DEF DeleteCommit, Loaded
<1>2. /\ r \in Payruns
      /\ slip \in [Payruns -> [Employees -> Slip]]
      /\ lines \in [Payruns -> [Employees -> SUBSET Batch]]
  BY <1>1 DEF SerialInv, RaceInv, TypeOK, ViewBound
<1>3. run[r] \in {"DRAFT", "CANCELLED"}
  BY <1>1 DEF SerialInv, RequestIsCurrent, ViewIsCurrent, GuardOf
<1>4. /\ \A q \in Payruns : q # r => slip'[q] = slip[q] /\ lines'[q] = lines[q]
      /\ \A e \in Employees : slip'[r][e] = NoSlip /\ lines'[r][e] = {}
  BY <1>2 DEF DeleteCommit
<1>5. QED
  BY <1>2, <1>3, <1>4 DEF DeleteCommit
-----------------------------------------------------------------------------
\* The rows after each commit.
LEMMA PayoutsKept ==
  ASSUME SerialInv, PaidKept, payouts' = payouts
  PROVE  PaidStaysPaid'
<1> SUFFICES ASSUME NEW e \in Employees, NEW r \in payouts[e]
             PROVE  run'[r] = "PAID" /\ e \in Members(slip'[r])
  BY DEF PaidStaysPaid, Members
<1>1. r \in Payruns
  BY DEF SerialInv, RaceInv, TypeOK
<1>2. run[r] = "PAID" /\ e \in Members(slip[r])
  BY DEF SerialInv, PaidStaysPaid
<1>3. QED
  BY <1>1, <1>2 DEF PaidKept, Members

LEMMA CreateRows ==
  ASSUME SerialInv, NEW s \in Sessions, CreateCommit(s)
  PROVE  RowsInv' /\ PaidKept
<1>1. PICK r \in Payruns :
         /\ run[r] = "ABSENT" /\ run' = [run EXCEPT ![r] = "DRAFT"]
         /\ \A q \in Payruns : q # r => slip'[q] = slip[q]
         /\ \A e \in Employees :
               /\ slip[r][e] = NoSlip /\ lines[r][e] = {}
               /\ slip'[r][e] = IF e \in view[s].todo
                                THEN [status |-> "DRAFT", net |-> 0] ELSE NoSlip
         /\ lines' = lines /\ payouts' = payouts
  BY CreateEffect
<1>2. run'[r] = "DRAFT" /\ \A q \in Payruns : q # r => run'[q] = run[q]
  BY <1>1 DEF SerialInv, RaceInv, TypeOK
<1>3. PaidKept
  BY <1>1, <1>2 DEF PaidKept
<1>4. LinesAgree'
  BY <1>1 DEF SerialInv, LinesAgree, NoSlip
<1>5. StatusAgrees'
  BY <1>1, <1>2 DEF SerialInv, StatusAgrees, Exists, Members, NoSlip
<1>6. SettledNetNonNegative'
  BY <1>1, <1>2 DEF SerialInv, SettledNetNonNegative, Members
<1>7. QED
  BY <1>1, <1>3, <1>4, <1>5, <1>6, PayoutsKept DEF RowsInv

LEMMA ComputePayslipRowsKept ==
  ASSUME SerialInv, NEW s \in Sessions, ComputePayslip(s)
  PROVE  RowsInv' /\ PaidKept
<1> DEFINE r == view[s].run
           c == view[s].cur
<1>1. /\ r \in Payruns /\ run[r] \in {"DRAFT", "COMPUTED"}
      /\ c \in Members(slip[r])
      /\ slip'[r][c] = [status |-> "COMPUTED", net |-> view[s].net]
      /\ lines'[r][c] = {[by |-> s, net |-> view[s].net]}
      /\ \A q \in Payruns, e \in Employees : q # r \/ e # c =>
            slip'[q][e] = slip[q][e] /\ lines'[q][e] = lines[q][e]
      /\ \A q \in Payruns : q # r => slip'[q] = slip[q] /\ lines'[q] = lines[q]
      /\ run' = run /\ payouts' = payouts
  BY ComputePayslipEffect
<1>2. PaidKept
  BY <1>1 DEF PaidKept
<1>3. LinesAgree'
  <2>1. LinesAgree
    BY DEF SerialInv
  <2>2. [by |-> s, net |-> view[s].net] \in lines'[r][c]
        /\ slip'[r][c].net = view[s].net
    BY <1>1
  <2>3. ASSUME NEW q \in Payruns, NEW e \in Employees, slip'[q][e].status # "NONE"
        PROVE  \/ lines'[q][e] = {} /\ slip'[q][e].net = 0
               \/ \E b \in lines'[q][e] : /\ lines'[q][e] = {b}
                                         /\ b.net = slip'[q][e].net
    <3>1. CASE q = r /\ e = c
      BY <1>1, <2>2, <3>1
    <3>2. CASE q # r \/ e # c
      <4>1. slip'[q][e] = slip[q][e] /\ lines'[q][e] = lines[q][e]
        BY <1>1, <3>2
      <4>2. QED
        BY <2>1, <2>3, <4>1 DEF LinesAgree
    <3>3. QED
      BY <3>1, <3>2
  <2>4. QED
    BY <2>3 DEF LinesAgree
<1>4. StatusAgrees'
  BY <1>1 DEF SerialInv, StatusAgrees, Exists, Members
<1>5. SettledNetNonNegative'
  BY <1>1 DEF SerialInv, SettledNetNonNegative, Members
<1>6. QED
  BY <1>1, <1>2, <1>3, <1>4, <1>5, PayoutsKept DEF RowsInv

LEMMA ComputeFinishRows ==
  ASSUME SerialInv, NEW s \in Sessions, ComputeFinish(s)
  PROVE  RowsInv' /\ PaidKept
<1> DEFINE r == view[s].run
<1>1. /\ r \in Payruns /\ run[r] \in {"DRAFT", "COMPUTED"}
      /\ run' = [run EXCEPT ![r] = "COMPUTED"]
      /\ \A e \in Members(slip[r]) : slip[r][e].status = "COMPUTED"
      /\ slip' = slip /\ lines' = lines /\ payouts' = payouts
  BY ComputeFinishEffect
<1>2. run'[r] = "COMPUTED" /\ \A q \in Payruns : q # r => run'[q] = run[q]
  BY <1>1 DEF SerialInv, RaceInv, TypeOK
<1>3. PaidKept
  BY <1>1, <1>2 DEF PaidKept
<1>4. LinesAgree'
  <2>1. LinesAgree /\ slip' = slip /\ lines' = lines
    BY <1>1 DEF SerialInv
  <2>2. QED
    BY <2>1 DEF LinesAgree
<1>5. StatusAgrees'
  BY <1>1, <1>2 DEF SerialInv, StatusAgrees, Exists, Members
<1>6. SettledNetNonNegative'
  BY <1>1, <1>2 DEF SerialInv, SettledNetNonNegative, Members
<1>7. QED
  BY <1>1, <1>3, <1>4, <1>5, <1>6, PayoutsKept DEF RowsInv

LEMMA SetStatusRowsKept ==
  ASSUME SerialInv, NEW s \in Sessions, NEW new \in PayrunStatus,
         SetStatus(s, new),
         \/ pc[s] = "validate" /\ new = "VALIDATED" /\ payouts' = payouts
         \/ pc[s] = "cancel" /\ new = "CANCELLED" /\ payouts' = payouts
         \/ /\ pc[s] = "pay" /\ new = "PAID"
            /\ payouts' = [e \in Employees |->
                  IF e \in Members(view[s].slip)
                  THEN payouts[e] \cup {view[s].run} ELSE payouts[e]]
  PROVE  RowsInv' /\ PaidKept
<1> DEFINE r == view[s].run
<1>1. /\ r \in Payruns /\ Exists(r) /\ GuardOf(pc[s], run[r])
      /\ pc[s] = "validate" => \A e \in Members(slip[r]) : slip[r][e].net >= 0
      /\ view[s].slip = slip[r]
      /\ run' = [run EXCEPT ![r] = new]
      /\ \A q \in Payruns : q # r => slip'[q] = slip[q]
      /\ \A e \in Employees :
            slip'[r][e] = IF e \in Members(slip[r])
                          THEN [status |-> new, net |-> slip[r][e].net]
                          ELSE slip[r][e]
      /\ lines' = lines
  BY SetStatusEffect
<1>2. run'[r] = new /\ \A q \in Payruns : q # r => run'[q] = run[q]
  BY <1>1 DEF SerialInv, RaceInv, TypeOK
<1>3. run[r] # "PAID" /\ new # "NONE"
  BY <1>1 DEF GuardOf, PayrunStatus
<1>4. PaidKept
  BY <1>1, <1>2, <1>3 DEF PaidKept
<1>5. \A e \in Employees :
         /\ e \in Members(slip'[r]) <=> e \in Members(slip[r])
         /\ slip'[r][e].net = slip[r][e].net
         /\ e \in Members(slip[r]) => slip'[r][e].status = new
  <2> TAKE e \in Employees
  <2>1. slip'[r][e] = IF e \in Members(slip[r])
                      THEN [status |-> new, net |-> slip[r][e].net]
                      ELSE slip[r][e]
    BY <1>1
  <2>2. e \in Members(slip[r]) <=> slip[r][e].status # "NONE"
    BY DEF Members
  <2>3. e \in Members(slip'[r]) <=> slip'[r][e].status # "NONE"
    BY DEF Members
  <2>4. QED
    BY <1>3, <2>1, <2>2, <2>3
<1>6. LinesAgree'
  <2>1. \A q \in Payruns, e \in Employees : slip'[q][e].status # "NONE" =>
           /\ slip[q][e].status # "NONE"
           /\ slip'[q][e].net = slip[q][e].net /\ lines'[q][e] = lines[q][e]
    BY <1>1, <1>5 DEF Members
  <2>2. LinesAgree
    BY DEF SerialInv
  <2>3. QED
    BY <2>1, <2>2 DEF LinesAgree
<1>7. StatusAgrees'
  BY <1>1, <1>2, <1>5 DEF SerialInv, StatusAgrees, Exists, Members
<1>8. SettledNetNonNegative'
  <2>1. ASSUME new \in {"VALIDATED", "PAID"}
        PROVE  \A e \in Members(slip[r]) : slip[r][e].net >= 0
    BY <1>1, <2>1 DEF GuardOf, SerialInv, SettledNetNonNegative
  <2>2. QED
    BY <1>1, <1>2, <1>5, <2>1 DEF SerialInv, SettledNetNonNegative, Members
<1>9. PaidStaysPaid'
  <2>1. CASE payouts' = payouts
    BY <1>4, <2>1, PayoutsKept
  <2>2. CASE /\ pc[s] = "pay" /\ new = "PAID"
             /\ payouts' = [e \in Employees |->
                   IF e \in Members(view[s].slip)
                   THEN payouts[e] \cup {view[s].run} ELSE payouts[e]]
    <3> SUFFICES ASSUME NEW e \in Employees, NEW q \in payouts'[e]
                 PROVE  run'[q] = "PAID" /\ e \in Members(slip'[q])
      BY DEF PaidStaysPaid, Members
    <3>1. q \in payouts[e] \/ (q = r /\ e \in Members(slip[r]))
      BY <1>1, <2>2
    <3>2. CASE q \in payouts[e]
      <4>1. q \in Payruns /\ run[q] = "PAID" /\ e \in Members(slip[q])
        BY <3>2 DEF SerialInv, RaceInv, TypeOK, PaidStaysPaid
      <4>2. QED
        BY <1>4, <4>1 DEF PaidKept
    <3>3. CASE q = r /\ e \in Members(slip[r])
      BY <1>2, <1>5, <2>2, <3>3
    <3>4. QED
      BY <3>1, <3>2, <3>3
  <2>3. QED
    BY <2>1, <2>2
<1>10. QED
  BY <1>4, <1>6, <1>7, <1>8, <1>9 DEF RowsInv

LEMMA DeleteRows ==
  ASSUME SerialInv, NEW s \in Sessions, DeleteCommit(s)
  PROVE  RowsInv' /\ PaidKept
<1> DEFINE r == view[s].run
<1>1. /\ r \in Payruns /\ run[r] \in {"DRAFT", "CANCELLED"}
      /\ run' = [run EXCEPT ![r] = "DELETED"]
      /\ \A q \in Payruns : q # r => slip'[q] = slip[q] /\ lines'[q] = lines[q]
      /\ \A e \in Employees : slip'[r][e] = NoSlip /\ lines'[r][e] = {}
      /\ payouts' = payouts
  BY DeleteEffect
<1>2. run'[r] = "DELETED" /\ \A q \in Payruns : q # r => run'[q] = run[q]
  BY <1>1 DEF SerialInv, RaceInv, TypeOK
<1>3. PaidKept
  BY <1>1, <1>2 DEF PaidKept
<1>4. LinesAgree'
  BY <1>1 DEF SerialInv, LinesAgree, NoSlip
<1>5. StatusAgrees'
  BY <1>1, <1>2 DEF SerialInv, StatusAgrees, Exists, PayrunStatus, Members
<1>6. SettledNetNonNegative'
  BY <1>1, <1>2 DEF SerialInv, SettledNetNonNegative, Members
<1>7. QED
  BY <1>1, <1>3, <1>4, <1>5, <1>6, PayoutsKept DEF RowsInv

\* The actions that touch no row.
LEMMA RowsUntouched ==
  ASSUME SerialInv, UNCHANGED <<run, slip, lines, payouts>>
  PROVE  RowsInv' /\ PaidKept
<1>1. PaidKept
  BY DEF PaidKept
<1>2. LinesAgree' /\ StatusAgrees' /\ SettledNetNonNegative' /\ PaidStaysPaid'
  BY DEF SerialInv, LinesAgree, StatusAgrees, SettledNetNonNegative,
         PaidStaysPaid, Exists, Members
<1>3. QED
  BY <1>1, <1>2 DEF RowsInv

LEMMA RowsStep ==
  ASSUME SerialInv, [Next]_vars
  PROVE  RowsInv' /\ PaidKept
<1>1. ASSUME NEW s \in Sessions, ValidateCommit(s) \/ CancelCommit(s) \/ MarkPaidCommit(s)
      PROVE  RowsInv' /\ PaidKept
  <2>1. {"VALIDATED", "CANCELLED", "PAID"} \subseteq PayrunStatus
    BY DEF PayrunStatus
  <2>2. CASE ValidateCommit(s)
    BY <2>1, <2>2, SetStatusRowsKept DEF ValidateCommit
  <2>3. CASE CancelCommit(s)
    BY <2>1, <2>3, SetStatusRowsKept DEF CancelCommit
  <2>4. CASE MarkPaidCommit(s)
    BY <2>1, <2>4, SetStatusRowsKept DEF MarkPaidCommit
  <2>5. QED
    BY <1>1, <2>2, <2>3, <2>4
<1>2. CASE UNCHANGED <<run, slip, lines, payouts>>
  BY <1>2, RowsUntouched
<1>3. QED
  BY <1>1, <1>2, CreateRows, ComputePayslipRowsKept, ComputeFinishRows, DeleteRows
     DEF Next, Step, Request, CreateCheck, ComputeLoad, ValidateLoad,
         MarkPaidLoad,
         CancelLoad, DeleteLoad, Load, ComputeRead, Abort, InputsChange,
         ContractChange, vars, db
-----------------------------------------------------------------------------
\* What a request may rely on, with nobody else there.
LEMMA LoadIsCurrent ==
  ASSUME SerialInv, NEW s \in Sessions, NEW r \in Payruns, NEW step \in Steps,
         Load(s, r, step), step \notin {"idle", "create", "compute", "line"},
         GuardOf(step, run[r]),
         step = "validate" => \A e \in Members(slip[r]) : slip[r][e].net >= 0
  PROVE  ViewIsCurrent(s)' /\ pc'[s] = step
<1>1. /\ view'[s] = [NoView EXCEPT !.run = r, !.status = run[r], !.slip = slip[r]]
      /\ pc'[s] = step /\ run' = run /\ slip' = slip /\ Exists(r)
  BY DEF Load, SerialInv, RaceInv, TypeOK, db
<1>2. view'[s].run = r /\ view'[s].status = run[r] /\ view'[s].slip = slip[r]
  BY <1>1 DEF NoView
<1>3. QED
  BY <1>1, <1>2 DEF ViewIsCurrent, Exists, GuardOf, Members

LEMMA ComputeLoadIsCurrent ==
  ASSUME SerialInv, NEW s \in Sessions, NEW r \in Payruns, ComputeLoad(s, r)
  PROVE  ViewIsCurrent(s)' /\ ComputeIsCurrent(s)' /\ pc'[s] = "compute"
<1>1. /\ view'[s] = [NoView EXCEPT !.run = r, !.status = run[r],
                         !.slip = slip[r], !.todo = Members(slip[r])]
      /\ pc'[s] = "compute" /\ run' = run /\ slip' = slip
      /\ run[r] \in {"DRAFT", "COMPUTED"}
  BY DEF ComputeLoad, SerialInv, RaceInv, TypeOK, db
<1>2. /\ view'[s].run = r /\ view'[s].status = run[r]
      /\ view'[s].slip = slip[r] /\ view'[s].todo = Members(slip[r])
  BY <1>1 DEF NoView
<1>3. ViewIsCurrent(s)'
  BY <1>1, <1>2 DEF ViewIsCurrent, Exists, PayrunStatus, GuardOf
<1>4. ComputeIsCurrent(s)'
  BY <1>1, <1>2 DEF ComputeIsCurrent, Members
<1>5. QED
  BY <1>1, <1>3, <1>4

LEMMA ComputeReadIsCurrent ==
  ASSUME SerialInv, NEW s \in Sessions, NEW c \in Employees, ComputeRead(s, c)
  PROVE  ViewIsCurrent(s)' /\ ComputeIsCurrent(s)' /\ pc'[s] = "line"
<1> DEFINE v == view[s]
           r == view[s].run
<1>1. /\ pc[s] = "compute" /\ c \in v.todo
      /\ view'[s] = [v EXCEPT !.cur = c, !.net = basis[c], !.doomed = lines[r][c]]
      /\ pc'[s] = "line" /\ run' = run /\ slip' = slip /\ lines' = lines
  BY DEF ComputeRead, SerialInv, RaceInv, TypeOK, db
<1>2. v \in View
  BY DEF SerialInv, RaceInv, TypeOK
<1>3. /\ view'[s].run = r /\ view'[s].status = v.status
      /\ view'[s].slip = v.slip /\ view'[s].todo = v.todo
      /\ view'[s].cur = c /\ view'[s].doomed = lines[r][c]
  BY <1>1, <1>2 DEF View
<1>4. ViewIsCurrent(s) /\ ComputeIsCurrent(s)
  BY <1>1 DEF SerialInv, RequestIsCurrent, Loaded
<1>5. ViewIsCurrent(s)'
  BY <1>1, <1>3, <1>4 DEF ViewIsCurrent, Exists, GuardOf
<1>6. ComputeIsCurrent(s)'
  BY <1>1, <1>3, <1>4 DEF ComputeIsCurrent, Members
<1>7. QED
  BY <1>1, <1>5, <1>6

LEMMA ComputePayslipIsCurrent ==
  ASSUME SerialInv, NEW s \in Sessions, ComputePayslip(s)
  PROVE  ViewIsCurrent(s)' /\ ComputeIsCurrent(s)' /\ pc'[s] = "compute"
<1> DEFINE v == view[s]
           r == view[s].run
           c == view[s].cur
<1>1. /\ r \in Payruns /\ run[r] \in {"DRAFT", "COMPUTED"}
      /\ c \in v.todo /\ c \in Members(slip[r])
      /\ slip'[r][c] = [status |-> "COMPUTED", net |-> v.net]
      /\ \A e \in Employees : e # c => slip'[r][e] = slip[r][e]
      /\ run' = run
  BY ComputePayslipEffect
<1>2. v \in View
  BY DEF SerialInv, RaceInv, TypeOK
<1>3. /\ pc[s] = "line" /\ pc'[s] = "compute"
      /\ view'[s] = [v EXCEPT !.todo = @ \ {c}, !.cur = None,
                              !.net = 0, !.doomed = {}]
  BY DEF ComputePayslip, SerialInv, RaceInv, TypeOK
<1>4. /\ view'[s].run = r /\ view'[s].status = v.status
      /\ view'[s].slip = v.slip /\ view'[s].todo = v.todo \ {c}
  BY <1>2, <1>3 DEF View
<1>5. ViewIsCurrent(s) /\ ComputeIsCurrent(s)
  BY <1>3 DEF SerialInv, RequestIsCurrent, Loaded
<1>6. ViewIsCurrent(s)'
  BY <1>1, <1>3, <1>4, <1>5 DEF ViewIsCurrent, Exists, GuardOf
<1>7. \A e \in Employees : e \in Members(slip'[r]) <=> e \in Members(slip[r])
  BY <1>1 DEF Members
<1>8. Members(slip[r]) \subseteq Employees /\ Members(slip'[r]) \subseteq Employees
  BY DEF Members
<1>9. ComputeIsCurrent(s)'
  <2>1. v.todo \ {c} \subseteq Members(slip'[r])
    BY <1>5, <1>7, <1>8 DEF ComputeIsCurrent
  <2>2. \A e \in v.todo \ {c} : v.slip[e] = slip'[r][e]
    BY <1>1, <1>5, <1>8 DEF ComputeIsCurrent
  <2>3. \A e \in Members(slip'[r]) \ (v.todo \ {c}) : slip'[r][e].status = "COMPUTED"
    BY <1>1, <1>5, <1>7, <1>8 DEF ComputeIsCurrent
  <2>4. QED
    BY <1>3, <1>4, <2>1, <2>2, <2>3 DEF ComputeIsCurrent
<1>10. QED
  BY <1>3, <1>6, <1>9

LEMMA CreateCheckIsCurrent ==
  ASSUME SerialInv, NEW s \in Sessions, CreateCheck(s)
  PROVE  ChosenAreFree(s)' /\ pc'[s] = "create"
<1>1. PICK chosen \in (SUBSET {e \in Employees : Eligible(e)}) \ {{}} :
         view' = [view EXCEPT ![s] = [NoView EXCEPT !.todo = chosen]]
  BY DEF CreateCheck
<1>2. view'[s] = [NoView EXCEPT !.todo = chosen] /\ pc'[s] = "create"
  BY <1>1 DEF CreateCheck, SerialInv, RaceInv, TypeOK
<1>3. view'[s].todo = chosen
  BY <1>2 DEF NoView
<1>4. chosen # {} /\ \A e \in chosen, r \in Payruns : ~Active(slip[r][e])
  <2>1. \A e \in chosen : Eligible(e)
    BY <1>1
  <2>2. QED
    BY <1>1, <2>1 DEF Eligible
<1>5. slip' = slip
  BY DEF CreateCheck, db
<1>6. ChosenAreFree(s)'
  BY <1>3, <1>4, <1>5 DEF ChosenAreFree, Active
<1>7. QED
  BY <1>2, <1>6

LEMMA RequestStep ==
  ASSUME Alone, SerialInv, [Next]_vars
  PROVE  RequestIsCurrent'
<1> DEFINE Current(s) == /\ Loaded(s) => ViewIsCurrent(s)
                         /\ pc[s] \in {"compute", "line"} => ComputeIsCurrent(s)
                         /\ pc[s] = "create" => ChosenAreFree(s)
<1> SUFFICES ASSUME NEW s \in Sessions
             PROVE  Current(s)'
  BY DEF RequestIsCurrent
<1>1. ASSUME Close(s)
      PROVE  Current(s)'
  <2>1. pc'[s] = "idle"
    BY <1>1 DEF Close, SerialInv, RaceInv, TypeOK
  <2>2. QED
    BY <2>1 DEF Loaded
<1>2. ASSUME NEW r \in Payruns,
             ValidateLoad(s, r) \/ MarkPaidLoad(s, r) \/ CancelLoad(s, r)
             \/ DeleteLoad(s, r)
      PROVE  Current(s)'
  <2>1. PICK step \in {"validate", "pay", "cancel", "delete"} :
           /\ Load(s, r, step) /\ GuardOf(step, run[r])
           /\ step = "validate" => \A e \in Members(slip[r]) : slip[r][e].net >= 0
    <3>1. CASE ValidateLoad(s, r)
      BY <3>1 DEF ValidateLoad, AuditPasses, GuardOf
    <3>2. CASE MarkPaidLoad(s, r)
      BY <3>2 DEF MarkPaidLoad, GuardOf
    <3>3. CASE CancelLoad(s, r)
      BY <3>3 DEF CancelLoad, GuardOf
    <3>4. CASE DeleteLoad(s, r)
      BY <3>4 DEF DeleteLoad, GuardOf
    <3>5. QED
      BY <1>2, <3>1, <3>2, <3>3, <3>4
  <2>2. step \in Steps
    BY DEF Steps
  <2>3. ViewIsCurrent(s)' /\ pc'[s] = step
    BY <2>1, <2>2, LoadIsCurrent
  <2>4. QED
    BY <2>3 DEF Loaded
<1>3. ASSUME NEW r \in Payruns, ComputeLoad(s, r)
      PROVE  Current(s)'
  BY <1>3, ComputeLoadIsCurrent DEF Loaded
<1>4. ASSUME NEW e \in Employees, ComputeRead(s, e)
      PROVE  Current(s)'
  BY <1>4, ComputeReadIsCurrent DEF Loaded
<1>5. CASE ComputePayslip(s)
  BY <1>5, ComputePayslipIsCurrent DEF Loaded
<1>6. CASE CreateCheck(s)
  BY <1>6, CreateCheckIsCurrent DEF Loaded
<1>7. CASE UNCHANGED <<run, slip, lines, pc, view>>
  <2>1. Current(s)
    BY DEF SerialInv, RequestIsCurrent
  <2>2. QED
    BY <1>7, <2>1 DEF Loaded, ViewIsCurrent, ComputeIsCurrent, ChosenAreFree,
                      Exists, GuardOf, Members, Active
<1>8. ASSUME CreateCommit(s) \/ ComputeFinish(s) \/ ValidateCommit(s)
             \/ MarkPaidCommit(s) \/ CancelCommit(s) \/ DeleteCommit(s) \/ Abort(s)
      PROVE  Close(s)
  BY <1>8 DEF CreateCommit, ComputeFinish, ValidateCommit, SetStatus,
              MarkPaidCommit, CancelCommit, DeleteCommit, Abort
<1>9. ASSUME NEW t \in Sessions, Request(t)
      PROVE  Current(s)'
  <2>1. Request(s)
    BY <1>9 DEF Alone
  <2>2. QED
    BY <1>1, <1>2, <1>3, <1>4, <1>5, <1>6, <1>8, <2>1 DEF Request
<1>10. QED
  BY <1>7, <1>9 DEF Next, Step, InputsChange, ContractChange, vars, db
-----------------------------------------------------------------------------
LEMMA SerialInvInit == Init => SerialInv
<1> SUFFICES ASSUME Init
             PROVE  SerialInv
  OBVIOUS
<1>1. RaceInv
  BY RaceInvInit
<1>2. LinesAgree /\ StatusAgrees /\ SettledNetNonNegative /\ PaidStaysPaid
  BY DEF Init, LinesAgree, StatusAgrees, SettledNetNonNegative, PaidStaysPaid,
         Exists, PayrunStatus, NoSlip
<1>3. RequestIsCurrent
  BY DEF Init, RequestIsCurrent, Loaded
<1>4. QED
  BY <1>1, <1>2, <1>3 DEF SerialInv

LEMMA SerialInvStep ==
  ASSUME Alone, SerialInv, [Next]_vars
  PROVE  SerialInv'
<1>1. RaceInv'
  BY TypeStep, ViewBoundStep, UniqueActiveStep, NoOrphansStep, SettledStep,
     ViewCalculatedStep, PaidStandsStep DEF SerialInv, RaceInv
<1>2. RowsInv'
  BY RowsStep
<1>3. RequestIsCurrent'
  BY RequestStep
<1>4. QED
  BY <1>1, <1>2, <1>3 DEF SerialInv, RowsInv

\* Requests that are served one at a time keep the rows, and find them as they
\* loaded them.
THEOREM SerialSafety == ASSUME Alone PROVE Spec => []SerialInv
<1>1. SerialInv /\ [Next]_vars => SerialInv'
  BY SerialInvStep
<1>2. QED
  BY SerialInvInit, <1>1, PTL DEF Spec

\* Served one at a time, the lines of a payslip are those of one calculation.
THEOREM LinesAlwaysAgree == ASSUME Alone PROVE Spec => []LinesAgree
<1>1. SerialInv => LinesAgree
  BY DEF SerialInv
<1>2. QED
  BY <1>1, SerialSafety, PTL

\* Served one at a time, payslips have the status of their payrun.
THEOREM StatusAlwaysAgrees == ASSUME Alone PROVE Spec => []StatusAgrees
<1>1. SerialInv => StatusAgrees
  BY DEF SerialInv
<1>2. QED
  BY <1>1, SerialSafety, PTL

\* Served one at a time, no negative net is approved or paid.
THEOREM NoNegativeSettled ==
  ASSUME Alone PROVE Spec => []SettledNetNonNegative
<1>1. SerialInv => SettledNetNonNegative
  BY DEF SerialInv
<1>2. QED
  BY <1>1, SerialSafety, PTL

\* Served one at a time, nobody is paid twice for the period: whoever mark-paid
\* has settled has his PAID payslip in that payrun, and the unique index leaves
\* room for no other.
THEOREM NobodyIsPaidTwice ==
  ASSUME Alone
  PROVE  Spec => [](\A e \in Employees : \A q, r \in payouts[e] : q = r)
<1> DEFINE Single == \A e \in Employees : \A q, r \in payouts[e] : q = r
<1>1. SerialInv => Single
  <2> SUFFICES ASSUME SerialInv, NEW e \in Employees,
                      NEW q \in payouts[e], NEW r \in payouts[e], q # r
               PROVE  FALSE
    OBVIOUS
  <2>1. q \in Payruns /\ r \in Payruns
    BY DEF SerialInv, RaceInv, TypeOK
  <2>2. ASSUME NEW p \in {q, r}
        PROVE  slip[p][e].status \notin {"NONE", "CANCELLED"}
    <3>1. run[p] = "PAID" /\ e \in Members(slip[p])
      BY DEF SerialInv, PaidStaysPaid
    <3>2. slip[p][e].status = "PAID"
      BY <2>1, <3>1 DEF SerialInv, StatusAgrees, Exists, PayrunStatus
    <3> QED  BY <3>2
  <2> QED  BY <2>1, <2>2 DEF SerialInv, RaceInv, UniqueActive, Active
<1> HIDE DEF Single
<1>2. Spec => []Single
  BY <1>1, SerialSafety, PTL
<1> QED  BY <1>2 DEF Single

\* Served one at a time, a PAID payrun is final.
THEOREM PaidRunsAreFinal == ASSUME Alone PROVE Spec => PaidIsFinal
<1>1. SerialInv /\ [Next]_vars => [PaidKept]_vars
  BY RowsStep
<1>2. QED
  BY <1>1, SerialSafety, PTL DEF Spec, PaidIsFinal, PaidKept
-----------------------------------------------------------------------------
\* Every step of the requests is a step of the ledger or leaves it alone.
LEMMA CreateDrawsUp ==
  ASSUME SerialInv, NEW s \in Sessions, CreateCommit(s)
  PROVE  \E r \in Payruns : Ledger!DrawUp(r)
<1> DEFINE chosen == view[s].todo
<1>1. PICK r \in Payruns :
         /\ run[r] = "ABSENT" /\ run' = [run EXCEPT ![r] = "DRAFT"]
         /\ \A q \in Payruns : q # r => slip'[q] = slip[q]
         /\ \A e \in Employees :
               /\ slip[r][e] = NoSlip /\ lines[r][e] = {}
               /\ slip'[r][e] = IF e \in chosen
                                THEN [status |-> "DRAFT", net |-> 0] ELSE NoSlip
         /\ lines' = lines /\ payouts' = payouts
  BY CreateEffect
<1>2. chosen \subseteq Employees
  BY DEF SerialInv, RaceInv, TypeOK, View
<1>3. ChosenAreFree(s)
  BY DEF CreateCommit, SerialInv, RequestIsCurrent
<1>4. chosen \in (SUBSET (Employees \ Ledger!Claimed)) \ {{}}
  <2>1. ASSUME NEW e \in chosen, e \in Ledger!Claimed
        PROVE  FALSE
    <3>1. PICK q \in Payruns : /\ run[q] \in {"DRAFT", "COMPUTED", "VALIDATED", "PAID"}
                               /\ e \in Members(slip[q])
      BY <2>1 DEF Ledger!Claimed, Ledger!Open
    <3>2. slip[q][e].status \in {"DRAFT", "COMPUTED", "VALIDATED", "PAID"}
      BY <3>1 DEF SerialInv, StatusAgrees, Exists, PayrunStatus
    <3>3. Active(slip[q][e])
      BY <3>2 DEF Active
    <3>4. QED
      BY <1>3, <3>3 DEF ChosenAreFree
  <2>2. chosen # {}
    BY <1>3 DEF ChosenAreFree
  <2>3. QED
    BY <1>2, <2>1, <2>2
<1>5. Members(slip'[r]) = chosen
  BY <1>1, <1>2 DEF Members, NoSlip
<1>6. \A q \in Payruns : q # r => Members(slip'[q]) = Members(slip[q])
  BY <1>1
<1>7. [q \in Payruns |-> Members(slip'[q])]
         = [[q \in Payruns |-> Members(slip[q])] EXCEPT ![r] = chosen]
  BY <1>5, <1>6
<1>8. [q \in Payruns |-> [e \in Employees |-> slip'[q][e].net]]
         = [q \in Payruns |-> [e \in Employees |-> slip[q][e].net]]
  <2>1. \A q \in Payruns, e \in Employees : slip'[q][e].net = slip[q][e].net
    BY <1>1 DEF NoSlip
  <2>2. QED
    BY <2>1
<1>9. Ledger!DrawUp(r)
  BY <1>1, <1>4, <1>7, <1>8 DEF Ledger!DrawUp, Members
<1>10. QED
  BY <1>9

LEMMA ComputeCalculates ==
  ASSUME SerialInv, NEW s \in Sessions, ComputePayslip(s)
  PROVE  \E r \in Payruns : Ledger!Calculate(r)
<1>0. view[s].run \in Payruns
  BY ComputePayslipEffect
<1> PICK r \in Payruns : r = view[s].run
  BY <1>0
<1> DEFINE c == view[s].cur
<1>1. /\ run[r] \in {"DRAFT", "COMPUTED"}
      /\ c \in Members(slip[r]) /\ view[s].net \in Amounts
      /\ slip'[r][c] = [status |-> "COMPUTED", net |-> view[s].net]
      /\ \A q \in Payruns, e \in Employees : q # r \/ e # c =>
            slip'[q][e] = slip[q][e]
      /\ \A q \in Payruns : q # r => slip'[q] = slip[q]
      /\ run' = run /\ payouts' = payouts
  BY ComputePayslipEffect
<1>2. ASSUME NEW q \in Payruns
      PROVE  Members(slip'[q]) = Members(slip[q])
  BY <1>1 DEF Members
<1>3. [q \in Payruns |-> Members(slip'[q])] = [q \in Payruns |-> Members(slip[q])]
  BY <1>2
<1>4. [q \in Payruns |-> [e \in Employees |-> slip'[q][e].net]]
         = [[q \in Payruns |-> [e \in Employees |-> slip[q][e].net]]
               EXCEPT ![r][c] = view[s].net]
  <2>1. c \in Employees
    BY <1>1 DEF Members
  <2>2. [e \in Employees |-> slip'[r][e].net]
           = [[e \in Employees |-> slip[r][e].net] EXCEPT ![c] = view[s].net]
    <3>1. \A e \in Employees : slip'[r][e].net = IF e = c THEN view[s].net
                                                 ELSE slip[r][e].net
      BY <1>1
    <3>2. QED
      BY <2>1, <3>1
  <2>3. \A q \in Payruns : q # r =>
           [e \in Employees |-> slip'[q][e].net] = [e \in Employees |-> slip[q][e].net]
    BY <1>1
  <2>4. QED
    BY <2>2, <2>3
<1>5. Ledger!Calculate(r)
  BY <1>1, <1>3, <1>4 DEF Ledger!Calculate, Members
<1>6. QED
  BY <1>5

LEMMA FinishPresents ==
  ASSUME SerialInv, NEW s \in Sessions, ComputeFinish(s)
  PROVE  \/ \E r \in Payruns : Ledger!Present(r)
         \/ UNCHANGED Ledger!ledger
<1> DEFINE r == view[s].run
<1>1. /\ r \in Payruns /\ run[r] \in {"DRAFT", "COMPUTED"}
      /\ run' = [run EXCEPT ![r] = "COMPUTED"]
      /\ slip' = slip /\ payouts' = payouts
  BY ComputeFinishEffect
<1>2. CASE run[r] = "DRAFT"
  BY <1>1, <1>2 DEF Ledger!Present, Members
<1>3. CASE run[r] = "COMPUTED"
  <2>1. run' = run
    BY <1>1, <1>3 DEF SerialInv, RaceInv, TypeOK
  <2>2. QED
    BY <1>1, <2>1 DEF Ledger!ledger, Members
<1>4. QED
  BY <1>1, <1>2, <1>3

\* Members and nets do not move when a status is set.
LEMMA SetStatusLedger ==
  ASSUME SerialInv, NEW s \in Sessions, NEW new \in PayrunStatus,
         pc[s] \in {"validate", "pay", "cancel"}, SetStatus(s, new)
  PROVE  /\ [q \in Payruns |-> Members(slip'[q])] = [q \in Payruns |-> Members(slip[q])]
         /\ [q \in Payruns |-> [e \in Employees |-> slip'[q][e].net]]
               = [q \in Payruns |-> [e \in Employees |-> slip[q][e].net]]
<1>1. \A q \in Payruns : Members(slip'[q]) = Members(slip[q])
  BY SetStatusEffect, SetStatusRows DEF SerialInv, RaceInv
<1>2. \A q \in Payruns, e \in Employees : slip'[q][e].net = slip[q][e].net
  <2> DEFINE r == view[s].run
  <2>1. /\ \A q \in Payruns : q # r => slip'[q] = slip[q]
        /\ \A e \in Employees :
              slip'[r][e] = IF e \in Members(slip[r])
                            THEN [status |-> new, net |-> slip[r][e].net]
                            ELSE slip[r][e]
    BY SetStatusEffect
  <2>2. ASSUME NEW q \in Payruns, NEW e \in Employees
        PROVE  slip'[q][e].net = slip[q][e].net
    <3>1. slip'[r][e].net = slip[r][e].net
      <4>1. CASE e \in Members(slip[r])
        <5>1. slip'[r][e] = [status |-> new, net |-> slip[r][e].net]
          BY <2>1, <4>1
        <5>2. QED
          BY <5>1
      <4>2. CASE e \notin Members(slip[r])
        BY <2>1, <4>2
      <4>3. QED
        BY <4>1, <4>2
    <3>2. q # r => slip'[q] = slip[q]
      BY <2>1
    <3>3. QED
      BY <3>1, <3>2
  <2>3. QED
    BY <2>2
<1>3. QED
  BY <1>1, <1>2

LEMMA ValidateApproves ==
  ASSUME SerialInv, NEW s \in Sessions, ValidateCommit(s)
  PROVE  \E r \in Payruns : Ledger!Approve(r)
<1> DEFINE r == view[s].run
<1>1. pc[s] = "validate" /\ SetStatus(s, "VALIDATED") /\ payouts' = payouts
      /\ "VALIDATED" \in PayrunStatus
  BY DEF ValidateCommit, PayrunStatus
<1>2. /\ r \in Payruns /\ run[r] = "COMPUTED"
      /\ \A e \in Members(slip[r]) : slip[r][e].net >= 0
      /\ run' = [run EXCEPT ![r] = "VALIDATED"]
  BY <1>1, SetStatusEffect DEF GuardOf
<1>3. /\ [q \in Payruns |-> Members(slip'[q])] = [q \in Payruns |-> Members(slip[q])]
      /\ [q \in Payruns |-> [e \in Employees |-> slip'[q][e].net]]
            = [q \in Payruns |-> [e \in Employees |-> slip[q][e].net]]
  BY <1>1, SetStatusLedger
<1>4. Members(slip[r]) \subseteq Employees
  BY DEF Members
<1>5. Ledger!Approve(r)
  BY <1>1, <1>2, <1>3, <1>4 DEF Ledger!Approve, Members
<1>6. QED
  BY <1>2, <1>5

LEMMA MarkPaidSettles ==
  ASSUME SerialInv, NEW s \in Sessions, MarkPaidCommit(s)
  PROVE  \E r \in Payruns : Ledger!Settle(r)
<1> DEFINE r == view[s].run
<1>1. pc[s] = "pay" /\ SetStatus(s, "PAID") /\ "PAID" \in PayrunStatus
  BY DEF MarkPaidCommit, PayrunStatus
<1>2. /\ r \in Payruns /\ run[r] = "VALIDATED" /\ view[s].slip = slip[r]
      /\ run' = [run EXCEPT ![r] = "PAID"]
  BY <1>1, SetStatusEffect DEF GuardOf
<1>3. /\ [q \in Payruns |-> Members(slip'[q])] = [q \in Payruns |-> Members(slip[q])]
      /\ [q \in Payruns |-> [e \in Employees |-> slip'[q][e].net]]
            = [q \in Payruns |-> [e \in Employees |-> slip[q][e].net]]
  BY <1>1, SetStatusLedger
<1>4. Members(slip[r]) \subseteq Employees
  BY DEF Members
<1>5. ASSUME NEW e \in Members(slip[r])
      PROVE  payouts[e] = {}
  <2> SUFFICES ASSUME NEW q \in payouts[e]
               PROVE  FALSE
    OBVIOUS
  <2>1. e \in Employees /\ q \in Payruns
    BY <1>4 DEF SerialInv, RaceInv, TypeOK
  <2>2. run[q] = "PAID" /\ e \in Members(slip[q])
    BY <2>1 DEF SerialInv, PaidStaysPaid
  <2>3. slip[q][e].status = "PAID" /\ slip[r][e].status = "VALIDATED"
    BY <1>2, <1>5, <2>1, <2>2 DEF SerialInv, StatusAgrees, Exists, PayrunStatus
  <2>4. q # r
    BY <1>2, <2>2
  <2>5. QED
    BY <1>2, <2>1, <2>3, <2>4 DEF SerialInv, RaceInv, UniqueActive, Active
<1>6. payouts' = [e \in Employees |->
                     IF e \in Members(slip[r]) THEN {r} ELSE payouts[e]]
  <2>1. payouts' = [e \in Employees |->
                       IF e \in Members(slip[r])
                       THEN payouts[e] \cup {r} ELSE payouts[e]]
    BY <1>2 DEF MarkPaidCommit
  <2>2. QED
    BY <1>5, <2>1
<1>7. Ledger!Settle(r)
  BY <1>2, <1>3, <1>4, <1>5, <1>6 DEF Ledger!Settle, Members
<1>8. QED
  BY <1>2, <1>7

LEMMA CancelVoids ==
  ASSUME SerialInv, NEW s \in Sessions, CancelCommit(s)
  PROVE  \/ \E r \in Payruns : Ledger!Void(r)
         \/ UNCHANGED Ledger!ledger
<1> DEFINE r == view[s].run
<1>1. pc[s] = "cancel" /\ SetStatus(s, "CANCELLED") /\ payouts' = payouts
      /\ "CANCELLED" \in PayrunStatus
  BY DEF CancelCommit, PayrunStatus
<1>2. /\ r \in Payruns /\ Exists(r) /\ run[r] # "PAID"
      /\ run' = [run EXCEPT ![r] = "CANCELLED"]
  BY <1>1, SetStatusEffect DEF GuardOf
<1>3. /\ [q \in Payruns |-> Members(slip'[q])] = [q \in Payruns |-> Members(slip[q])]
      /\ [q \in Payruns |-> [e \in Employees |-> slip'[q][e].net]]
            = [q \in Payruns |-> [e \in Employees |-> slip[q][e].net]]
  BY <1>1, SetStatusLedger
<1>4. CASE run[r] = "CANCELLED"
  <2>1. run' = run
    BY <1>2, <1>4 DEF SerialInv, RaceInv, TypeOK
  <2>2. QED
    BY <1>1, <1>3, <2>1 DEF Ledger!ledger
<1>5. CASE run[r] # "CANCELLED"
  <2>1. run[r] \in {"DRAFT", "COMPUTED", "VALIDATED"}
    BY <1>2, <1>5 DEF Exists, PayrunStatus
  <2>2. Ledger!Void(r)
    BY <1>1, <1>2, <1>3, <2>1 DEF Ledger!Void, Ledger!Open
  <2>3. QED
    BY <1>2, <2>2
<1>6. QED
  BY <1>4, <1>5

LEMMA DeleteErases ==
  ASSUME SerialInv, NEW s \in Sessions, DeleteCommit(s)
  PROVE  \E r \in Payruns : Ledger!Erase(r)
<1>0. view[s].run \in Payruns
  BY DeleteEffect
<1> PICK r \in Payruns : r = view[s].run
  BY <1>0
<1>1. /\ run[r] \in {"DRAFT", "CANCELLED"}
      /\ run' = [run EXCEPT ![r] = "DELETED"]
      /\ \A q \in Payruns : q # r => slip'[q] = slip[q]
      /\ \A e \in Employees : slip'[r][e] = NoSlip
      /\ payouts' = payouts
  BY DeleteEffect
<1>2. [q \in Payruns |-> Members(slip'[q])]
         = [[q \in Payruns |-> Members(slip[q])] EXCEPT ![r] = {}]
  <2>1. Members(slip'[r]) = {}
    BY <1>1 DEF Members, NoSlip
  <2>2. \A q \in Payruns : q # r => Members(slip'[q]) = Members(slip[q])
    BY <1>1
  <2>3. QED
    BY <2>1, <2>2
<1>3. [q \in Payruns |-> [e \in Employees |-> slip'[q][e].net]]
         = [[q \in Payruns |-> [e \in Employees |-> slip[q][e].net]]
               EXCEPT ![r] = [e \in Employees |-> 0]]
  <2>1. [e \in Employees |-> slip'[r][e].net] = [e \in Employees |-> 0]
    BY <1>1 DEF NoSlip
  <2>2. \A q \in Payruns : q # r => slip'[q] = slip[q]
    BY <1>1
  <2>3. QED
    BY <2>1, <2>2
<1>4. Ledger!Erase(r)
  BY <1>1, <1>2, <1>3 DEF Ledger!Erase
<1>5. QED
  BY <1>4

LEMMA LedgerStep ==
  ASSUME SerialInv, [Next]_vars
  PROVE  [Ledger!LNext]_(Ledger!ledger)
<1>1. CASE UNCHANGED <<run, slip, payouts>>
  BY <1>1 DEF Ledger!ledger, Members
<1>2. CASE \E s \in Sessions :
              \/ CreateCommit(s) \/ ComputePayslip(s) \/ ComputeFinish(s)
              \/ ValidateCommit(s) \/ MarkPaidCommit(s) \/ CancelCommit(s)
              \/ DeleteCommit(s)
  BY <1>2, CreateDrawsUp, ComputeCalculates, FinishPresents, ValidateApproves,
     MarkPaidSettles, CancelVoids, DeleteErases DEF Ledger!LNext
<1>3. QED
  BY <1>1, <1>2
     DEF Next, Step, Request, CreateCheck, ComputeLoad, ValidateLoad,
         MarkPaidLoad,
         CancelLoad, DeleteLoad, Load, ComputeRead, Abort, InputsChange,
         ContractChange, vars, db

\* Served one at a time, the requests implement the ledger, whatever the number
\* of payruns and employees and wherever a request dies.
THEOREM LedgerIsKept == ASSUME Alone PROVE Spec => KeepsLedger
<1>1. Init => Ledger!LInit
  BY DEF Init, Ledger!LInit, Members, NoSlip
<1>2. SerialInv /\ [Next]_vars => [Ledger!LNext]_(Ledger!ledger)
  BY LedgerStep
<1>3. QED
  BY <1>1, <1>2, SerialSafety, PTL DEF Spec, KeepsLedger, Ledger!LSpec
=============================================================================
