--------------------------- MODULE TimeOffProofs ---------------------------
(***************************************************************************)
(* What holds of TimeOff for every number of requests, allocations, days   *)
(* and sessions: the types, the two rules of the life of a request, and    *)
(* the books of an allocation.                                             *)
(***************************************************************************)
EXTENDS TimeOff, FoldLemmas

\* The foreign key of a request.
Linked == \A r \in Requests :
    request[r] # NoRow /\ request[r].on # None => alloc[request[r].on] # NoRow

\* What a handler is going to write is a row, for a row that is there.
HeldRows == \A s \in Sessions : LET v == view[s] IN
    /\ pc[s] = "insert" => v.id = None /\ v.new \in Request
    /\ pc[s] = "update" /\ v.id = None => v.new = NoRow
    /\ pc[s] = "update" /\ v.id # None =>
          v.seen \in Request /\ v.new \in Request /\ request[v.id] \in Request
    /\ pc[s] # "idle" /\ v.at # None =>
          v.held \in Alloc /\ v.left \in Alloc /\ alloc[v.at] \in Alloc
    /\ pc[s] # "idle" /\ v.new \in Request /\ v.new.on # None =>
          alloc[v.new.on] \in Alloc

Books == TypeOK /\ Linked /\ HeldRows
-----------------------------------------------------------------------------
(* Rows and views *)

LEMMA NoRowKind == NoRow \notin Alloc /\ NoRow \notin Request /\ NoRow.status = "NONE"
  BY DEF NoRow, Alloc, Request

LEMMA NoViewType == NoView \in View
  BY DEF NoView, View

\* An UPDATE leaves every column with the value written or the one it had, and
\* writes what was meant when nobody has touched the row in between.
LEMMA FlushRequest ==
  ASSUME NEW seen \in Request, NEW new \in Request, NEW now \in Request
  PROVE  /\ Flush(seen, new, now) \in Request
         /\ Flush(seen, new, now).on \in {new.on, now.on}
         /\ now = seen => Flush(seen, new, now) = new
  BY DEF Flush, Request

LEMMA FlushAlloc ==
  ASSUME NEW seen \in Alloc, NEW new \in Alloc, NEW now \in Alloc
  PROVE  Flush(seen, new, now) \in Alloc
  BY DEF Flush, Alloc

\* Taking what suffices and giving back keep the consumed quantity in range.
LEMMA ChargedType ==
  ASSUME NEW a \in Allocs, NEW qty \in Quantities, alloc[a] \in Alloc,
         Suffices(alloc[a], qty)
  PROVE  Charged(a, qty) \in Alloc
<1> DEFINE row == alloc[a]
<1>1. row.consumed \in 0..MaxQuantity /\ row.quantity \in 1..MaxQuantity
  BY TimeOffAssumption DEF Alloc
<1>2. qty \in 1..MaxQuantity /\ MaxQuantity \in Nat
  BY TimeOffAssumption
<1>3. row.consumed + qty \in 0..MaxQuantity
  <2> HIDE DEF row
  <2>1. row.quantity - row.consumed >= qty
    BY DEF Suffices, row
  <2>2. QED
    BY <1>1, <1>2, <2>1
<1>4. QED
  BY <1>3 DEF Charged, Alloc

LEMMA RestoredType ==
  ASSUME NEW a \in Allocs, NEW qty \in Quantities, alloc[a] \in Alloc
  PROVE  [alloc[a] EXCEPT !.consumed = Restored(@, qty)] \in Alloc
<1>1. Restored(alloc[a].consumed, qty) \in 0..MaxQuantity
  BY TimeOffAssumption DEF Alloc, Restored
<1>2. QED
  BY <1>1 DEF Alloc
-----------------------------------------------------------------------------
(* Every Check step is a Hold *)

LEMMA HoldStep ==
  ASSUME Books, NEW s \in Sessions, NEW step \in {"insert", "update"},
         NEW id \in Requests \cup {None}, NEW new \in Request \cup {NoRow},
         NEW at \in Allocs \cup {None}, NEW left \in Alloc \cup {NoRow},
         step = "insert" => id = None /\ new \in Request,
         step = "update" /\ id # None => new \in Request /\ request[id] \in Request,
         step = "update" /\ id \notin Requests => new = NoRow,
         at # None => left \in Alloc /\ alloc[at] \in Alloc,
         new \in Request /\ new.on # None => alloc[new.on] \in Alloc,
         Hold(s, step, id, new, at, left)
  PROVE  Books'
<1> DEFINE v == [id |-> id, seen |-> IF id = None THEN NoRow ELSE request[id],
                 new |-> new, at |-> at,
                 held |-> IF at = None THEN NoRow ELSE alloc[at], left |-> left]
<1>1. v \in View
  BY TimeOffAssumption DEF Books, TypeOK, View
<1>2. TypeOK'
  BY <1>1 DEF Books, TypeOK, Hold
<1>3. view'[s] = v /\ pc'[s] = step /\ pc[s] = "idle"
  BY DEF Hold, Books, TypeOK
<1>4. \A t \in Sessions \ {s} : view'[t] = view[t] /\ pc'[t] = pc[t]
  BY DEF Hold, Books, TypeOK
<1>5. request' = request /\ alloc' = alloc
  BY DEF Hold
<1>6. HeldRows'
  <2>1. ASSUME NEW t \in Sessions, t # s
        PROVE  HeldRows!(t)'
    BY <2>1, <1>4, <1>5 DEF Books, HeldRows
  <2>2. HeldRows!(s)'
    BY <1>3, <1>5, TimeOffAssumption
  <2>3. QED
    BY <2>1, <2>2 DEF HeldRows
<1>7. Linked'
  BY <1>5 DEF Books, Linked
<1>8. QED
  BY <1>2, <1>6, <1>7 DEF Books

\* A request that has a status has its columns, and its allocation is there.
LEMMA RequestThere ==
  ASSUME Books, NEW r \in Requests, request[r].status # "NONE"
  PROVE  /\ request[r] \in Request
         /\ request[r].on # None => /\ request[r].on \in Allocs
                                    /\ alloc[request[r].on] \in Alloc
<1>1. request[r] \in Request
  BY NoRowKind DEF Books, TypeOK
<1>2. ASSUME request[r].on # None
      PROVE  request[r].on \in Allocs /\ alloc[request[r].on] \in Alloc
  BY <1>1, <1>2, NoRowKind DEF Books, TypeOK, Linked, Request
<1>3. QED
  BY <1>1, <1>2

LEMMA EligibleType ==
  ASSUME Books, NEW w, NEW qty, NEW a \in Eligible(w, qty)
  PROVE  a \in Allocs /\ alloc[a] \in Alloc /\ Suffices(alloc[a], qty)
  BY NoRowKind DEF Eligible, Books, TypeOK

LEMMA CreateCheckStep ==
  ASSUME Books, NEW s \in Sessions, NEW w \in Windows, NEW qty \in Quantities,
         CreateCheck(s, w, qty)
  PROVE  Books'
<1>1. PICK a \in IF type.needs THEN Eligible(w, qty) ELSE {None} :
         CreateCheck(s, w, qty)!2!(a)
  BY DEF CreateCheck
<1> DEFINE row == [status |-> IF type.approval THEN "PENDING" ELSE "APPROVED",
                   days |-> w, qty |-> qty, on |-> a]
<1>2. a # None => a \in Allocs /\ alloc[a] \in Alloc /\ Suffices(alloc[a], qty)
  BY <1>1, EligibleType
<1>3. row \in Request
  BY <1>2 DEF Request, RequestStatus
<1>4. CASE type.approval \/ a = None
  <2>1. Hold(s, "insert", None, row, None, NoRow)
    BY <1>1, <1>4
  <2>2. QED
    BY <2>1, <1>2, <1>3, HoldStep
<1>5. CASE ~(type.approval \/ a = None)
  <2>1. Hold(s, "insert", None, row, a, Charged(a, qty))
    BY <1>1, <1>5
  <2>2. Charged(a, qty) \in Alloc
    BY <1>2, <1>5, ChargedType
  <2>3. QED
    BY <2>1, <2>2, <1>2, <1>3, <1>5, HoldStep
<1>6. QED
  BY <1>4, <1>5

LEMMA EditCheckStep ==
  ASSUME Books, NEW s \in Sessions, NEW r \in Requests, NEW w \in Windows,
         NEW qty \in Quantities, EditCheck(s, r, w, qty)
  PROVE  Books'
<1> DEFINE new == [request[r] EXCEPT !.days = w, !.qty = qty]
<1>1. /\ request[r] \in Request
      /\ request[r].on # None => alloc[request[r].on] \in Alloc
  BY RequestThere DEF EditCheck
<1>2. new \in Request /\ new.on = request[r].on
  BY <1>1 DEF Request
<1>3. Hold(s, "update", r, new, None, NoRow)
  BY DEF EditCheck
<1>4. QED
  BY <1>1, <1>2, <1>3, HoldStep

LEMMA ApproveCheckStep ==
  ASSUME Books, NEW s \in Sessions, NEW r \in Requests, ApproveCheck(s, r)
  PROVE  Books'
<1> DEFINE row == request[r]
<1>1. row \in Request /\ row.qty \in Quantities
  BY RequestThere DEF ApproveCheck, Request
<1>2. row.on # None => row.on \in Allocs /\ alloc[row.on] \in Alloc
  BY RequestThere DEF ApproveCheck
<1>3. CASE type.needs
  <2>1. PICK a \in IF row.on = None THEN Earliest(Eligible(row.days, row.qty))
                   ELSE {row.on} :
           /\ Suffices(alloc[a], row.qty)
           /\ Hold(s, "update", r, [row EXCEPT !.status = "APPROVED", !.on = a],
                   a, Charged(a, row.qty))
    BY <1>3 DEF ApproveCheck
  <2>2. a \in Allocs /\ alloc[a] \in Alloc
    BY <2>1, <1>2, EligibleType DEF Earliest
  <2>3. [row EXCEPT !.status = "APPROVED", !.on = a] \in Request
    BY <1>1, <2>2 DEF Request, RequestStatus
  <2>4. [row EXCEPT !.status = "APPROVED", !.on = a].on = a
    BY <1>1 DEF Request
  <2>5. Charged(a, row.qty) \in Alloc
    BY <1>1, <2>1, <2>2, ChargedType
  <2>6. QED
    BY <1>1, <2>1, <2>2, <2>3, <2>4, <2>5, HoldStep
<1>4. CASE ~type.needs
  <2> DEFINE new == [row EXCEPT !.status = "APPROVED"]
  <2>1. Hold(s, "update", r, new, None, NoRow)
    BY <1>4 DEF ApproveCheck
  <2>2. new \in Request /\ new.on = row.on
    BY <1>1 DEF Request, RequestStatus
  <2>3. QED
    BY <1>1, <1>2, <2>1, <2>2, HoldStep
<1>5. QED
  BY <1>3, <1>4

LEMMA RefuseCheckStep ==
  ASSUME Books, NEW s \in Sessions, NEW r \in Requests, RefuseCheck(s, r)
  PROVE  Books'
<1> DEFINE new == [request[r] EXCEPT !.status = "REFUSED"]
<1>1. /\ request[r] \in Request
      /\ request[r].on # None => alloc[request[r].on] \in Alloc
  BY RequestThere DEF RefuseCheck
<1>2. new \in Request /\ new.on = request[r].on
  BY <1>1 DEF Request, RequestStatus
<1>3. Hold(s, "update", r, new, None, NoRow)
  BY DEF RefuseCheck
<1>4. QED
  BY <1>1, <1>2, <1>3, HoldStep

LEMMA CancelCheckStep ==
  ASSUME Books, NEW s \in Sessions, NEW r \in Requests, CancelCheck(s, r)
  PROVE  Books'
<1> DEFINE row == request[r]
           new == [row EXCEPT !.status = "CANCELLED"]
<1>1. row.status # "NONE"
  BY DEF CancelCheck, Cancellable
<1>2. /\ row \in Request /\ row.qty \in Quantities
      /\ row.on # None => row.on \in Allocs /\ alloc[row.on] \in Alloc
  BY <1>1, RequestThere DEF Request
<1>3. new \in Request /\ new.on = row.on
  BY <1>2 DEF Request, RequestStatus
<1>4. CASE Refunds(row)
  <2> DEFINE left == [alloc[row.on] EXCEPT !.consumed = Restored(@, row.qty)]
  <2>1. Hold(s, "update", r, new, row.on, left)
    BY <1>4 DEF CancelCheck
  <2>2. row.on \in Allocs /\ alloc[row.on] \in Alloc
    BY <1>2, <1>4 DEF Refunds
  <2>3. left \in Alloc
    BY <1>2, <2>2, RestoredType
  <2>4. QED
    BY <1>2, <1>3, <2>1, <2>2, <2>3, HoldStep
<1>5. CASE ~Refunds(row)
  <2>1. Hold(s, "update", r, new, None, NoRow)
    BY <1>5 DEF CancelCheck
  <2>2. QED
    BY <1>2, <1>3, <2>1, HoldStep
<1>6. QED
  BY <1>4, <1>5

LEMMA AllocationCheckStep ==
  ASSUME Books, NEW s \in Sessions, NEW a \in Allocs,
         \/ CancelAllocationCheck(s, a)
         \/ \E status \in AllocationStatus, w \in Validities, qty \in Grants :
               UpdateAllocationCheck(s, a, status, w, qty)
  PROVE  Books'
<1>1. alloc[a] \in Alloc
  BY DEF Books, TypeOK, CancelAllocationCheck, UpdateAllocationCheck
<1>2. CASE CancelAllocationCheck(s, a)
  <2> DEFINE left == [alloc[a] EXCEPT !.status = "CANCELLED"]
  <2>1. Hold(s, "update", None, NoRow, a, left)
    BY <1>2 DEF CancelAllocationCheck
  <2>2. left \in Alloc
    BY <1>1 DEF Alloc, AllocationStatus
  <2>3. QED
    BY <1>1, <2>1, <2>2, NoRowKind, HoldStep
<1>3. ASSUME NEW status \in AllocationStatus, NEW w \in Validities,
             NEW qty \in Grants, UpdateAllocationCheck(s, a, status, w, qty)
      PROVE  Books'
  <2> DEFINE left == [alloc[a] EXCEPT !.status = status, !.quantity = qty, !.valid = w]
  <2>1. Hold(s, "update", None, NoRow, a, left)
    BY <1>3 DEF UpdateAllocationCheck
  <2>2. left \in Alloc
    BY <1>1 DEF Alloc
  <2>3. QED
    BY <1>1, <2>1, <2>2, NoRowKind, HoldStep
<1>4. QED
  BY <1>2, <1>3
-----------------------------------------------------------------------------
(* The steps that change rows *)

\* New rows leave what others hold as it was, if no row goes away.
LEMMA RowsStay ==
  ASSUME Books, NEW t \in Sessions,
         view'[t] = view[t], pc'[t] = pc[t],
         \A r \in Requests : request[r] \in Request => request'[r] \in Request,
         \A a \in Allocs : alloc[a] \in Alloc => alloc'[a] \in Alloc
  PROVE  HeldRows!(t)'
<1>1. HeldRows!(t)
  BY DEF Books, HeldRows
<1>2. view[t] \in View
  BY DEF Books, TypeOK
<1>3. view[t].id \in Requests \cup {None} /\ view[t].at \in Allocs \cup {None}
  BY <1>2 DEF View
<1>4. view[t].new \in Request => view[t].new.on \in Allocs \cup {None}
  BY DEF Request
<1>5. QED
  BY <1>1, <1>3, <1>4

LEMMA CreateAllocationStep ==
  ASSUME Books, NEW a \in Allocs, NEW w \in Validities, NEW qty \in Grants,
         CreateAllocation(a, w, qty)
  PROVE  Books'
<1> DEFINE row == [status |-> "ACTIVE", quantity |-> qty, consumed |-> 0, valid |-> w]
<1>1. row \in Alloc /\ row # NoRow
  <2>1. row \in Alloc
    BY TimeOffAssumption DEF Alloc, AllocationStatus
  <2>2. QED
    BY <2>1, NoRowKind
<1>2. alloc' = [alloc EXCEPT ![a] = row]
  BY DEF CreateAllocation
<1>3. TypeOK'
  BY <1>1, <1>2 DEF Books, TypeOK, CreateAllocation
<1>4. \A b \in Allocs : alloc'[b] = row \/ alloc'[b] = alloc[b]
  BY <1>2 DEF Books, TypeOK
<1>5. Linked'
  <2> SUFFICES ASSUME NEW r \in Requests, request[r] # NoRow, request[r].on # None
               PROVE  alloc'[request[r].on] # NoRow
    BY DEF CreateAllocation, Linked
  <2>1. request[r].on \in Allocs /\ alloc[request[r].on] # NoRow
    BY DEF Books, TypeOK, Linked, Request
  <2>2. QED
    BY <2>1, <1>1, <1>4
<1>6. HeldRows'
  BY <1>1, <1>4, RowsStay DEF CreateAllocation, HeldRows
<1>7. QED
  BY <1>3, <1>5, <1>6 DEF Books

LEMMA UpdateTypeStep ==
  ASSUME Books, UpdateType
  PROVE  Books'
<1>1. TypeOK'
  BY DEF UpdateType, Books, TypeOK
<1>2. QED
  BY <1>1 DEF UpdateType, Books, Linked, HeldRows

LEMMA AbortStep ==
  ASSUME Books, NEW s \in Sessions, Abort(s)
  PROVE  Books'
<1>1. TypeOK'
  BY NoViewType DEF Abort, Books, TypeOK
<1>2. pc'[s] = "idle"
  BY DEF Abort, Books, TypeOK
<1>3. \A t \in Sessions \ {s} : view'[t] = view[t] /\ pc'[t] = pc[t]
  BY DEF Abort, Books, TypeOK
<1>4. HeldRows'
  <2>1. \A t \in Sessions \ {s} : HeldRows!(t)'
    BY <1>3 DEF Abort, Books, HeldRows
  <2>2. HeldRows!(s)'
    BY <1>2
  <2>3. QED
    BY <2>1, <2>2 DEF HeldRows
<1>5. Linked'
  BY DEF Abort, Books, Linked
<1>6. QED
  BY <1>1, <1>4, <1>5 DEF Books

\* What a commit does to the allocations and the session's bookkeeping.
LEMMA WriteStep ==
  ASSUME Books, NEW s \in Sessions, pc[s] # "idle", Write(s, view[s])
  PROVE  /\ alloc' \in [Allocs -> Alloc \cup {NoRow}]
         /\ \A a \in Allocs : alloc[a] \in Alloc => alloc'[a] \in Alloc
         /\ pc' \in [Sessions -> {"idle", "insert", "update"}]
         /\ view' \in [Sessions -> View]
         /\ type' = type
         /\ pc'[s] = "idle"
         /\ \A t \in Sessions \ {s} : view'[t] = view[t] /\ pc'[t] = pc[t]
<1> DEFINE v == view[s]
<1>1. v \in View /\ v.at \in Allocs \cup {None}
  BY DEF Books, TypeOK, View
<1>2. pc' = [pc EXCEPT ![s] = "idle"] /\ view' = [view EXCEPT ![s] = NoView]
  BY DEF Write
<1>3. CASE v.at = None
  BY <1>2, <1>3, NoViewType DEF Books, TypeOK, Write
<1>4. CASE v.at # None
  <2> DEFINE row == Flush(v.held, v.left, alloc[v.at])
  <2>1. v.held \in Alloc /\ v.left \in Alloc /\ alloc[v.at] \in Alloc
    BY <1>4 DEF Books, HeldRows
  <2>2. row \in Alloc
    BY <2>1, FlushAlloc
  <2>3. alloc' = [alloc EXCEPT ![v.at] = row]
    BY <1>4 DEF Write
  <2> HIDE DEF row
  <2>4. /\ alloc' \in [Allocs -> Alloc \cup {NoRow}]
        /\ \A a \in Allocs : alloc[a] \in Alloc => alloc'[a] \in Alloc
    BY <1>1, <1>4, <2>2, <2>3 DEF Books, TypeOK
  <2>5. QED
    BY <1>2, <2>4, NoViewType DEF Books, TypeOK, Write
<1>5. QED
  BY <1>3, <1>4

LEMMA DisturbedType ==
  ASSUME Books, NEW s \in Sessions, pc[s] # "idle"
  PROVE  Disturbed(view[s]) \ {None} \subseteq Allocs
<1> DEFINE v == view[s]
<1>1. v.at \in Allocs \cup {None} /\ pc[s] \in {"insert", "update"}
  BY DEF Books, TypeOK, View
<1>2. v.id # None => v.new.on \in Allocs \cup {None}
                     /\ request[v.id].on \in Allocs \cup {None}
  BY <1>1 DEF Books, HeldRows, Request
<1>3. QED
  BY <1>1, <1>2 DEF Disturbed

LEMMA InsertStep ==
  ASSUME Books, NEW s \in Sessions, Insert(s)
  PROVE  Books'
<1> DEFINE v == view[s]
<1>1. pc[s] = "insert" /\ v.id = None /\ v.new \in Request
  BY DEF Insert, Books, HeldRows
<1>2. PICK r \in Requests : /\ request[r] = NoRow
                            /\ request' = [request EXCEPT ![r] = v.new]
  BY DEF Insert
<1>3. /\ alloc' \in [Allocs -> Alloc \cup {NoRow}]
      /\ \A a \in Allocs : alloc[a] \in Alloc => alloc'[a] \in Alloc
      /\ pc' \in [Sessions -> {"idle", "insert", "update"}]
      /\ view' \in [Sessions -> View] /\ type' = type /\ pc'[s] = "idle"
      /\ \A t \in Sessions \ {s} : view'[t] = view[t] /\ pc'[t] = pc[t]
  BY <1>1, WriteStep DEF Insert
<1>4. upset' \in SUBSET Allocs /\ missed' \in SUBSET Sessions
  BY <1>1, DisturbedType DEF Insert, Write, Misses, Books, TypeOK
<1>5. TypeOK'
  BY <1>1, <1>2, <1>3, <1>4 DEF Insert, Books, TypeOK
<1>6. Linked'
  <2> SUFFICES ASSUME NEW q \in Requests, request'[q] # NoRow, request'[q].on # None
               PROVE  alloc'[request'[q].on] # NoRow
    BY DEF Linked
  <2>1. CASE q = r
    <3>1. request'[q] = v.new /\ v.new.on \in Allocs
      BY <1>1, <1>2, <2>1 DEF Books, TypeOK, Request
    <3>2. alloc[v.new.on] \in Alloc
      BY <1>1, <3>1 DEF Books, HeldRows
    <3>3. QED
      BY <1>3, <3>1, <3>2, NoRowKind
  <2>2. CASE q # r
    <3>1. request'[q] = request[q]
      BY <1>2, <2>2 DEF Books, TypeOK
    <3>2. request[q].on \in Allocs /\ alloc[request[q].on] \in Alloc
      BY <3>1, NoRowKind DEF Books, TypeOK, Linked, Request
    <3>3. QED
      BY <1>3, <3>1, <3>2, NoRowKind
  <2>3. QED
    BY <2>1, <2>2
<1>7. HeldRows'
  <2>1. \A q \in Requests : request[q] \in Request => request'[q] \in Request
    BY <1>1, <1>2 DEF Books, TypeOK
  <2>2. \A t \in Sessions \ {s} : HeldRows!(t)'
    BY <2>1, <1>3, RowsStay
  <2>3. HeldRows!(s)'
    BY <1>3
  <2>4. QED
    BY <2>2, <2>3 DEF HeldRows
<1>8. QED
  BY <1>5, <1>6, <1>7 DEF Books

\* The row an Update leaves behind is a row of the table, on an allocation that
\* is there; all other requests are as they were.
LEMMA UpdatedRow ==
  ASSUME Books, NEW s \in Sessions, Update(s)
  PROVE  /\ request' \in [Requests -> Request \cup {NoRow}]
         /\ \A q \in Requests : request[q] \in Request => request'[q] \in Request
         /\ \A q \in Requests \ {view[s].id} : request'[q] = request[q]
         /\ \A q \in Requests : request'[q] # NoRow /\ request'[q].on # None =>
               request'[q].on \in Allocs /\ alloc[request'[q].on] \in Alloc
<1> DEFINE v == view[s]
<1>1. pc[s] = "update" /\ v.id \in Requests \cup {None}
  BY DEF Update, Books, TypeOK, View
<1>2. \A q \in Requests : request[q] # NoRow /\ request[q].on # None =>
         request[q].on \in Allocs /\ alloc[request[q].on] \in Alloc
  BY NoRowKind DEF Books, TypeOK, Linked, Request
<1>3. CASE v.id = None
  <2>1. request' = request
    BY <1>3 DEF Update
  <2>2. QED
    BY <2>1, <1>2 DEF Books, TypeOK
<1>4. CASE v.id # None
  <2> DEFINE row == Flush(v.seen, v.new, request[v.id])
  <2>1. v.seen \in Request /\ v.new \in Request /\ request[v.id] \in Request
    BY <1>1, <1>4 DEF Books, HeldRows
  <2>2. row \in Request /\ row.on \in {v.new.on, request[v.id].on}
    BY <2>1, FlushRequest
  <2>3. row.on # None => row.on \in Allocs /\ alloc[row.on] \in Alloc
    <3>1. v.new.on # None => v.new.on \in Allocs /\ alloc[v.new.on] \in Alloc
      BY <1>1, <2>1 DEF Books, HeldRows, Request
    <3>2. request[v.id] # NoRow
      BY <2>1, NoRowKind
    <3>3. QED
      BY <1>1, <1>2, <1>4, <2>2, <3>1, <3>2
  <2>4. request' = [request EXCEPT ![v.id] = row]
    BY <1>4 DEF Update
  <2> HIDE DEF row
  <2>5. QED
    BY <1>1, <1>2, <1>4, <2>2, <2>3, <2>4 DEF Books, TypeOK
<1>5. QED
  BY <1>3, <1>4

LEMMA UpdateStep ==
  ASSUME Books, NEW s \in Sessions, Update(s)
  PROVE  Books'
<1> DEFINE v == view[s]
<1>1. pc[s] = "update" /\ v.id \in Requests \cup {None}
  BY DEF Update, Books, TypeOK, View
<1>2. /\ alloc' \in [Allocs -> Alloc \cup {NoRow}]
      /\ \A a \in Allocs : alloc[a] \in Alloc => alloc'[a] \in Alloc
      /\ pc' \in [Sessions -> {"idle", "insert", "update"}]
      /\ view' \in [Sessions -> View] /\ type' = type /\ pc'[s] = "idle"
      /\ \A t \in Sessions \ {s} : view'[t] = view[t] /\ pc'[t] = pc[t]
  BY <1>1, WriteStep DEF Update
<1>3. upset' \in SUBSET Allocs /\ missed' \in SUBSET Sessions
  BY <1>1, DisturbedType DEF Update, Write, Misses, Books, TypeOK
<1>4. waived' \in SUBSET Requests
  <2>1. CASE v.id = None
    <3>1. v.new = NoRow
      BY <1>1, <2>1 DEF Books, HeldRows
    <3>2. QED
      BY <3>1, NoRowKind DEF Update, Books, TypeOK
  <2>2. CASE v.id # None
    BY <1>1, <2>2 DEF Update, Books, TypeOK
  <2>3. QED
    BY <2>1, <2>2
<1>5. TypeOK'
  BY <1>2, <1>3, <1>4, UpdatedRow DEF Books, TypeOK
<1>6. Linked'
  BY <1>2, UpdatedRow, NoRowKind DEF Linked
<1>7. HeldRows'
  <2>1. \A t \in Sessions \ {s} : HeldRows!(t)'
    BY <1>2, UpdatedRow, RowsStay
  <2>2. HeldRows!(s)'
    BY <1>2
  <2>3. QED
    BY <2>1, <2>2 DEF HeldRows
<1>8. QED
  BY <1>5, <1>6, <1>7 DEF Books
-----------------------------------------------------------------------------
LEMMA BooksInit == Init => Books
  BY NoViewType, NoRowKind DEF Init, Books, TypeOK, Linked, HeldRows

LEMMA BooksStep ==
  ASSUME Books, [Next]_vars
  PROVE  Books'
<1>1. ASSUME NEW s \in Sessions, Call(s)
      PROVE  Books'
  BY <1>1, CreateCheckStep, EditCheckStep, ApproveCheckStep, RefuseCheckStep,
     CancelCheckStep, AllocationCheckStep, InsertStep, UpdateStep, AbortStep
     DEF Call
<1>2. CASE UNCHANGED vars
  BY <1>2 DEF vars, Books, TypeOK, Linked, HeldRows
<1>3. QED
  BY <1>1, <1>2, CreateAllocationStep, UpdateTypeStep DEF Next

\* Whatever overlaps, fails or is switched: no consumed quantity leaves the
\* range of what can be granted, and every row stays a row.
THEOREM TypeCorrect == Spec => []TypeOK
<1>1. Books /\ [Next]_vars => Books'
  BY BooksStep
<1>2. Books => TypeOK
  BY DEF Books
<1>3. QED
  BY <1>1, <1>2, BooksInit, PTL DEF Spec
-----------------------------------------------------------------------------
(* The life of a request *)

\* What a handler is going to write is a decision on a request it found pending,
\* or the end of one it found approved.
Decided == \A s \in Sessions : LET v == view[s] IN
    pc[s] = "update" /\ v.id # None =>
        \/ v.seen.status = "PENDING"
        \/ /\ v.seen.status = "APPROVED"
           /\ v.new = [v.seen EXCEPT !.status = "CANCELLED"]

\* The days it has looked at are free, as long as nobody has taken them.
Clear == \A s \in Sessions \ missed :
    Looked(s) /\ Blocking(view[s].new) =>
        \A r \in Requests \ {view[s].id} : ~Meets(request[r], view[s].new.days)

RaceInv == Books /\ Decided /\ Clear

LEMMA HoldRace ==
  ASSUME RaceInv, NEW s \in Sessions, NEW step \in {"insert", "update"},
         NEW id \in Requests \cup {None}, NEW new, NEW at, NEW left,
         step = "update" /\ id # None =>
             \/ request[id].status = "PENDING"
             \/ /\ request[id].status = "APPROVED"
                /\ new = [request[id] EXCEPT !.status = "CANCELLED"],
         step = "insert" \/ (id # None /\ new.days # request[id].days) =>
             (Blocking(new) =>
                 \A r \in Requests \ {id} : ~Meets(request[r], new.days)),
         Hold(s, step, id, new, at, left)
  PROVE  Decided' /\ Clear'
<1> DEFINE v == [id |-> id, seen |-> IF id = None THEN NoRow ELSE request[id],
                 new |-> new, at |-> at,
                 held |-> IF at = None THEN NoRow ELSE alloc[at], left |-> left]
<1>1. /\ view'[s] = v /\ pc'[s] = step /\ request' = request /\ missed' = missed
      /\ \A t \in Sessions \ {s} : view'[t] = view[t] /\ pc'[t] = pc[t]
  BY DEF Hold, RaceInv, Books, TypeOK
<1>2. v.id = id /\ v.new = new /\ (id # None => v.seen = request[id])
  OBVIOUS
<1> HIDE DEF v
<1>3. Decided'
  <2>1. \A t \in Sessions \ {s} : Decided!(t)'
    BY <1>1 DEF RaceInv, Decided
  <2>2. Decided!(s)'
    BY <1>1, <1>2
  <2>3. QED
    BY <2>1, <2>2 DEF Decided
<1>4. Clear'
  <2>1. ASSUME NEW t \in Sessions \ missed, Looked(t)', Blocking(view'[t].new),
               NEW r \in Requests \ {view'[t].id}
        PROVE  ~Meets(request[r], view'[t].new.days)
    <3>1. CASE t = s
      BY <2>1, <3>1, <1>1, <1>2 DEF Looked
    <3>2. CASE t # s
      <4>1. view'[t] = view[t] /\ pc'[t] = pc[t]
        BY <3>2, <1>1
      <4>2. Looked(t)
        BY <2>1, <4>1 DEF Looked
      <4>3. QED
        BY <2>1, <4>1, <4>2 DEF RaceInv, Clear
    <3>3. QED
      BY <3>1, <3>2
  <2>2. QED
    BY <1>1, <2>1 DEF Clear, Meets, Blocking
<1>5. QED
  BY <1>3, <1>4

LEMMA CheckRace ==
  ASSUME RaceInv, NEW s \in Sessions, NEW r \in Requests,
         \/ \E w \in Windows, qty \in Quantities : EditCheck(s, r, w, qty)
         \/ ApproveCheck(s, r) \/ RefuseCheck(s, r) \/ CancelCheck(s, r)
  PROVE  Decided' /\ Clear'
<1> DEFINE row == request[r]
<1>0. ASSUME row.status # "NONE"
      PROVE  row \in Request
  BY <1>0, RequestThere DEF RaceInv
<1>1. ASSUME NEW w \in Windows, NEW qty \in Quantities, EditCheck(s, r, w, qty)
      PROVE  Decided' /\ Clear'
  <2> DEFINE new == [row EXCEPT !.days = w, !.qty = qty]
  <2>1. Hold(s, "update", r, new, None, NoRow) /\ row.status = "PENDING"
    BY <1>1 DEF EditCheck
  <2>2. new.days = w
    BY <1>0, <2>1 DEF Request
  <2>3. w # row.days => \A q \in Requests \ {r} : ~Meets(request[q], w)
    BY <1>1 DEF EditCheck, Clashes
  <2>4. QED
    BY <2>1, <2>2, <2>3, HoldRace
<1>2. ASSUME NEW at, NEW left, NEW new, new.days = row.days,
             Hold(s, "update", r, new, at, left),
             \/ row.status = "PENDING"
             \/ /\ row.status = "APPROVED"
                /\ new = [row EXCEPT !.status = "CANCELLED"]
      PROVE  Decided' /\ Clear'
  BY <1>2, HoldRace
<1>3. CASE ApproveCheck(s, r)
  <2>1. row.status = "PENDING" /\ row \in Request
    BY <1>0, <1>3 DEF ApproveCheck
  <2>2. CASE type.needs
    <3>1. PICK a : Hold(s, "update", r, [row EXCEPT !.status = "APPROVED", !.on = a],
                        a, Charged(a, row.qty))
      BY <1>3, <2>2 DEF ApproveCheck
    <3>2. [row EXCEPT !.status = "APPROVED", !.on = a].days = row.days
      BY <2>1 DEF Request
    <3>3. QED
      BY <1>2, <2>1, <3>1, <3>2
  <2>3. CASE ~type.needs
    <3>1. Hold(s, "update", r, [row EXCEPT !.status = "APPROVED"], None, NoRow)
      BY <1>3, <2>3 DEF ApproveCheck
    <3>2. [row EXCEPT !.status = "APPROVED"].days = row.days
      BY <2>1 DEF Request
    <3>3. QED
      BY <1>2, <2>1, <3>1, <3>2
  <2>4. QED
    BY <2>2, <2>3
<1>4. CASE RefuseCheck(s, r)
  <2> DEFINE new == [row EXCEPT !.status = "REFUSED"]
  <2>1. row.status = "PENDING" /\ row \in Request
    BY <1>0, <1>4 DEF RefuseCheck
  <2>2. Hold(s, "update", r, new, None, NoRow)
    BY <1>4 DEF RefuseCheck
  <2>3. new.days = row.days
    BY <2>1 DEF Request
  <2>4. QED
    BY <1>2, <2>1, <2>2, <2>3
<1>5. CASE CancelCheck(s, r)
  <2> DEFINE new == [row EXCEPT !.status = "CANCELLED"]
  <2>1. PICK at, left : Hold(s, "update", r, new, at, left)
    BY <1>5 DEF CancelCheck
  <2>2. row.status \in {"PENDING", "APPROVED"} /\ row \in Request
    BY <1>0, <1>5 DEF CancelCheck, Cancellable, Request, RequestStatus
  <2>3. new.days = row.days
    BY <2>2 DEF Request
  <2>4. QED
    BY <1>2, <2>1, <2>2, <2>3
<1>6. QED
  BY <1>1, <1>3, <1>4, <1>5

LEMMA CreateRace ==
  ASSUME RaceInv, NEW s \in Sessions, NEW w \in Windows,
         NEW qty \in Quantities, CreateCheck(s, w, qty)
  PROVE  Decided' /\ Clear'
<1>1. PICK a \in IF type.needs THEN Eligible(w, qty) ELSE {None} :
         CreateCheck(s, w, qty)!2!(a)
  BY DEF CreateCheck
<1> DEFINE row == [status |-> IF type.approval THEN "PENDING" ELSE "APPROVED",
                   days |-> w, qty |-> qty, on |-> a]
<1>2. PICK at, left : Hold(s, "insert", None, row, at, left)
  BY <1>1
<1>3. \A q \in Requests \ {None} : ~Meets(request[q], row.days)
  <2>1. row.days = w
    OBVIOUS
  <2> HIDE DEF row
  <2>2. QED
    BY <2>1 DEF CreateCheck, Clashes
<1>4. QED
  <2> HIDE DEF row
  <2>1. QED
    BY <1>2, <1>3, HoldRace

LEMMA AllocationRace ==
  ASSUME RaceInv, NEW s \in Sessions, NEW a \in Allocs,
         \/ CancelAllocationCheck(s, a)
         \/ \E status \in AllocationStatus, w \in Validities, qty \in Grants :
               UpdateAllocationCheck(s, a, status, w, qty)
  PROVE  Decided' /\ Clear'
<1>1. PICK left : Hold(s, "update", None, NoRow, a, left)
  BY DEF CancelAllocationCheck, UpdateAllocationCheck
<1>2. QED
  BY <1>1, HoldRace

\* A commit leaves the others what they hold, and writes down whose days it takes.
LEMMA CommitRace ==
  ASSUME RaceInv, NEW s \in Sessions, Insert(s) \/ Update(s)
  PROVE  Decided' /\ Clear'
<1>1. /\ pc' = [pc EXCEPT ![s] = "idle"]
      /\ view' = [view EXCEPT ![s] = NoView]
      /\ missed' = (missed \cup Misses) \ {s}
  BY DEF Insert, Update, Write
<1>2. pc'[s] = "idle" /\ \A t \in Sessions \ {s} : view'[t] = view[t] /\ pc'[t] = pc[t]
  BY <1>1 DEF RaceInv, Books, TypeOK
<1>3. Decided'
  BY <1>2 DEF RaceInv, Decided
<1>4. Clear'
  <2>1. SUFFICES ASSUME NEW t \in Sessions \ missed', Looked(t)',
                        Blocking(view'[t].new), NEW r \in Requests \ {view'[t].id},
                        Meets(request'[r], view'[t].new.days)
                 PROVE  FALSE
    BY DEF Clear, Meets, Blocking
  <2>2. t # s
    BY <2>1, <1>2 DEF Looked
  <2>3. view'[t] = view[t] /\ pc'[t] = pc[t] /\ t \notin missed /\ t \notin Misses
    BY <2>1, <2>2, <1>1, <1>2
  <2>4. Looked(t)
    BY <2>1, <2>3 DEF Looked
  <2>5. ~Meets(request[r], view[t].new.days)
    BY <2>1, <2>3, <2>4 DEF RaceInv, Clear
  <2>6. QED
    BY <2>1, <2>3, <2>4, <2>5 DEF Misses
<1>5. QED
  BY <1>3, <1>4

\* Requests change in commits only.
LEMMA RequestChanges ==
  ASSUME [Next]_vars, request' # request
  PROVE  \E s \in Sessions : Insert(s) \/ Update(s)
<1>1. ASSUME NEW s \in Sessions, Call(s), ~(Insert(s) \/ Update(s))
      PROVE  request' = request
  BY <1>1 DEF Call, CreateCheck, EditCheck, ApproveCheck, RefuseCheck, CancelCheck,
     UpdateAllocationCheck, CancelAllocationCheck, Hold, Abort
<1>2. QED
  BY <1>1 DEF Next, CreateAllocation, UpdateType, vars

LEMMA RaceStep ==
  ASSUME RaceInv, [Next]_vars
  PROVE  RaceInv'
<1>1. Books'
  BY BooksStep DEF RaceInv
<1>2. ASSUME NEW s \in Sessions, Call(s)
      PROVE  Decided' /\ Clear'
  <2>1. CASE Abort(s)
    <3>1. /\ request' = request /\ pc'[s] = "idle" /\ missed' = missed \ {s}
          /\ \A t \in Sessions \ {s} : view'[t] = view[t] /\ pc'[t] = pc[t]
      BY <2>1 DEF Abort, RaceInv, Books, TypeOK
    <3>2. QED
      BY <3>1 DEF RaceInv, Decided, Clear, Looked, Meets, Blocking
  <2>2. CASE Insert(s) \/ Update(s)
    BY <2>2, CommitRace
  <2>3. CASE ~(Abort(s) \/ Insert(s) \/ Update(s))
    BY <1>2, <2>3, CreateRace, CheckRace, AllocationRace DEF Call
  <2>4. QED
    BY <2>1, <2>2, <2>3
<1>3. ASSUME UNCHANGED <<request, pc, view, missed>>
      PROVE  Decided' /\ Clear'
  BY <1>3 DEF RaceInv, Decided, Clear, Looked, Meets, Blocking
<1>4. QED
  BY <1>1, <1>2, <1>3 DEF Next, CreateAllocation, UpdateType, vars, RaceInv

LEMMA RaceInit == Init => RaceInv
  BY BooksInit DEF Init, RaceInv, Decided, Clear, Looked

LEMMA RaceSafety == Spec => []RaceInv
  BY RaceInit, RaceStep, PTL DEF Spec

\* The row an Update leaves has the status and the days that were meant, if the
\* request was as it had been read, and otherwise the days are not touched
\* unless they were to be changed.
LEMMA WrittenRow ==
  ASSUME Books, NEW s \in Sessions, Update(s), view[s].id # None
  PROVE  LET v   == view[s]
             now == request[v.id]
             row == request'[v.id]
         IN  /\ now \in Request /\ v.seen \in Request /\ v.new \in Request
             /\ row = Flush(v.seen, v.new, now)
             /\ \A q \in Requests \ {v.id} : request'[q] = request[q]
<1>1. pc[s] = "update" /\ view[s].id \in Requests
  BY DEF Update, Books, TypeOK, View
<1>2. QED
  BY <1>1 DEF Update, Books, TypeOK, HeldRows

LEMMA FlushColumns ==
  ASSUME NEW seen \in Request, NEW new \in Request, NEW now \in Request
  PROVE  /\ Flush(seen, new, now).status =
               IF new.status # seen.status THEN new.status ELSE now.status
         /\ Flush(seen, new, now).days =
               IF new.days # seen.days THEN new.days ELSE now.days
  BY DEF Flush, Request

\* A request that comes to share a day with another live one was written by a
\* session that had looked too early, or that did not know the request.
LEMMA TakenDays ==
  ASSUME RaceInv, NEW s \in Sessions, Insert(s) \/ Update(s),
         NEW q \in Requests, NEW r \in Requests, q # r,
         request'[q] # request[q], request'[r] = request[r],
         Blocking(request'[q]), Blocking(request[r]),
         request'[q].days \cap request[r].days # {},
         ~(Blocking(request[q]) /\ request[q].days \cap request[r].days # {})
  PROVE  s \in missed \/ Stale(s, {"status", "days"})
<1> DEFINE v == view[s]
<1>1. SUFFICES ASSUME s \notin missed, ~Stale(s, {"status", "days"})
               PROVE  FALSE
  OBVIOUS
<1>2. CASE Insert(s)
  <2>1. pc[s] = "insert" /\ v.id = None
    BY <1>2 DEF Insert, RaceInv, Books, HeldRows
  <2>2. request'[q] = v.new
    BY <1>2 DEF Insert, RaceInv, Books, TypeOK
  <2>3. ~Meets(request[r], v.new.days)
    BY <1>1, <2>1, <2>2, TimeOffAssumption DEF RaceInv, Clear, Looked
  <2>4. QED
    BY <2>2, <2>3 DEF Meets
<1>3. CASE Update(s)
  <2>1. v.id = q
    BY <1>3 DEF Update, RaceInv, Books, TypeOK
  <2>2. q # None /\ pc[s] = "update"
    BY <1>3, TimeOffAssumption DEF Update
  <2> DEFINE now == request[q]
             row == request'[q]
  <2>3. /\ now \in Request /\ v.seen \in Request /\ v.new \in Request
        /\ row = Flush(v.seen, v.new, now)
    BY <1>3, <2>1, <2>2, WrittenRow DEF RaceInv
  <2>4. now.status = v.seen.status /\ now.days = v.seen.days
    BY <1>1, <2>1, <2>2 DEF Stale
  <2>5. row.status = v.new.status /\ row.days = v.new.days
    <3> HIDE DEF v, now, row
    <3>1. QED
      BY <2>3, <2>4, FlushColumns
  <2>6. CASE v.new.days # v.seen.days
    <3>1. ~Meets(request[r], v.new.days)
      BY <1>1, <2>1, <2>2, <2>5, <2>6 DEF RaceInv, Clear, Looked, Blocking
    <3>2. QED
      BY <2>5, <3>1 DEF Meets
  <2>7. CASE v.new.days = v.seen.days
    <3>1. v.seen.status = "PENDING"
      <4>1. v.new.status # "CANCELLED"
        BY <2>5 DEF Blocking
      <4>2. [v.seen EXCEPT !.status = "CANCELLED"].status = "CANCELLED"
        BY <2>3 DEF Request
      <4>3. QED
        BY <2>1, <2>2, <4>1, <4>2 DEF RaceInv, Decided
    <3>2. Blocking(now)
      BY <2>4, <3>1 DEF Blocking
    <3>3. QED
      BY <2>4, <2>5, <2>7, <3>2
  <2>8. QED
    BY <2>6, <2>7
<1>4. QED
  BY <1>2, <1>3

\* A commit changes one request.
LEMMA OneRowChanges ==
  ASSUME Books, NEW s \in Sessions, Insert(s) \/ Update(s),
         NEW q \in Requests, NEW r \in Requests, q # r
  PROVE  request'[q] = request[q] \/ request'[r] = request[r]
<1>1. CASE Insert(s)
  BY <1>1 DEF Insert, Books, TypeOK
<1>2. CASE Update(s)
  BY <1>2 DEF Update, Books, TypeOK
<1>3. QED
  BY <1>1, <1>2

LEMMA DisjointStep ==
  ASSUME RaceInv, [Next]_vars
  PROVE  Disjoint
<1>1. SUFFICES ASSUME NEW q \in Requests, NEW r \in Requests,
                      q # r, Blocking(request'[q]), Blocking(request'[r]),
                      request'[q].days \cap request'[r].days # {},
                      ~(/\ Blocking(request[q]) /\ Blocking(request[r])
                        /\ request[q].days \cap request[r].days # {})
               PROVE  \E s \in Sessions : /\ Insert(s) \/ Update(s)
                                          /\ \/ s \in missed
                                             \/ Stale(s, {"status", "days"})
  BY DEF Disjoint, Overlap, Blocking
<1>2. request' # request
  BY <1>1
<1>3. PICK s \in Sessions : Insert(s) \/ Update(s)
  BY <1>2, RequestChanges
<1>4. request'[q] = request[q] \/ request'[r] = request[r]
  BY <1>1, <1>3, OneRowChanges DEF RaceInv
<1>5. CASE request'[r] = request[r]
  BY <1>1, <1>3, <1>5, TakenDays
<1>6. CASE request'[q] = request[q]
  BY <1>1, <1>3, <1>6, TakenDays
<1>7. QED
  BY <1>3, <1>4, <1>5, <1>6

\* Two live requests of an employee come to share a day only in the commit of a
\* call that another one has overlapped, for any requests, days, allocations
\* and calls and however the flags of the type are switched.
THEOREM LiveRequestsDisjoint == Spec => NoOverlap
<1>1. RaceInv /\ [Next]_vars => [Disjoint]_vars
  BY DisjointStep
<1>2. QED
  BY <1>1, RaceSafety, PTL DEF Spec, NoOverlap

LEMMA FinalStep ==
  ASSUME RaceInv, [Next]_vars
  PROVE  Final
<1>1. SUFFICES ASSUME NEW r \in Requests,
                      request[r].status \in {"REFUSED", "CANCELLED", "APPROVED"},
                      request'[r] # request[r],
                      ~ \E s \in Sessions : /\ Update(s) /\ view[s].id = r
                                            /\ Stale(s, {"status"})
               PROVE  /\ request[r].status = "APPROVED"
                      /\ request'[r] = [request[r] EXCEPT !.status = "CANCELLED"]
  BY DEF Final
<1>2. PICK s \in Sessions : Insert(s) \/ Update(s)
  BY <1>1, RequestChanges
<1>3. ~Insert(s)
  BY <1>1, NoRowKind DEF Insert, RaceInv, Books, TypeOK
<1> DEFINE v == view[s]
           now == request[r]
<1>4. v.id = r /\ r # None /\ pc[s] = "update"
  BY <1>1, <1>2, <1>3, TimeOffAssumption DEF Update, RaceInv, Books, TypeOK
<1>5. /\ now \in Request /\ v.seen \in Request /\ v.new \in Request
      /\ request'[r] = Flush(v.seen, v.new, now)
  BY <1>2, <1>3, <1>4, WrittenRow DEF RaceInv
<1>6. v.seen.status = now.status
  BY <1>1, <1>2, <1>3, <1>4 DEF Stale
<1>7. v.seen.status = "APPROVED" /\ v.new = [v.seen EXCEPT !.status = "CANCELLED"]
  BY <1>1, <1>4, <1>6 DEF RaceInv, Decided
<1>8. Flush(v.seen, v.new, now) = [now EXCEPT !.status = "CANCELLED"]
  <2> HIDE DEF v, now
  <2>1. QED
    BY <1>5, <1>7 DEF Flush, Request
<1>9. QED
  BY <1>5, <1>6, <1>7, <1>8

\* A decision is changed only by a call that another one has overlapped; every
\* other step leaves it, or cancels what was approved and nothing else of it.
THEOREM DecisionsFinal == Spec => DecisionsAreFinal
<1>1. RaceInv /\ [Next]_vars => [Final]_vars
  BY FinalStep
<1>2. QED
  BY <1>1, RaceSafety, PTL DEF Spec, DecisionsAreFinal
-----------------------------------------------------------------------------
(* The books of an allocation *)

Takers(a) == {r \in Requests \ waived : request[r].status = "APPROVED"
                                        /\ request[r].on = a}
Days == [r \in Requests |-> request[r].qty]

\* What a handler does to an allocation it has decided on the figures it read.
Takes(v, qty) == /\ v.left = [v.held EXCEPT !.consumed = @ + qty]
                 /\ v.held.quantity - v.held.consumed >= qty

Gives(v, qty) == v.left = [v.held EXCEPT !.consumed = Restored(@, qty)]

Resizes(v) == /\ v.left.consumed = v.held.consumed
              /\ \/ v.left.quantity = v.held.quantity
                 \/ v.held.consumed <= v.left.quantity

\* An allocation is written with a new or approved request that takes from it,
\* with a cancelled one that had, and for its own sake.
Fits(v, step) ==
    /\ step = "insert" =>
          IF Refunds(v.new) THEN v.at = v.new.on /\ Takes(v, v.new.qty)
                            ELSE v.at = None
    /\ step = "update" /\ v.id = None => v.at # None /\ Resizes(v)
    /\ step = "update" /\ v.id # None =>
          \/ v.at = None /\ ~Refunds(v.seen) /\ v.new.on = v.seen.on
          \/ /\ v.at # None /\ v.seen.status = "PENDING"
             /\ v.new = [v.seen EXCEPT !.status = "APPROVED", !.on = v.at]
             /\ Takes(v, v.seen.qty)
          \/ /\ Refunds(v.seen) /\ v.at = v.seen.on
             /\ v.new = [v.seen EXCEPT !.status = "CANCELLED"]
             /\ Gives(v, v.seen.qty)

Booked == \A s \in Sessions : Fits(view[s], pc[s])

\* Only finitely many requests have been made, and none was waived before.
Few == /\ IsFiniteSet({r \in Requests : request[r] # NoRow})
       /\ \A r \in waived : request[r] # NoRow

LedgerInv == Books /\ Booked /\ Few /\ BooksBalance

\* The sum of the model is one over finitely many quantities.
TakersKnown == \A a \in Allocs :
    /\ IsFiniteSet(Takers(a))
    /\ \A r \in Takers(a) : request[r] \in Request /\ Days[r] \in 1..MaxQuantity

TakenKnown == \A a \in Allocs : Taken(a) = Total(Days, Takers(a))

LEMMA TakersKind == Books /\ Few => TakersKnown
<1> SUFFICES ASSUME Books, Few, NEW a \in Allocs
             PROVE  /\ IsFiniteSet(Takers(a))
                    /\ \A r \in Takers(a) :
                          request[r] \in Request /\ Days[r] \in 1..MaxQuantity
  BY DEF TakersKnown
<1>1. Takers(a) \in SUBSET {r \in Requests : request[r] # NoRow}
  BY NoRowKind DEF Takers
<1>2. IsFiniteSet(Takers(a))
  BY <1>1, FS_Subset DEF Few
<1>3. ASSUME NEW r \in Takers(a) PROVE request[r] \in Request /\ Days[r] \in 1..MaxQuantity
  <2>1. request[r] \in Request
    BY NoRowKind DEF Takers, Books, TypeOK
  <2> QED  BY <2>1, TimeOffAssumption DEF Takers, Days, Request
<1> QED  BY <1>2, <1>3

LEMMA TakenIsTotal == Books /\ Few => TakenKnown
<1> SUFFICES ASSUME Books, Few, NEW a \in Allocs
             PROVE  Taken(a) = Total(Days, Takers(a))
  BY DEF TakenKnown
<1> DEFINE S == Takers(a)
<1>1. IsFiniteSet(S) /\ IntValued(Days, S) /\ S \subseteq Requests
  BY TakersKind, TimeOffAssumption DEF IntValued, Takers, TakersKnown
<1>2. \A r \in S : Days[r] = request[r].qty
  BY DEF Takers, Days
<1>3. Taken(a) = MapThenSumSet(LAMBDA r : request[r].qty, S)
  BY DEF Taken, Takers
<1> HIDE DEF S
<1> DEFINE Body(g) == [T \in SUBSET S |-> IF T = {} THEN 0
               ELSE request[CHOOSE x \in T : TRUE].qty + g[T \ {CHOOSE x \in T : TRUE}]]
<1>5. \A g : Accumulates(g, Days, S) <=> g = Body(g)
  <2> SUFFICES ASSUME NEW T \in SUBSET S, T # {} PROVE Days[CHOOSE x \in T : TRUE] = request[CHOOSE x \in T : TRUE].qty
    BY DEF Accumulates, Chosen
  <2> QED  BY <1>2
<1> HIDE DEF Body
<1>a. PICK g : Accumulates(g, Days, S)
  BY <1>1, SumExists
<1>6. g = Body(g)
  BY <1>5, <1>a
<1> DEFINE k == CHOOSE k : k = Body(k)
<1>7. k = Body(k)
  BY <1>6
<1> USE DEF Body
<1>8. MapThenSumSet(LAMBDA r : request[r].qty, S) = k[S]
  BY DEF MapThenSumSet, MapThenFoldSet
<1> QED
  <2> HIDE DEF k, Body
  <2>1. Accumulates(k, Days, S)
    BY <1>5, <1>7
  <2>2. k[S] = Total(Days, S)
    BY <1>1, <2>1, TotalAccumulates
  <2> QED BY <1>3, <1>8, <2>2 DEF S

LEMMA TakenKnownNext == Books' /\ Few' => TakenKnown' /\ TakersKnown'
  BY TakersKind, TakenIsTotal, PTL

\* A commit that changes one request changes what is taken by what it took
\* before and takes now.
LEMMA TakenChange ==
  ASSUME Books, Few, Books', Few', NEW a \in Allocs, NEW r \in Requests,
         \A q \in Requests \ {r} :
            request'[q] = request[q] /\ (q \in waived' <=> q \in waived)
  PROVE  Taken(a)' = Taken(a) + (IF r \in Takers(a)' THEN request'[r].qty ELSE 0)
                             - (IF r \in Takers(a) THEN request[r].qty ELSE 0)
<1> DEFINE S == Takers(a)
           T == Takers(a)'
           f == Days
           e == Days'
           R == S \ {r}
<1>1. Taken(a) = Total(f, S) /\ IsFiniteSet(S) /\ \A q \in S : f[q] \in 1..MaxQuantity
  BY TakenIsTotal, TakersKind DEF TakenKnown, TakersKnown
<1>2. Taken(a)' = Total(e, T) /\ IsFiniteSet(T) /\ \A q \in T : e[q] \in 1..MaxQuantity
  BY TakenKnownNext DEF TakenKnown, TakersKnown
<1>3. R = T \ {r} /\ \A q \in R : f[q] = e[q]
  BY DEF Takers, Days
<1>4. f[r] = request[r].qty /\ e[r] = request'[r].qty
  BY DEF Days
<1>5. S \subseteq Requests /\ T \subseteq Requests
  BY DEF Takers
<1> HIDE DEF S, T, f, e, R
<1>6. IntValued(f, S) /\ IntValued(e, T)
  BY <1>1, <1>2, TimeOffAssumption DEF IntValued
<1>7. IsFiniteSet(R) /\ IntValued(f, R) /\ Total(f, R) = Total(e, R) /\ Total(f, R) \in Int
  <2>1. IsFiniteSet(R) /\ IntValued(f, R)
    BY <1>1, <1>6, FS_Subset, IntValuedOn DEF R
  <2> QED  BY <1>3, <2>1, TotalSame, TotalType
<1>8. Total(f, S) = Total(f, R) + (IF r \in S THEN request[r].qty ELSE 0)
  <2>1. CASE r \in S
    <3>1. Total(f, S) = f[r] + Total(f, R)
      BY <1>1, <1>6, <2>1, TotalTake DEF R
    <3>2. f[r] \in Int
      BY <1>6, <2>1 DEF IntValued
    <3> QED  BY <1>4, <1>7, <2>1, <3>1, <3>2
  <2>2. CASE r \notin S
    BY <1>7, <2>2 DEF R
  <2> QED  BY <2>1, <2>2
<1>9. Total(e, T) = Total(e, R) + (IF r \in T THEN request'[r].qty ELSE 0)
  <2>1. CASE r \in T
    <3>1. Total(e, T) = e[r] + Total(e, R)
      BY <1>2, <1>3, <1>6, <2>1, TotalTake
    <3>2. e[r] \in Int
      BY <1>6, <2>1 DEF IntValued
    <3> QED  BY <1>4, <1>7, <2>1, <3>1, <3>2
  <2>2. CASE r \notin T
    <3>1. T = R
      BY <1>3, <2>2
    <3> QED  BY <1>7, <2>2, <3>1
  <2> QED  BY <2>1, <2>2
<1>10. /\ r \in S => request[r].qty \in Int
       /\ r \in T => request'[r].qty \in Int
  BY <1>4, <1>6 DEF IntValued
<1> QED  BY <1>1, <1>2, <1>7, <1>8, <1>9, <1>10 DEF S, T

LEMMA KeptLedger ==
  ASSUME LedgerInv, Books', UNCHANGED <<alloc, request, waived, upset>>
  PROVE  Few' /\ BooksBalance'
<1>1. Few'
  BY DEF LedgerInv, Few
<1>2. ASSUME NEW a \in Allocs PROVE Taken(a)' = Taken(a)
  <2>1. Takers(a)' = Takers(a) /\ Days' = Days
    BY DEF Takers, Days
  <2> QED  BY <1>1, <2>1, TakenIsTotal, TakenKnownNext DEF LedgerInv, TakenKnown
<1> QED  BY <1>1, <1>2 DEF LedgerInv, BooksBalance

\* What a commit leaves of an allocation that has no reason to be upset.
LEMMA WriteEffect ==
  ASSUME LedgerInv, NEW s \in Sessions, pc[s] # "idle", Write(s, view[s]),
         NEW a \in Allocs, a \notin upset'
  PROVE  LET v == view[s]
         IN  /\ a \notin upset
             /\ v.at # a => alloc'[a] = alloc[a]
             /\ v.at = a =>
                   /\ alloc[a] \in Alloc
                   /\ v.held.consumed = alloc[a].consumed
                   /\ v.held.quantity = alloc[a].quantity
                   /\ alloc'[a].consumed = v.left.consumed
                   /\ alloc'[a].quantity = v.left.quantity
                   /\ v.id \notin waived
             /\ v.id # None /\ a \in {v.at, v.new.on, request[v.id].on} =>
                   /\ request[v.id].status = v.seen.status
                   /\ request[v.id].qty = v.seen.qty
                   /\ request[v.id].on = v.seen.on
<1> DEFINE v == view[s]
<1>1. a # None /\ a \notin Disturbed(v) /\ a \notin upset
  BY TimeOffAssumption DEF Write
<1>2. ASSUME v.at # a PROVE alloc'[a] = alloc[a]
  BY <1>2 DEF Write, LedgerInv, Books, TypeOK
<1>3. ASSUME v.at = a
      PROVE  /\ alloc[a] \in Alloc
             /\ v.held.consumed = alloc[a].consumed
             /\ v.held.quantity = alloc[a].quantity
             /\ alloc'[a].consumed = v.left.consumed
             /\ alloc'[a].quantity = v.left.quantity
             /\ v.id \notin waived
  <2>1. v.held \in Alloc /\ v.left \in Alloc /\ alloc[a] \in Alloc
    BY <1>1, <1>3 DEF LedgerInv, Books, HeldRows
  <2>2. alloc'[a] = Flush(v.held, v.left, alloc[a])
    BY <1>1, <1>3 DEF Write, LedgerInv, Books, TypeOK
  <2>3. /\ v.held.consumed = alloc[a].consumed /\ v.held.quantity = alloc[a].quantity
        /\ v.id \notin waived
    BY <1>1, <1>3 DEF Disturbed
  <2> HIDE DEF v
  <2>4. /\ alloc'[a].consumed = v.left.consumed
        /\ alloc'[a].quantity = v.left.quantity
    BY <2>1, <2>2, <2>3 DEF Flush, Alloc
  <2> QED  BY <2>1, <2>3, <2>4
<1>4. ASSUME v.id # None, a \in {v.at, v.new.on, request[v.id].on}
      PROVE  /\ request[v.id].status = v.seen.status
             /\ request[v.id].qty = v.seen.qty
             /\ request[v.id].on = v.seen.on
  BY <1>1, <1>4 DEF Disturbed
<1> QED  BY <1>1, <1>2, <1>3, <1>4

\* A row more, and no row waived that is not there, keeps the requests few.
LEMMA FewStay ==
  ASSUME Few, NEW r \in Requests, waived' \subseteq waived \cup {r},
         \A q \in Requests \ {r} : request'[q] = request[q],
         request'[r] # NoRow, waived \subseteq Requests
  PROVE  Few'
<1> DEFINE R == {q \in Requests : request[q] # NoRow}
           Q == {q \in Requests : request'[q] # NoRow}
<1>1. IsFiniteSet(R \cup {r})
  BY FS_AddElement DEF Few
<1>2. Q \in SUBSET (R \cup {r})
  OBVIOUS
<1>3. IsFiniteSet(Q)
  BY <1>1, <1>2, FS_Subset
<1>4. \A q \in waived' : request'[q] # NoRow
  BY DEF Few
<1> QED  BY <1>3, <1>4 DEF Few

LEMMA InsertLedger ==
  ASSUME LedgerInv, NEW s \in Sessions, Insert(s), Books'
  PROVE  Few' /\ BooksBalance'
<1> DEFINE v == view[s]
<1>1. pc[s] = "insert" /\ v.id = None /\ v.new \in Request /\ Write(s, v)
  BY DEF Insert, LedgerInv, Books, HeldRows
<1>2. PICK r \in Requests : request[r] = NoRow /\ request' = [request EXCEPT ![r] = v.new]
  BY DEF Insert
<1>3. /\ request'[r] = v.new /\ waived' = waived /\ r \notin waived
      /\ \A q \in Requests \ {r} : request'[q] = request[q]
  BY <1>2 DEF Insert, LedgerInv, Books, TypeOK, Few
<1>4. Few'
  BY <1>1, <1>2, <1>3, NoRowKind, FewStay DEF LedgerInv, Books, TypeOK
<1>5. ASSUME NEW a \in Allocs, a \notin upset', alloc'[a] # NoRow
      PROVE  alloc'[a].consumed = Taken(a)' /\ Taken(a)' <= alloc'[a].quantity
  <2>1. /\ a \notin upset /\ a # None
        /\ v.at # a => alloc'[a] = alloc[a]
        /\ v.at = a =>
              /\ alloc[a] \in Alloc
              /\ v.held.consumed = alloc[a].consumed
              /\ v.held.quantity = alloc[a].quantity
              /\ alloc'[a].consumed = v.left.consumed
              /\ alloc'[a].quantity = v.left.quantity
    BY <1>1, <1>5, WriteEffect, TimeOffAssumption
  <2>2. alloc[a] \in Alloc
    BY <1>5, <2>1 DEF LedgerInv, Books, TypeOK
  <2>3. alloc[a].consumed = Taken(a) /\ Taken(a) <= alloc[a].quantity
    BY <2>1, <2>2, NoRowKind DEF LedgerInv, BooksBalance
  <2>4. r \notin Takers(a) /\ (r \in Takers(a)' <=> v.new.status = "APPROVED" /\ v.new.on = a)
    BY <1>2, <1>3, NoRowKind DEF Takers
  <2>5. Taken(a)' = Taken(a) + (IF r \in Takers(a)' THEN v.new.qty ELSE 0)
    <3>1. Taken(a)' = Taken(a) + (IF r \in Takers(a)' THEN request'[r].qty ELSE 0)
                               - (IF r \in Takers(a) THEN request[r].qty ELSE 0)
      BY <1>3, <1>4, TakenChange DEF LedgerInv
    <3>2. Taken(a) \in Int /\ v.new.qty \in Int
      BY <1>1, <2>2, <2>3, TimeOffAssumption DEF Alloc, Request
    <3> QED  BY <1>3, <2>4, <3>1, <3>2
  <2>6. IF Refunds(v.new) THEN v.at = v.new.on /\ Takes(v, v.new.qty) ELSE v.at = None
    BY <1>1 DEF LedgerInv, Booked, Fits
  <2>7. CASE v.at = a
    <3>1. r \in Takers(a)' /\ Takes(v, v.new.qty) /\ v.held \in Alloc
      BY <1>1, <2>1, <2>4, <2>6, <2>7 DEF Refunds, LedgerInv, Books, HeldRows
    <3>2. /\ v.left.consumed = v.held.consumed + v.new.qty
          /\ v.left.quantity = v.held.quantity
          /\ v.held.quantity - v.held.consumed >= v.new.qty
      BY <3>1 DEF Takes, Alloc
    <3>3. v.held.consumed \in Int /\ v.held.quantity \in Int /\ v.new.qty \in Int
      BY <1>1, <3>1, TimeOffAssumption DEF Alloc, Request
    <3> QED  BY <2>1, <2>3, <2>5, <2>7, <3>1, <3>2, <3>3
  <2>8. CASE v.at # a
    <3>1. r \notin Takers(a)'
      BY <2>1, <2>4, <2>6, <2>8 DEF Refunds
    <3>2. Taken(a) \in Int
      BY <2>2, <2>3, TimeOffAssumption DEF Alloc
    <3> QED  BY <2>1, <2>3, <2>5, <2>8, <3>1, <3>2
  <2> QED  BY <2>7, <2>8
<1> QED  BY <1>4, <1>5 DEF BooksBalance

\* An allocation is resized or switched off: no request changes.
LEMMA ResizeLedger ==
  ASSUME LedgerInv, NEW s \in Sessions, Update(s), Books', view[s].id = None
  PROVE  Few' /\ BooksBalance'
<1> DEFINE v == view[s]
<1>1. /\ pc[s] = "update" /\ v.id = None /\ v.new = NoRow /\ Write(s, v)
      /\ request' = request /\ waived' = waived
  <2>1. v.new = NoRow /\ pc[s] = "update"
    BY DEF Update, LedgerInv, Books, HeldRows
  <2> QED  BY <2>1, NoRowKind DEF Update
<1>2. Few'
  BY <1>1 DEF LedgerInv, Few
<1>3. ASSUME NEW a \in Allocs PROVE Taken(a)' = Taken(a)
  <2>1. Takers(a)' = Takers(a) /\ Days' = Days
    BY <1>1 DEF Takers, Days
  <2> QED  BY <1>2, <2>1, TakenIsTotal, TakenKnownNext DEF LedgerInv, TakenKnown
<1>4. ASSUME NEW a \in Allocs, a \notin upset', alloc'[a] # NoRow
      PROVE  alloc'[a].consumed = Taken(a)' /\ Taken(a)' <= alloc'[a].quantity
  <2>1. /\ a \notin upset /\ a # None
        /\ v.at # a => alloc'[a] = alloc[a]
        /\ v.at = a =>
              /\ alloc[a] \in Alloc
              /\ v.held.consumed = alloc[a].consumed
              /\ v.held.quantity = alloc[a].quantity
              /\ alloc'[a].consumed = v.left.consumed
              /\ alloc'[a].quantity = v.left.quantity
    BY <1>1, <1>4, WriteEffect, TimeOffAssumption
  <2>2. alloc[a] \in Alloc
    BY <1>4, <2>1 DEF LedgerInv, Books, TypeOK
  <2>3. alloc[a].consumed = Taken(a) /\ Taken(a) <= alloc[a].quantity
    BY <2>1, <2>2, NoRowKind DEF LedgerInv, BooksBalance
  <2>4. Resizes(v)
    BY <1>1 DEF LedgerInv, Booked, Fits
  <2> QED  BY <1>3, <2>1, <2>3, <2>4 DEF Resizes
<1> QED  BY <1>2, <1>4 DEF BooksBalance

\* Which requests take from allocation a, and how much, before and after the
\* decision on request view[s].id is written.
LEMMA DecisionTakes ==
  ASSUME LedgerInv, NEW s \in Sessions, Update(s), view[s].id # None,
         NEW a \in Allocs, a \notin upset'
  PROVE  LET v == view[s]
             r == v.id
         IN  /\ v.at # a => (r \in Takers(a)' <=> r \in Takers(a))
                             /\ (r \in Takers(a) => request'[r].qty = request[r].qty)
             /\ v.at = a =>
                   \/ r \notin Takers(a) /\ r \in Takers(a)' /\ Takes(v, request'[r].qty)
                   \/ r \in Takers(a) /\ r \notin Takers(a)' /\ Gives(v, request[r].qty)
<1> DEFINE v == view[s]
           r == v.id
           now == request[r]
<1>1. /\ pc[s] = "update" /\ r \in Requests /\ a # None /\ Write(s, v)
      /\ v.seen \in Request /\ v.new \in Request /\ now \in Request
      /\ request'[r] = Flush(v.seen, v.new, now)
  BY WrittenRow, TimeOffAssumption DEF Update, LedgerInv, Books, TypeOK, View
<1>2. waived' = IF v.new.status = "APPROVED" /\ v.new.on # None /\ v.at = None
                THEN waived \cup {r} ELSE waived
  BY DEF Update
<1>3. /\ v.at = a => r \notin waived
      /\ a \in {v.at, v.new.on, now.on} =>
            now.status = v.seen.status /\ now.qty = v.seen.qty /\ now.on = v.seen.on
  BY <1>1, WriteEffect
<1>4. \/ v.at = None /\ ~Refunds(v.seen) /\ v.new.on = v.seen.on
      \/ /\ v.at # None /\ v.seen.status = "PENDING"
         /\ v.new = [v.seen EXCEPT !.status = "APPROVED", !.on = v.at]
         /\ Takes(v, v.seen.qty)
      \/ /\ Refunds(v.seen) /\ v.at = v.seen.on
         /\ v.new = [v.seen EXCEPT !.status = "CANCELLED"]
         /\ Gives(v, v.seen.qty)
  BY <1>1 DEF LedgerInv, Booked, Fits
<1>5. /\ r \in Takers(a) <=> r \notin waived /\ now.status = "APPROVED" /\ now.on = a
      /\ r \in Takers(a)' <=> /\ r \notin waived' /\ request'[r].status = "APPROVED"
                              /\ request'[r].on = a
  BY <1>1 DEF Takers
<1>6. /\ request'[r].status = IF v.new.status # v.seen.status THEN v.new.status ELSE now.status
      /\ request'[r].on = IF v.new.on # v.seen.on THEN v.new.on ELSE now.on
      /\ request'[r].qty = IF v.new.qty # v.seen.qty THEN v.new.qty ELSE now.qty
  <2> HIDE DEF v, now
  <2> QED  BY <1>1 DEF Flush, Request
<1> HIDE DEF v, r, now
<1>7. CASE v.at = None /\ ~Refunds(v.seen) /\ v.new.on = v.seen.on
  <2>1. r \notin Takers(a)
    BY <1>1, <1>3, <1>5, <1>7 DEF Refunds
  <2>2. r \notin Takers(a)'
    BY <1>1, <1>2, <1>3, <1>5, <1>6, <1>7 DEF Refunds
  <2> QED  BY <1>1, <1>7, <2>1, <2>2 DEF v, r
<1>8. CASE /\ v.at # None /\ v.seen.status = "PENDING"
           /\ v.new = [v.seen EXCEPT !.status = "APPROVED", !.on = v.at]
           /\ Takes(v, v.seen.qty)
  <2>1. v.new.status = "APPROVED" /\ v.new.on = v.at /\ v.new.qty = v.seen.qty
    BY <1>1, <1>8 DEF Request
  <2>2. waived' = waived
    BY <1>2, <1>8
  <2>3. CASE v.at = a
    <3>1. r \notin Takers(a) /\ r \in Takers(a)' /\ request'[r].qty = v.seen.qty
      BY <1>3, <1>5, <1>6, <1>8, <2>1, <2>2, <2>3
    <3> QED  BY <1>8, <2>3, <3>1 DEF v, r
  <2>4. CASE v.at # a
    <3>1. r \notin Takers(a) /\ r \notin Takers(a)'
      BY <1>3, <1>5, <1>6, <1>8, <2>1, <2>4
    <3> QED  BY <2>4, <3>1 DEF v, r
  <2> QED  BY <2>3, <2>4
<1>9. CASE /\ Refunds(v.seen) /\ v.at = v.seen.on
           /\ v.new = [v.seen EXCEPT !.status = "CANCELLED"]
           /\ Gives(v, v.seen.qty)
  <2>1. /\ v.new.status = "CANCELLED" /\ v.new.on = v.at /\ v.new.qty = v.seen.qty
        /\ v.seen.status = "APPROVED"
    BY <1>1, <1>9 DEF Request, Refunds
  <2>2. r \notin Takers(a)'
    BY <1>5, <1>6, <2>1
  <2>3. CASE v.at = a
    <3>1. r \in Takers(a) /\ now.qty = v.seen.qty
      BY <1>3, <1>5, <1>9, <2>1, <2>3
    <3> QED  BY <1>9, <2>2, <2>3, <3>1 DEF v, r, now
  <2>4. CASE v.at # a
    <3>1. r \notin Takers(a)
      BY <1>3, <1>5, <1>9, <2>4
    <3> QED  BY <2>2, <2>4, <3>1 DEF v, r
  <2> QED  BY <2>3, <2>4
<1> QED  BY <1>4, <1>7, <1>8, <1>9

\* A decision on a request is written.
LEMMA DecisionLedger ==
  ASSUME LedgerInv, NEW s \in Sessions, Update(s), Books', view[s].id # None
  PROVE  Few' /\ BooksBalance'
<1> DEFINE v == view[s]
           r == v.id
<1>1. /\ pc[s] = "update" /\ r \in Requests /\ Write(s, v)
      /\ v.new \in Request /\ v.seen \in Request /\ request[r] \in Request
      /\ request'[r] = Flush(v.seen, v.new, request[r])
  BY WrittenRow DEF Update, LedgerInv, Books, TypeOK, View
<1>2. request'[r] \in Request
  BY <1>1, FlushRequest
<1>3. /\ \A q \in Requests \ {r} : request'[q] = request[q]
      /\ waived' \in {waived, waived \cup {r}} /\ waived \subseteq Requests
  BY UpdatedRow DEF Update, LedgerInv, Books, TypeOK
<1>4. Few'
  BY <1>1, <1>2, <1>3, NoRowKind, FewStay DEF LedgerInv
<1>5. ASSUME NEW a \in Allocs, a \notin upset', alloc'[a] # NoRow
      PROVE  alloc'[a].consumed = Taken(a)' /\ Taken(a)' <= alloc'[a].quantity
  <2>1. /\ a \notin upset /\ a # None
        /\ v.at # a => alloc'[a] = alloc[a]
        /\ v.at = a =>
              /\ alloc[a] \in Alloc
              /\ v.held.consumed = alloc[a].consumed
              /\ v.held.quantity = alloc[a].quantity
              /\ alloc'[a].consumed = v.left.consumed
              /\ alloc'[a].quantity = v.left.quantity
    BY <1>1, <1>5, WriteEffect, TimeOffAssumption
  <2>2. alloc[a] \in Alloc
    BY <1>5, <2>1 DEF LedgerInv, Books, TypeOK
  <2>3. alloc[a].consumed = Taken(a) /\ Taken(a) <= alloc[a].quantity
    BY <2>1, <2>2, NoRowKind DEF LedgerInv, BooksBalance
  <2>4. Taken(a)' = Taken(a) + (IF r \in Takers(a)' THEN request'[r].qty ELSE 0)
                             - (IF r \in Takers(a) THEN request[r].qty ELSE 0)
    BY <1>1, <1>3, <1>4, TakenChange DEF LedgerInv
  <2>5. /\ Taken(a) \in Int /\ request[r].qty \in Nat /\ request'[r].qty \in Nat
        /\ alloc[a].quantity \in Int
    BY <1>1, <1>2, <2>2, <2>3, TimeOffAssumption DEF Alloc, Request
  <2>6. Taken(a)' \in Nat
    <3>1. IsFiniteSet(Takers(a)') /\ \A q \in Takers(a)' : Days'[q] \in 1..MaxQuantity
      BY <1>4, TakenKnownNext DEF TakersKnown
    <3>2. Taken(a)' = Total(Days', Takers(a)')
      BY <1>4, TakenKnownNext DEF TakenKnown
    <3>3. \A q \in Takers(a)' : Days'[q] \in Nat
      BY <3>1, TimeOffAssumption
    <3> DEFINE f == Days'
               T == Takers(a)'
    <3> HIDE DEF f, T
    <3>4. Total(f, T) \in Nat
      BY <3>1, <3>3, TotalNat DEF f, T
    <3> QED  BY <3>2, <3>4 DEF f, T
  <2>7. /\ v.at # a => (r \in Takers(a)' <=> r \in Takers(a))
                        /\ (r \in Takers(a) => request'[r].qty = request[r].qty)
        /\ v.at = a =>
              \/ r \notin Takers(a) /\ r \in Takers(a)' /\ Takes(v, request'[r].qty)
              \/ r \in Takers(a) /\ r \notin Takers(a)' /\ Gives(v, request[r].qty)
    BY <1>5, DecisionTakes
  <2>8. CASE v.at # a
    <3>1. Taken(a)' = Taken(a)
      BY <2>4, <2>5, <2>7, <2>8
    <3> QED  BY <2>1, <2>3, <2>8, <3>1
  <2>9. v.at = a => v.held \in Alloc
    BY <1>1, <2>1 DEF LedgerInv, Books, HeldRows
  <2>10. CASE v.at = a /\ r \notin Takers(a) /\ r \in Takers(a)' /\ Takes(v, request'[r].qty)
    <3> DEFINE q == request'[r].qty
    <3>1. /\ v.left.consumed = v.held.consumed + q
          /\ v.left.quantity = v.held.quantity
          /\ v.held.quantity - v.held.consumed >= q
      BY <2>9, <2>10 DEF Takes, Alloc
    <3>2. Taken(a)' = Taken(a) + q
      BY <2>4, <2>5, <2>10
    <3> QED  BY <2>1, <2>3, <2>5, <2>10, <3>1, <3>2
  <2>11. CASE v.at = a /\ r \in Takers(a) /\ r \notin Takers(a)' /\ Gives(v, request[r].qty)
    <3> DEFINE q == request[r].qty
    <3>1. /\ v.left.consumed = Restored(v.held.consumed, q)
          /\ v.left.quantity = v.held.quantity
      BY <2>9, <2>11 DEF Gives, Alloc
    <3>2. Taken(a)' = Taken(a) - q
      BY <2>4, <2>5, <2>11
    <3>3. Restored(Taken(a), q) = Taken(a) - q
      BY <2>5, <2>6, <3>2 DEF Restored
    <3> QED  BY <2>1, <2>3, <2>5, <2>11, <3>1, <3>2, <3>3
  <2> QED  BY <2>7, <2>8, <2>10, <2>11
<1> QED  BY <1>4, <1>5 DEF BooksBalance

\* No request can have taken from an allocation that is only now granted.
LEMMA GrantLedger ==
  ASSUME LedgerInv, NEW b \in Allocs, NEW w \in Validities, NEW qty \in Grants,
         CreateAllocation(b, w, qty), Books'
  PROVE  Few' /\ BooksBalance'
<1> DEFINE row == [status |-> "ACTIVE", quantity |-> qty, consumed |-> 0, valid |-> w]
<1>1. /\ alloc[b] = NoRow /\ alloc'[b] = row /\ request' = request
      /\ waived' = waived /\ upset' = upset
      /\ \A a \in Allocs \ {b} : alloc'[a] = alloc[a]
  BY DEF CreateAllocation, LedgerInv, Books, TypeOK
<1>2. Few'
  BY <1>1 DEF LedgerInv, Few
<1>3. ASSUME NEW a \in Allocs PROVE Taken(a)' = Taken(a)
  <2>1. Takers(a)' = Takers(a) /\ Days' = Days
    BY <1>1 DEF Takers, Days
  <2> QED  BY <1>2, <2>1, TakenIsTotal, TakenKnownNext DEF LedgerInv, TakenKnown
<1>4. Taken(b) = 0
  <2>1. Takers(b) = {}
    <3> SUFFICES ASSUME NEW r \in Takers(b) PROVE FALSE
      OBVIOUS
    <3>1. r \in Requests /\ request[r] # NoRow /\ request[r].on = b
      BY NoRowKind DEF Takers
    <3> QED  BY <1>1, <3>1, TimeOffAssumption DEF LedgerInv, Books, Linked
  <2> QED  BY <2>1, TakenIsTotal, TotalEmpty DEF LedgerInv, TakenKnown
<1>5. alloc'[b].consumed = 0 /\ 0 <= alloc'[b].quantity
  BY <1>1, TimeOffAssumption
<1> QED  BY <1>1, <1>2, <1>3, <1>4, <1>5 DEF LedgerInv, BooksBalance

\* The other sessions keep what they have in hand when one ends or begins.
LEMMA BookedStay ==
  ASSUME Booked, NEW s \in Sessions,
         \A t \in Sessions \ {s} : view'[t] = view[t] /\ pc'[t] = pc[t],
         Fits(view'[s], pc'[s])
  PROVE  Booked'
<1> SUFFICES ASSUME NEW t \in Sessions PROVE Fits(view'[t], pc'[t])
  BY DEF Booked
<1> QED  BY DEF Booked

LEMMA HoldLedger ==
  ASSUME LedgerInv, NEW s \in Sessions, NEW step \in {"insert", "update"},
         NEW id, NEW new, NEW at, NEW left, Hold(s, step, id, new, at, left), Books',
         Fits([id |-> id, seen |-> IF id = None THEN NoRow ELSE request[id],
               new |-> new, at |-> at,
               held |-> IF at = None THEN NoRow ELSE alloc[at], left |-> left], step)
  PROVE  LedgerInv'
<1>1. /\ Fits(view'[s], pc'[s]) /\ UNCHANGED <<alloc, request, waived, upset>>
      /\ \A t \in Sessions \ {s} : view'[t] = view[t] /\ pc'[t] = pc[t]
  BY DEF Hold, LedgerInv, Books, TypeOK
<1>2. Booked'
  BY <1>1, BookedStay DEF LedgerInv
<1> QED  BY <1>1, <1>2, KeptLedger DEF LedgerInv

\* Every Check step has in hand what it can write.
LEMMA CreateLedger ==
  ASSUME LedgerInv, NEW s \in Sessions, NEW w \in Windows, NEW qty \in Quantities,
         CreateCheck(s, w, qty), Books'
  PROVE  LedgerInv'
<1>1. PICK a \in IF type.needs THEN Eligible(w, qty) ELSE {None} :
         CreateCheck(s, w, qty)!2!(a)
  BY DEF CreateCheck
<1> DEFINE row == [status |-> IF type.approval THEN "PENDING" ELSE "APPROVED",
                   days |-> w, qty |-> qty, on |-> a]
<1>2. CASE type.approval \/ a = None
  <2>1. Hold(s, "insert", None, row, None, NoRow)
    BY <1>1, <1>2
  <2>2. ~Refunds(row)
    BY <1>2 DEF Refunds
  <2> QED  BY <2>1, <2>2, HoldLedger DEF Fits
<1>3. CASE ~(type.approval \/ a = None)
  <2>1. Hold(s, "insert", None, row, a, Charged(a, qty))
    BY <1>1, <1>3
  <2>2. Refunds(row) /\ row.on = a /\ row.qty = qty /\ a # None
    BY <1>3 DEF Refunds
  <2>3. Suffices(alloc[a], qty)
    BY <1>1, <1>3, EligibleType DEF LedgerInv
  <2>4. QED
    BY <2>1, <2>2, <2>3, HoldLedger DEF Fits, Takes, Charged, Suffices
<1> QED  BY <1>2, <1>3

LEMMA EditLedger ==
  ASSUME LedgerInv, NEW s \in Sessions, NEW r \in Requests, NEW w \in Windows,
         NEW qty \in Quantities, EditCheck(s, r, w, qty), Books'
  PROVE  LedgerInv'
<1> DEFINE new == [request[r] EXCEPT !.days = w, !.qty = qty]
<1>1. request[r] \in Request /\ request[r].status = "PENDING" /\ r # None
  BY RequestThere, TimeOffAssumption DEF EditCheck, LedgerInv
<1>2. new.on = request[r].on /\ ~Refunds(request[r])
  BY <1>1 DEF Request, Refunds
<1>3. Hold(s, "update", r, new, None, NoRow)
  BY DEF EditCheck
<1> QED  BY <1>1, <1>2, <1>3, HoldLedger DEF Fits

LEMMA ApproveLedger ==
  ASSUME LedgerInv, NEW s \in Sessions, NEW r \in Requests, ApproveCheck(s, r), Books'
  PROVE  LedgerInv'
<1> DEFINE row == request[r]
<1>1. row \in Request /\ row.status = "PENDING" /\ r # None
  BY RequestThere, TimeOffAssumption DEF ApproveCheck, LedgerInv
<1>2. CASE type.needs
  <2>1. PICK a \in IF row.on = None THEN Earliest(Eligible(row.days, row.qty))
                   ELSE {row.on} :
           /\ Suffices(alloc[a], row.qty)
           /\ Hold(s, "update", r, [row EXCEPT !.status = "APPROVED", !.on = a],
                   a, Charged(a, row.qty))
    BY <1>2 DEF ApproveCheck
  <2>2. a # None
    BY <2>1, EligibleType, TimeOffAssumption DEF Earliest, LedgerInv
  <2>3. QED
    BY <1>1, <2>1, <2>2, HoldLedger DEF Fits, Takes, Charged, Suffices
<1>3. CASE ~type.needs
  <2> DEFINE new == [row EXCEPT !.status = "APPROVED"]
  <2>1. Hold(s, "update", r, new, None, NoRow)
    BY <1>3 DEF ApproveCheck
  <2>2. new.on = row.on /\ ~Refunds(row)
    BY <1>1 DEF Request, Refunds
  <2> QED  BY <1>1, <2>1, <2>2, HoldLedger DEF Fits
<1> QED  BY <1>2, <1>3

LEMMA RefuseLedger ==
  ASSUME LedgerInv, NEW s \in Sessions, NEW r \in Requests, RefuseCheck(s, r), Books'
  PROVE  LedgerInv'
<1> DEFINE new == [request[r] EXCEPT !.status = "REFUSED"]
<1>1. request[r] \in Request /\ request[r].status = "PENDING" /\ r # None
  BY RequestThere, TimeOffAssumption DEF RefuseCheck, LedgerInv
<1>2. new.on = request[r].on /\ ~Refunds(request[r])
  BY <1>1 DEF Request, Refunds
<1>3. Hold(s, "update", r, new, None, NoRow)
  BY DEF RefuseCheck
<1> QED  BY <1>1, <1>2, <1>3, HoldLedger DEF Fits

LEMMA CancelLedger ==
  ASSUME LedgerInv, NEW s \in Sessions, NEW r \in Requests, CancelCheck(s, r), Books'
  PROVE  LedgerInv'
<1> DEFINE row == request[r]
           new == [row EXCEPT !.status = "CANCELLED"]
<1>1. row \in Request /\ r # None
  BY RequestThere, TimeOffAssumption DEF CancelCheck, Cancellable, LedgerInv
<1>2. new.on = row.on
  BY <1>1 DEF Request
<1>3. CASE Refunds(row)
  <2>1. Hold(s, "update", r, new, row.on,
             [alloc[row.on] EXCEPT !.consumed = Restored(@, row.qty)])
    BY <1>3 DEF CancelCheck
  <2>2. row.on # None
    BY <1>3 DEF Refunds
  <2> QED  BY <1>1, <1>3, <2>1, <2>2, HoldLedger DEF Fits, Gives
<1>4. CASE ~Refunds(row)
  <2>1. Hold(s, "update", r, new, None, NoRow)
    BY <1>4 DEF CancelCheck
  <2> QED  BY <1>1, <1>2, <1>4, <2>1, HoldLedger DEF Fits
<1> QED  BY <1>3, <1>4

LEMMA ShrinkLedger ==
  ASSUME LedgerInv, NEW s \in Sessions, NEW a \in Allocs, Books',
         \/ CancelAllocationCheck(s, a)
         \/ \E status \in AllocationStatus, w \in Validities, qty \in Grants :
               UpdateAllocationCheck(s, a, status, w, qty)
  PROVE  LedgerInv'
<1>1. alloc[a] \in Alloc /\ a # None
  BY TimeOffAssumption DEF LedgerInv, Books, TypeOK, CancelAllocationCheck, UpdateAllocationCheck
<1>2. CASE CancelAllocationCheck(s, a)
  <2> DEFINE left == [alloc[a] EXCEPT !.status = "CANCELLED"]
  <2>1. Hold(s, "update", None, NoRow, a, left)
    BY <1>2 DEF CancelAllocationCheck
  <2>2. /\ left.consumed = alloc[a].consumed /\ left.quantity = alloc[a].quantity
        /\ alloc[a].consumed = 0 /\ 0 <= alloc[a].quantity
    BY <1>1, <1>2, TimeOffAssumption DEF CancelAllocationCheck, Alloc
  <2> QED  BY <1>1, <2>1, <2>2, HoldLedger DEF Fits, Resizes
<1>3. ASSUME NEW status \in AllocationStatus, NEW w \in Validities,
             NEW qty \in Grants, UpdateAllocationCheck(s, a, status, w, qty)
      PROVE  LedgerInv'
  <2> DEFINE left == [alloc[a] EXCEPT !.status = status, !.quantity = qty, !.valid = w]
  <2>1. Hold(s, "update", None, NoRow, a, left)
    BY <1>3 DEF UpdateAllocationCheck
  <2>2. left.consumed = alloc[a].consumed /\ left.quantity = qty
    BY <1>1 DEF Alloc
  <2>3. qty = alloc[a].quantity \/ alloc[a].consumed <= qty
    BY <1>1, <1>3, TimeOffAssumption DEF UpdateAllocationCheck, Shrinkable, Alloc
  <2> QED  BY <1>1, <2>1, <2>2, <2>3, HoldLedger DEF Fits, Resizes
<1> QED  BY <1>2, <1>3

\* A session that ends, by a commit or without one.
LEMMA EndLedger ==
  ASSUME LedgerInv, NEW s \in Sessions, Insert(s) \/ Update(s) \/ Abort(s), Books'
  PROVE  LedgerInv'
<1>1. /\ pc'[s] = "idle"
      /\ \A t \in Sessions \ {s} : view'[t] = view[t] /\ pc'[t] = pc[t]
  BY DEF Insert, Update, Abort, Write, LedgerInv, Books, TypeOK
<1>2. Booked'
  BY <1>1, BookedStay DEF Fits, LedgerInv
<1>3. Few' /\ BooksBalance'
  <2>1. CASE Insert(s)
    BY <2>1, InsertLedger
  <2>2. CASE Update(s)
    BY <2>2, ResizeLedger, DecisionLedger
  <2>3. CASE Abort(s)
    BY <2>3, KeptLedger DEF Abort
  <2> QED  BY <2>1, <2>2, <2>3
<1> QED  BY <1>2, <1>3 DEF LedgerInv

LEMMA LedgerStep ==
  ASSUME LedgerInv, [Next]_vars
  PROVE  LedgerInv'
<1>1. Books'
  BY BooksStep DEF LedgerInv
<1>2. ASSUME NEW s \in Sessions, Call(s)
      PROVE  LedgerInv'
  BY <1>1, <1>2, CreateLedger, EditLedger, ApproveLedger, RefuseLedger, CancelLedger,
     ShrinkLedger, EndLedger DEF Call
<1>3. ASSUME pc' = pc, view' = view PROVE Booked'
  BY <1>3 DEF LedgerInv, Booked
<1>4. CASE UNCHANGED vars
  BY <1>1, <1>3, <1>4, KeptLedger DEF vars, LedgerInv
<1>5. CASE UpdateType
  BY <1>1, <1>3, <1>5, KeptLedger DEF UpdateType, LedgerInv
<1>6. ASSUME NEW a \in Allocs, NEW w \in Validities, NEW qty \in Grants,
             CreateAllocation(a, w, qty)
      PROVE  LedgerInv'
  BY <1>1, <1>3, <1>6, GrantLedger DEF CreateAllocation, LedgerInv
<1> QED  BY <1>2, <1>4, <1>5, <1>6 DEF Next

LEMMA LedgerInit == Init => LedgerInv
<1> SUFFICES ASSUME Init PROVE LedgerInv
  OBVIOUS
<1>1. {r \in Requests : request[r] # NoRow} = {}
  BY DEF Init
<1>2. Few
  BY <1>1, FS_EmptySet DEF Few, Init
<1>3. Booked /\ BooksBalance
  BY DEF Init, Booked, Fits, BooksBalance
<1> QED  BY <1>2, <1>3, BooksInit DEF LedgerInv

\* Through every approval, cancellation, edit and resize, whatever overlaps or
\* fails: the consumed quantity of an allocation is what its approved requests
\* add up to, and no more than was granted, unless a handler wrote on figures
\* that had changed since it read them or gave back what was never taken.
THEOREM BooksAreBalanced == Spec => []BooksBalance
<1>1. LedgerInv /\ [Next]_vars => LedgerInv'
  BY LedgerStep
<1>2. LedgerInv => BooksBalance
  BY DEF LedgerInv
<1> QED  BY <1>1, <1>2, LedgerInit, PTL DEF Spec
=============================================================================
