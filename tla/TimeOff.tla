------------------------------ MODULE TimeOff ------------------------------
(***************************************************************************)
(* Leave requests and allocations: time_off_request_service.py,            *)
(* time_off_allocation_service.py and the request endpoints of             *)
(* api/time_off.py, for one employee and one time-off type.                *)
(*                                                                         *)
(* A request of the API runs in a session of its own and commits when its  *)
(* handler has returned.  Everything a handler decides it decides on the   *)
(* rows it read first: request.allocation is loaded with the request, and  *)
(* the later SELECT ... FOR UPDATE of the same row waits for other holders *)
(* of the lock but returns the object the session already has, with the    *)
(* values of the first read.  So a handler is a Check step, which reads,   *)
(* decides and keeps the rows as seen and as they shall be, and a step     *)
(* that writes, in one commit, the columns that differ between the two.    *)
(***************************************************************************)
EXTENDS Integers, FiniteSets, FiniteSetsExt

CONSTANTS Requests, Allocs,  \* primary keys
          Sessions,
          Windows,           \* date ranges, each as its set of days
          Validities,        \* date ranges allocations can be valid for
          Last,              \* the end of each of those, as a number
          MaxQuantity,       \* bound on what is granted or asked for
          Quantities,        \* days that can be asked for
          Grants,            \* days that can be granted
          NeedsAllocation,   \* values the type's flags can have
          NeedsApproval,
          None

ASSUME TimeOffAssumption ==
    /\ MaxQuantity \in Nat /\ Quantities \cup Grants \subseteq 1..MaxQuantity
    /\ \A w \in Windows \cup Validities : w # {}
    /\ Last \in [Validities -> Int]
    /\ NeedsAllocation \subseteq BOOLEAN /\ NeedsApproval \subseteq BOOLEAN
    /\ None \notin Requests /\ None \notin Allocs

VARIABLES type,     \* the flags of the time-off type
          alloc,    \* time_off_allocations
          request,  \* time_off_requests
          pc,       \* what the session has still to write
          view,     \* the rows it read, and as it will write them
          waived,   \* history: approved while the type needed no allocation
          upset,    \* history: allocations with a known cause for wrong books
          missed    \* history: sessions whose days have ceased to be free

vars == <<type, alloc, request, pc, view, waived, upset, missed>>
-----------------------------------------------------------------------------
\* DRAFT and EXPIRED are treated as CANCELLED is, APPROVED as ACTIVE.
AllocationStatus == {"ACTIVE", "CANCELLED"}
RequestStatus    == {"PENDING", "APPROVED", "REFUSED", "CANCELLED"}

\* The type is active throughout.
Type    == [needs : NeedsAllocation, approval : NeedsApproval]
Alloc   == [status : AllocationStatus, quantity : Grants,
            consumed : 0..MaxQuantity, valid : Validities]
Request == [status : RequestStatus, days : Windows, qty : Quantities,
            on : Allocs \cup {None}]

\* A row that is not there.
NoRow == [status |-> "NONE"]

View   == [id : Requests \cup {None}, seen : Request \cup {NoRow},
           new : Request \cup {NoRow}, at : Allocs \cup {None},
           held : Alloc \cup {NoRow}, left : Alloc \cup {NoRow}]
NoView == [id |-> None, seen |-> NoRow, new |-> NoRow,
           at |-> None, held |-> NoRow, left |-> NoRow]

TypeOK == /\ type \in Type
          /\ alloc \in [Allocs -> Alloc \cup {NoRow}]
          /\ request \in [Requests -> Request \cup {NoRow}]
          /\ pc \in [Sessions -> {"idle", "insert", "update"}]
          /\ view \in [Sessions -> View]
          /\ waived \in SUBSET Requests /\ upset \in SUBSET Allocs
          /\ missed \in SUBSET Sessions

Init == /\ type \in Type
        /\ alloc = [a \in Allocs |-> NoRow]
        /\ request = [r \in Requests |-> NoRow]
        /\ pc = [s \in Sessions |-> "idle"]
        /\ view = [s \in Sessions |-> NoView]
        /\ waived = {} /\ upset = {} /\ missed = {}
-----------------------------------------------------------------------------
\* Faulty: what is pending does not block.
BlockingApproved(row) == row.status = "APPROVED"

\* Requests that check_overlapping_requests looks at.
Blocking(row) == row.status \in {"PENDING", "APPROVED"}

Meets(row, w) == Blocking(row) /\ row.days \cap w # {}

Clashes(w, self) == \E r \in Requests \ {self} : Meets(request[r], w)

Suffices(grant, qty) == grant.quantity - grant.consumed >= qty

\* find_eligible_allocations, which orders them by valid_to; the conditions
\* for an allocation named by the caller are the same.
Eligible(w, qty) == {a \in Allocs : /\ alloc[a].status = "ACTIVE"
                                    /\ w \subseteq alloc[a].valid
                                    /\ Suffices(alloc[a], qty)}
Earliest(S) == {a \in S : \A b \in S : Last[alloc[a].valid] <= Last[alloc[b].valid]}

\* The session of s has request row id and allocation row at in hand and is
\* going to write new and left; an unknown key stands for no such row.
Hold(s, step, id, new, at, left) ==
    /\ pc[s] = "idle"
    /\ pc' = [pc EXCEPT ![s] = step]
    /\ view' = [view EXCEPT ![s] =
          [id |-> id, seen |-> IF id = None THEN NoRow ELSE request[id],
           new |-> new,
           at |-> at, held |-> IF at = None THEN NoRow ELSE alloc[at],
           left |-> left]]
    /\ UNCHANGED <<type, alloc, request, waived, upset, missed>>

Charged(a, qty) == [alloc[a] EXCEPT !.consumed = @ + qty]
-----------------------------------------------------------------------------
(* time_off_request_service.py and the PATCH endpoint *)

\* create_request for days w and quantity qty, with the allocation the caller
\* names or the first eligible one; approved at once if no approval is needed.
CreateCheck(s, w, qty) ==
    /\ ~Clashes(w, None)
    /\ \E a \in IF type.needs THEN Eligible(w, qty) ELSE {None} :
          LET row == [status |-> IF type.approval THEN "PENDING" ELSE "APPROVED",
                      days |-> w, qty |-> qty, on |-> a]
          IN  IF type.approval \/ a = None
              THEN Hold(s, "insert", None, row, None, NoRow)
              ELSE Hold(s, "insert", None, row, a, Charged(a, qty))

\* PATCH of a request that changes something: the overlap check is for new
\* dates only, and the allocation of the request is not looked at.
EditCheck(s, r, w, qty) ==
    /\ request[r].status = "PENDING"
    /\ <<w, qty>> # <<request[r].days, request[r].qty>>
    /\ w # request[r].days => ~Clashes(w, r)
    /\ Hold(s, "update", r, [request[r] EXCEPT !.days = w, !.qty = qty],
            None, NoRow)

\* approve_request: with an allocation, the one of the request or the first
\* eligible one, whose balance must suffice.
ApproveCheck(s, r) ==
    LET row == request[r]
    IN  /\ row.status = "PENDING"
        /\ \/ /\ type.needs
              /\ \E a \in IF row.on = None THEN Earliest(Eligible(row.days, row.qty))
                          ELSE {row.on} :
                    /\ Suffices(alloc[a], row.qty)
                    /\ Hold(s, "update", r,
                            [row EXCEPT !.status = "APPROVED", !.on = a],
                            a, Charged(a, row.qty))
           \/ /\ ~type.needs
              /\ Hold(s, "update", r, [row EXCEPT !.status = "APPROVED"],
                      None, NoRow)

RefuseCheck(s, r) ==
    /\ request[r].status = "PENDING"
    /\ Hold(s, "update", r, [request[r] EXCEPT !.status = "REFUSED"],
            None, NoRow)

\* Faulty: what was never taken is given back as well.
RestoredBelow(n, m) == n - m

\* What is left of n after giving back m: max(0, n - m).
Restored(n, m) == IF n > m THEN n - m ELSE 0

\* Faulty: a refused request may be cancelled too.
CancellableAny(row) == row.status \notin {"NONE", "CANCELLED"}

Cancellable(row) == row.status \notin {"NONE", "REFUSED", "CANCELLED"}

\* Faulty: a pending request gives back what it never took.
RefundsAny(row) == row.on # None

Refunds(row) == row.status = "APPROVED" /\ row.on # None

CancelCheck(s, r) ==
    LET row == request[r]
        new == [row EXCEPT !.status = "CANCELLED"]
    IN  /\ Cancellable(row)
        /\ IF Refunds(row)
           THEN Hold(s, "update", r, new, row.on,
                     [alloc[row.on] EXCEPT !.consumed = Restored(@, row.qty)])
           ELSE Hold(s, "update", r, new, None, NoRow)
-----------------------------------------------------------------------------
(* time_off_allocation_service.py and the flags of the type *)

\* create_allocation: one INSERT, on nothing that other requests change.
CreateAllocation(a, w, qty) ==
    /\ alloc[a] = NoRow
    /\ type.needs
    /\ alloc' = [alloc EXCEPT ![a] = [status |-> "ACTIVE", quantity |-> qty,
                                      consumed |-> 0, valid |-> w]]
    /\ UNCHANGED <<type, request, pc, view, waived, upset, missed>>

Shrinkable(grant, qty) == qty >= grant.consumed

UpdateAllocationCheck(s, a, status, w, qty) ==
    LET new == [alloc[a] EXCEPT !.status = status, !.quantity = qty, !.valid = w]
    IN  /\ alloc[a] # NoRow
        /\ new # alloc[a]
        /\ qty = alloc[a].quantity \/ Shrinkable(alloc[a], qty)
        /\ Hold(s, "update", None, NoRow, a, new)

CancelAllocationCheck(s, a) ==
    /\ alloc[a] # NoRow
    /\ alloc[a].consumed = 0
    /\ Hold(s, "update", None, NoRow, a, [alloc[a] EXCEPT !.status = "CANCELLED"])

\* update_type: the flags can be switched at any time.
UpdateType == /\ type' \in Type
              /\ type' # type
              /\ UNCHANGED <<alloc, request, pc, view, waived, upset, missed>>
-----------------------------------------------------------------------------
\* An UPDATE sets the columns the session has changed and no other.
Flush(seen, new, now) ==
    [c \in DOMAIN now |-> IF new[c] # seen[c] THEN new[c] ELSE now[c]]

\* The books of an allocation may go wrong for two reasons: a handler wrote on
\* the strength of figures that had changed since it read them, or it gives
\* back what a request approved without allocation never took.
Disturbed(v) ==
    LET Differ(x, y, cols) == \E c \in cols : x[c] # y[c]
        staleRequest == v.id # None
            /\ Differ(v.seen, request[v.id], {"status", "qty", "on"})
        staleAlloc   == v.at # None
            /\ Differ(v.held, alloc[v.at], {"consumed", "quantity"})
    IN  (IF staleRequest THEN {v.at, v.new.on, request[v.id].on} ELSE {})
        \cup (IF staleAlloc \/ v.id \in waived THEN {v.at} ELSE {})

\* The session looked whether the days it is going to write are free.
Looked(s) == \/ pc[s] = "insert"
             \/ /\ pc[s] = "update"
                /\ view[s].id # None
                /\ view[s].new.days # view[s].seen.days

Misses == {s \in Sessions : Looked(s) /\ \E r \in Requests \ {view[s].id} :
              /\ Meets(request'[r], view[s].new.days)
              /\ ~Meets(request[r], view[s].new.days)}

\* Flush and commit, in which request' has been said; the session is closed.
Write(s, v) ==
    /\ alloc' = IF v.at = None THEN alloc
                ELSE [alloc EXCEPT ![v.at] = Flush(v.held, v.left, @)]
    /\ upset' = upset \cup (Disturbed(v) \ {None})
    /\ missed' = (missed \cup Misses) \ {s}
    /\ pc' = [pc EXCEPT ![s] = "idle"]
    /\ view' = [view EXCEPT ![s] = NoView]
    /\ UNCHANGED type

Insert(s) ==
    /\ pc[s] = "insert"
    /\ \E r \in Requests :
          /\ request[r] = NoRow
          /\ request' = [request EXCEPT ![r] = view[s].new]
    /\ Write(s, view[s])
    /\ UNCHANGED waived

Update(s) ==
    LET v == view[s]
    IN  /\ pc[s] = "update"
        /\ request' = IF v.id = None THEN request
                      ELSE [request EXCEPT ![v.id] = Flush(v.seen, v.new, @)]
        /\ waived' = IF v.new.status = "APPROVED" /\ v.new.on # None /\ v.at = None
                     THEN waived \cup {v.id} ELSE waived
        /\ Write(s, v)

\* The handler fails or its process dies: its transaction is rolled back.
Abort(s) == /\ pc[s] # "idle"
            /\ pc' = [pc EXCEPT ![s] = "idle"]
            /\ view' = [view EXCEPT ![s] = NoView]
            /\ missed' = missed \ {s}
            /\ UNCHANGED <<type, alloc, request, waived, upset>>

Call(s) ==
    \/ \E w \in Windows, qty \in Quantities :
          \/ CreateCheck(s, w, qty)
          \/ \E r \in Requests : EditCheck(s, r, w, qty)
    \/ \E a \in Allocs, status \in AllocationStatus, w \in Validities,
          qty \in Grants : UpdateAllocationCheck(s, a, status, w, qty)
    \/ \E r \in Requests : ApproveCheck(s, r) \/ RefuseCheck(s, r)
                              \/ CancelCheck(s, r)
    \/ \E a \in Allocs : CancelAllocationCheck(s, a)
    \/ Insert(s) \/ Update(s) \/ Abort(s)

Next == \/ \E s \in Sessions : Call(s)
        \/ \E a \in Allocs, w \in Validities, qty \in Grants :
              CreateAllocation(a, w, qty)
        \/ UpdateType

Spec == Init /\ [][Next]_vars
-----------------------------------------------------------------------------
\* What the approved requests have taken from allocation a.
Taken(a) == MapThenSumSet(LAMBDA r : request[r].qty,
              {r \in Requests \ waived : request[r].status = "APPROVED"
                                         /\ request[r].on = a})

\* The consumed quantity of an allocation is what its approved requests have
\* taken, and no more than was granted, through every approval, cancellation,
\* edit and resize, unless one of the causes in Disturbed has struck it.
BooksBalance ==
    \A a \in Allocs \ upset : alloc[a] # NoRow =>
        alloc[a].consumed = Taken(a) /\ Taken(a) <= alloc[a].quantity

\* A request row the session has in hand is not as the session read it.
Stale(s, cols) == /\ view[s].id # None
                  /\ \E c \in cols : request[view[s].id][c] # view[s].seen[c]

Overlap(q, r) == /\ q # r /\ Blocking(request[q]) /\ Blocking(request[r])
                 /\ request[q].days \cap request[r].days # {}

\* "An employee cannot have overlapping time off requests in PENDING or APPROVED
\* status" (DATABASE_SCHEMA.md, rule 15), through creation, edits and every
\* decision: two come to overlap only if the days were taken, or the request
\* was changed, between the look of a call and its commit.
Disjoint == \A q, r \in Requests :
    Overlap(q, r)' /\ ~Overlap(q, r) =>
        \E s \in Sessions : /\ Insert(s) \/ Update(s)
                            /\ s \in missed \/ Stale(s, {"status", "days"})

NoOverlap == [][Disjoint]_vars

\* A decision is final.  What was refused or cancelled stays so, and an approved
\* request can only be cancelled, as it is, unless a call that overlapped
\* another one writes.
Final == \A r \in Requests :
    /\ request[r].status \in {"REFUSED", "CANCELLED", "APPROVED"}
    /\ request'[r] # request[r]
    => \/ /\ request[r].status = "APPROVED"
          /\ request'[r] = [request[r] EXCEPT !.status = "CANCELLED"]
       \/ \E s \in Sessions : Update(s) /\ view[s].id = r /\ Stale(s, {"status"})

DecisionsAreFinal == [][Final]_vars

\* "Concurrent approval attempts: exactly one must succeed" when the balance
\* covers one (test_time_off.py, scenario 36): the approved requests of an
\* allocation never add up to more than was granted.
NoOverdraw ==
    \A a \in Allocs : alloc[a] # NoRow => Taken(a) <= alloc[a].quantity
=============================================================================
