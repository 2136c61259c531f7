-------------------------- MODULE ContractsProofs --------------------------
(***************************************************************************)
(* What holds of Contracts for every number of contracts, employees,       *)
(* structures, sessions and days.                                          *)
(***************************************************************************)
EXTENDS Contracts, TLAPS

\* Two rows of an employee that run on the same day.
Together(x, y) == /\ x.status = "RUNNING" /\ y.status = "RUNNING" /\ x.emp = y.emp
                  /\ \E day \in Days : RunsOn(x, day) /\ RunsOn(y, day)

\* What a session is going to write is a row, for a row that is there.
Held == \A s \in Sessions :
    /\ pc[s] = "insert" => view[s].id = None /\ view[s].new \in Contract
    /\ pc[s] = "update" =>
          /\ view[s].id \in Contracts /\ contract[view[s].id] \in Contract
          /\ view[s].seen \in Contract /\ view[s].new \in Contract
          /\ view[s].seen.emp = contract[view[s].id].emp
          /\ view[s].new.emp = contract[view[s].id].emp
    /\ pc[s] = "terminate" =>
          /\ view[s].emp \in Employees
          /\ \A c \in view[s].ids : contract[c] \in Contract
    /\ pc[s] = "retire" => view[s].on \in Structures

\* What it is going to let run runs with no other contract, as long as nobody
\* has taken the decision its ground.
Checked == \A s \in Sessions \ missed, c \in Contracts :
    pc[s] \in {"insert", "update"} /\ c # view[s].id
        => ~Together(view[s].new, contract[c])

\* Dates that it has changed are in order.
DatesChecked == \A s \in Sessions :
    /\ pc[s] = "insert" => InOrder(view[s].new)
    /\ pc[s] = "update" =>
          \/ InOrder(view[s].new)
          \/ /\ view[s].new.from = view[s].seen.from
             /\ view[s].new.to = view[s].seen.to

\* A deactivation knows the running contracts it is about.
Looked == \A s \in Sessions \ missed, c \in Contracts :
    /\ pc[s] = "terminate" /\ RunningFor(contract[c], view[s].emp)
          => c \in view[s].ids
    /\ pc[s] = "retire" => ~UsedBy(contract[c], view[s].on)

Inv == TypeOK /\ Held /\ Checked /\ DatesChecked /\ Looked
-----------------------------------------------------------------------------
(* Rows *)

LEMMA NoRowKind == NoRow \notin Contract /\ NoRow.status = "NONE"
  BY DEF NoRow, Contract

LEMMA NoViewType == NoView \in View
  BY DEF NoView, View, EmployeeStatus

\* The columns of a contract.
LEMMA Columns ==
  ASSUME NEW row \in Contract
  PROVE  /\ row.status \in ContractStatus /\ row.emp \in Employees
         /\ row.from \in Int /\ row.to \in Int \cup {None}
  BY ContractsAssumption DEF Contract

\* check_running_contract_overlap misses no day two contracts have in common.
LEMMA ConflictFound ==
  ASSUME NEW row \in Contract, NEW c \in Contracts,
         contract[c] \in Contract \cup {NoRow}, ~Conflicts(row, c)
  PROVE  ~Together(row, contract[c])
<1>1. SUFFICES ASSUME Together(row, contract[c])
               PROVE  FALSE
  OBVIOUS
<1>2. contract[c] \in Contract
  BY <1>1, NoRowKind DEF Together
<1>3. PICK day \in Days : RunsOn(row, day) /\ RunsOn(contract[c], day)
  BY <1>1 DEF Together
<1>4. day \in Int
  BY ContractsAssumption
<1>5. Conflicts(row, c)
  BY <1>1, <1>2, <1>3, <1>4, Columns, ContractsAssumption
  DEF Conflicts, RunningFor, RunsOn, Together
<1>6. QED
  BY <1>5

\* An UPDATE leaves every column with the value written or the one it had.
LEMMA FlushRow ==
  ASSUME NEW seen \in Contract, NEW new \in Contract, NEW now \in Contract
  PROVE  /\ Flush(seen, new, now) \in Contract
         /\ Flush(seen, new, now).status =
               IF new.status # seen.status THEN new.status ELSE now.status
         /\ Flush(seen, new, now).emp = IF new.emp # seen.emp THEN new.emp ELSE now.emp
         /\ Flush(seen, new, now).from =
               IF new.from # seen.from THEN new.from ELSE now.from
         /\ Flush(seen, new, now).to = IF new.to # seen.to THEN new.to ELSE now.to
  BY DEF Flush, Contract

\* A row that does not run on more days runs with nothing it did not run with.
LEMMA ShrinkKeepsApart ==
  ASSUME NEW x, NEW old, NEW new, new.status = "RUNNING" => ~Grew(old, new),
         old.status = "RUNNING" => old.emp = new.emp, Together(x, new)
  PROVE  Together(x, old)
<1>1. PICK day \in Days : RunsOn(x, day) /\ RunsOn(new, day)
  BY DEF Together
<1>2. RunsOn(old, day)
  BY <1>1 DEF Grew, Together
<1>3. QED
  BY <1>1, <1>2 DEF Together, RunsOn

\* Rows that apply to an employee and a period run together.
LEMMA ApplyTogether ==
  ASSUME NEW x \in Contract, NEW y \in Contract, NEW e,
         NEW first \in Days, NEW last \in Days, first <= last,
         \A row \in {x, y} : /\ RunningFor(row, e) /\ row.from <= first
                             /\ row.to # None => row.to >= last
  PROVE  Together(x, y)
<1>1. first \in Int /\ last \in Int
  BY ContractsAssumption
<1>2. \A row \in {x, y} : RunsOn(row, first)
  BY <1>1, Columns, ContractsAssumption DEF RunsOn, RunningFor
<1>3. QED
  BY <1>2 DEF Together, RunningFor
-----------------------------------------------------------------------------
(* The Check steps *)

\* A Check step keeps the invariant if what it keeps is in order.
LEMMA AwaitStep ==
  ASSUME Inv, NEW s \in Sessions, NEW v \in View,
         NEW step \in {"insert", "update", "terminate", "retire"},
         Await(s, step, v),
         step = "insert" => v.id = None /\ v.new \in Contract /\ InOrder(v.new),
         step = "update" =>
            /\ v.id \in Contracts /\ contract[v.id] \in Contract
            /\ v.seen \in Contract /\ v.new \in Contract
            /\ v.seen.emp = contract[v.id].emp /\ v.new.emp = contract[v.id].emp
            /\ \/ InOrder(v.new)
               \/ v.new.from = v.seen.from /\ v.new.to = v.seen.to,
         step \in {"insert", "update"} =>
            \A c \in Contracts : c # v.id => ~Together(v.new, contract[c]),
         step = "terminate" => v.emp \in Employees /\ v.ids = Running(v.emp),
         step = "retire" => v.on \in Structures /\ Unused(v.on)
  PROVE  Inv'
<1>1. TypeOK'
  BY DEF Inv, TypeOK, Await
<1>2. pc'[s] = step /\ view'[s] = v
  BY DEF Inv, TypeOK, Await
<1>3. \A u \in Sessions \ {s} : pc'[u] = pc[u] /\ view'[u] = view[u]
  BY DEF Inv, TypeOK, Await
<1>4. contract' = contract /\ missed' = missed
  BY DEF Await
<1>5. Held'
  <2>1. ASSUME NEW u \in Sessions, u # s
        PROVE  Held!(u)'
    BY <2>1, <1>3, <1>4 DEF Inv, Held
  <2>2. \A c \in Running(v.emp) : contract[c] \in Contract
    BY NoRowKind DEF Running, RunningFor, Inv, TypeOK
  <2>3. Held!(s)'
    BY <1>2, <1>4, <2>2
  <2>4. QED
    BY <2>1, <2>3 DEF Held
<1>6. Checked'
  <2>1. SUFFICES ASSUME NEW u \in Sessions \ missed, NEW c \in Contracts,
                        pc'[u] \in {"insert", "update"}, c # view'[u].id
                 PROVE  ~Together(view'[u].new, contract[c])
    BY <1>4 DEF Checked, Together
  <2>2. CASE u = s
    BY <2>1, <2>2, <1>2
  <2>3. CASE u # s
    BY <2>1, <2>3, <1>3 DEF Inv, Checked
  <2>4. QED
    BY <2>2, <2>3
<1>7. DatesChecked'
  <2>1. ASSUME NEW u \in Sessions, u # s
        PROVE  DatesChecked!(u)'
    BY <2>1, <1>3 DEF Inv, DatesChecked, InOrder
  <2>2. DatesChecked!(s)'
    BY <1>2 DEF InOrder
  <2>3. QED
    BY <2>1, <2>2 DEF DatesChecked
<1>8. Looked'
  <2>1. SUFFICES ASSUME NEW u \in Sessions \ missed, NEW c \in Contracts
                 PROVE  Looked!(u, c)'
    BY <1>4 DEF Looked
  <2>2. CASE u = s
    BY <2>2, <1>2, <1>4 DEF Running, Unused
  <2>3. CASE u # s
    BY <2>3, <1>3, <1>4 DEF Inv, Looked
  <2>4. QED
    BY <2>2, <2>3
<1>9. QED
  BY <1>1, <1>5, <1>6, <1>7, <1>8 DEF Inv

\* What a row that has been compared with all others runs with: nothing.
LEMMA ClearOfAll ==
  ASSUME Inv, NEW row \in Contract, NEW self,
         row.status = "RUNNING" => Clear(row, self)
  PROVE  \A c \in Contracts : c # self => ~Together(row, contract[c])
<1>1. SUFFICES ASSUME NEW c \in Contracts, c # self, row.status = "RUNNING"
               PROVE  ~Together(row, contract[c])
  BY DEF Together
<1>2. ~Conflicts(row, c)
  BY <1>1 DEF Clear
<1>3. contract[c] \in Contract \cup {NoRow}
  BY DEF Inv, TypeOK
<1>4. QED
  BY <1>2, <1>3, ConflictFound

LEMMA ChangeStep ==
  ASSUME Inv, NEW s \in Sessions, NEW c \in Contracts, NEW new \in Contract,
         contract[c] # NoRow, new.emp = contract[c].emp,
         \/ InOrder(new)
         \/ new.from = contract[c].from /\ new.to = contract[c].to,
         new.status = "RUNNING" => Clear(new, c),
         Change(s, c, new)
  PROVE  Inv'
<1> DEFINE v == [NoView EXCEPT !.id = c, !.seen = contract[c], !.new = new]
<1>1. contract[c] \in Contract
  BY DEF Inv, TypeOK
<1>2. v \in View /\ v.id = c /\ v.seen = contract[c] /\ v.new = new
  BY <1>1 DEF View, NoView, EmployeeStatus
<1>3. \A d \in Contracts : d # c => ~Together(new, contract[d])
  BY ClearOfAll
<1>4. Await(s, "update", v)
  BY DEF Change
<1>5. QED
  <2> HIDE DEF v
  <2>1. QED
    BY <1>1, <1>2, <1>3, <1>4, AwaitStep

LEMMA CallStep ==
  ASSUME Inv, NEW s \in Sessions, Call(s)
  PROVE  Inv'
<1>1. ASSUME NEW row \in Contract, CreateCheck(s, row)
      PROVE  Inv'
  <2> DEFINE v == [NoView EXCEPT !.new = row]
  <2>1. v \in View /\ v.id = None /\ v.new = row
    BY DEF View, NoView, NoRow, EmployeeStatus
  <2>2. \A d \in Contracts : d # None => ~Together(row, contract[d])
    BY <1>1, ClearOfAll DEF CreateCheck
  <2>3. Await(s, "insert", v) /\ InOrder(row)
    BY <1>1 DEF CreateCheck
  <2>4. QED
    <3> HIDE DEF v
    <3>1. QED
      BY <2>1, <2>2, <2>3, AwaitStep
<1>2. ASSUME NEW c \in Contracts, NEW new \in Contract, UpdateCheck(s, c, new)
      PROVE  Inv'
  <2>1. /\ contract[c] # NoRow /\ new.emp = contract[c].emp /\ Change(s, c, new)
        /\ new.status = "RUNNING" => Clear(new, c)
    BY <1>2 DEF UpdateCheck
  <2>2. InOrder(new)
    BY <1>2 DEF UpdateCheck, ValidUpdate
  <2>3. QED
    BY <2>1, <2>2, ChangeStep
<1>3. ASSUME NEW c \in Contracts, ActivateCheck(s, c)
      PROVE  Inv'
  <2> DEFINE new == [contract[c] EXCEPT !.status = "RUNNING"]
  <2>1. contract[c] \in Contract
    BY <1>3 DEF Inv, TypeOK, ActivateCheck
  <2>2. /\ new \in Contract /\ new.emp = contract[c].emp
        /\ new.from = contract[c].from /\ new.to = contract[c].to
    BY <2>1 DEF Contract, ContractStatus
  <2>3. Clear(new, c)
    BY <1>3, <2>2 DEF ActivateCheck, Clear, Conflicts
  <2>4. Change(s, c, new) /\ contract[c] # NoRow
    BY <1>3 DEF ActivateCheck
  <2>5. QED
    <3> HIDE DEF new
    <3>1. QED
      BY <2>2, <2>3, <2>4, ChangeStep
<1>4. ASSUME NEW c \in Contracts, CancelCheck(s, c)
      PROVE  Inv'
  <2> DEFINE new == [contract[c] EXCEPT !.status = "CANCELLED"]
  <2>1. contract[c] \in Contract
    BY <1>4 DEF Inv, TypeOK, CancelCheck
  <2>2. /\ new \in Contract /\ new.emp = contract[c].emp
        /\ new.from = contract[c].from /\ new.to = contract[c].to
        /\ new.status # "RUNNING"
    BY <2>1 DEF Contract, ContractStatus
  <2>3. Change(s, c, new) /\ contract[c] # NoRow
    BY <1>4 DEF CancelCheck
  <2>4. QED
    <3> HIDE DEF new
    <3>1. QED
      BY <2>2, <2>3, ChangeStep
<1>5. ASSUME NEW e \in Employees, TerminateCheck(s, e)
      PROVE  Inv'
  <2> DEFINE v == [NoView EXCEPT !.emp = e, !.was = employee[e],
                                 !.ids = Running(e)]
  <2>1. v \in View /\ v.emp = e /\ v.ids = Running(e)
    BY DEF View, NoView, NoRow, Running, Inv, TypeOK
  <2>2. Await(s, "terminate", v)
    BY <1>5 DEF TerminateCheck
  <2>3. QED
    <3> HIDE DEF v
    <3>1. QED
      BY <2>1, <2>2, AwaitStep
<1>6. ASSUME NEW t \in Structures, RetireCheck(s, t)
      PROVE  Inv'
  <2> DEFINE v == [NoView EXCEPT !.on = t]
  <2>1. v \in View /\ v.on = t
    BY DEF View, NoView, NoRow, EmployeeStatus
  <2>2. Await(s, "retire", v) /\ Unused(t)
    BY <1>6 DEF RetireCheck
  <2>3. QED
    <3> HIDE DEF v
    <3>1. QED
      BY <2>1, <2>2, AwaitStep
<1>7. QED
  BY <1>1, <1>2, <1>3, <1>4, <1>5, <1>6 DEF Call
-----------------------------------------------------------------------------
(* The commits *)

\* A commit that keeps rows rows and employees' contracts theirs keeps the
\* invariant: who loses his ground by it is in missed.
LEMMA CommitStep ==
  ASSUME Inv, NEW s \in Sessions, Commit(s),
         contract' \in [Contracts -> Contract \cup {NoRow}],
         \A c \in Contracts : contract[c] \in Contract =>
            contract'[c] \in Contract /\ contract'[c].emp = contract[c].emp,
         employee' \in [Employees -> EmployeeStatus],
         structure' \in [Structures -> BOOLEAN]
  PROVE  Inv'
<1>1. TypeOK'
  BY NoViewType DEF Inv, TypeOK, Commit
<1>2. pc'[s] = "idle" /\ view'[s] = NoView
  BY DEF Inv, TypeOK, Commit
<1>3. \A u \in Sessions \ {s} : pc'[u] = pc[u] /\ view'[u] = view[u]
  BY DEF Inv, TypeOK, Commit
<1>4. \A u \in Sessions \ missed' : u # s => u \notin missed /\ ~Undermined(u)
  BY DEF Commit
<1>5. Held'
  <2>1. ASSUME NEW u \in Sessions, u # s
        PROVE  Held!(u)'
    <3>1. view[u].ids \subseteq Contracts
      BY DEF Inv, TypeOK, View
    <3>2. Held!(u)
      BY DEF Inv, Held
    <3>3. QED
      BY <2>1, <1>3, <3>1, <3>2
  <2>2. Held!(s)'
    BY <1>2
  <2>3. QED
    BY <2>1, <2>2 DEF Held
<1>6. Checked'
  <2>1. SUFFICES ASSUME NEW u \in Sessions \ missed', NEW c \in Contracts,
                        pc'[u] \in {"insert", "update"}, c # view'[u].id,
                        Together(view'[u].new, contract'[c])
                 PROVE  FALSE
    BY DEF Checked, Together
  <2>2. u # s /\ u \notin missed /\ pc[u] = pc'[u] /\ view[u] = view'[u]
    BY <2>1, <1>2, <1>3, <1>4
  <2>3. ~Grew(contract[c], contract'[c])
    BY <2>1, <2>2, <1>4 DEF Undermined, Together
  <2>4. contract[c].status = "RUNNING" => contract[c].emp = contract'[c].emp
    BY NoRowKind DEF Inv, TypeOK
  <2>5. Together(view[u].new, contract[c])
    BY <2>1, <2>2, <2>3, <2>4, ShrinkKeepsApart
  <2>6. QED
    BY <2>1, <2>2, <2>5 DEF Inv, Checked
<1>7. DatesChecked'
  <2>1. ASSUME NEW u \in Sessions, u # s
        PROVE  DatesChecked!(u)'
    BY <2>1, <1>3 DEF Inv, DatesChecked, InOrder
  <2>2. DatesChecked!(s)'
    BY <1>2
  <2>3. QED
    BY <2>1, <2>2 DEF DatesChecked
<1>8. Looked'
  <2>1. SUFFICES ASSUME NEW u \in Sessions \ missed', NEW c \in Contracts
                 PROVE  Looked!(u, c)'
    BY DEF Looked
  <2>2. CASE u = s
    BY <2>2, <1>2
  <2>3. CASE u # s
    <3>1. u \notin missed /\ pc[u] = pc'[u] /\ view[u] = view'[u]
      BY <2>1, <2>3, <1>3, <1>4
    <3>2. pc[u] = "terminate" /\ RunningFor(contract'[c], view[u].emp)
             => RunningFor(contract[c], view[u].emp)
      BY <2>3, <1>4 DEF Undermined
    <3>3. pc[u] = "retire" /\ UsedBy(contract'[c], view[u].on)
             => UsedBy(contract[c], view[u].on)
      BY <2>3, <1>4 DEF Undermined
    <3>4. Looked!(u, c)
      BY <3>1 DEF Inv, Looked
    <3>5. QED
      BY <3>1, <3>2, <3>3, <3>4
  <2>4. QED
    BY <2>2, <2>3
<1>9. QED
  BY <1>1, <1>5, <1>6, <1>7, <1>8 DEF Inv

\* What the commits of the two kinds of change do to contract.
LEMMA InsertRow ==
  ASSUME Inv, NEW s \in Sessions, Insert(s)
  PROVE  \E c \in Contracts :
            /\ contract[c] = NoRow
            /\ contract' = [contract EXCEPT ![c] = view[s].new]
            /\ view[s].new \in Contract /\ view[s].id = None
  BY DEF Insert, Inv, Held

LEMMA UpdateRow ==
  ASSUME Inv, NEW s \in Sessions, Update(s)
  PROVE  LET v == view[s]
             now == contract[v.id]
             row == contract'[v.id]
         IN  /\ v.id \in Contracts /\ now \in Contract /\ v.seen \in Contract
             /\ v.new \in Contract /\ row = Flush(v.seen, v.new, now)
             /\ row \in Contract /\ row.emp = now.emp
             /\ contract' = [contract EXCEPT ![v.id] = row]
<1> DEFINE v == view[s]
           now == contract[v.id]
<1>1. /\ v.id \in Contracts /\ now \in Contract /\ v.seen \in Contract
      /\ v.new \in Contract /\ v.seen.emp = now.emp /\ v.new.emp = now.emp
  BY DEF Update, Inv, Held
<1>2. contract' = [contract EXCEPT ![v.id] = Flush(v.seen, v.new, now)]
  BY DEF Update
<1>3. contract'[v.id] = Flush(v.seen, v.new, now)
  BY <1>1, <1>2 DEF Inv, TypeOK
<1>4. contract'[v.id] \in Contract /\ contract'[v.id].emp = now.emp
  <2> HIDE DEF v, now
  <2>1. QED
    BY <1>1, <1>3, FlushRow
<1>5. QED
  BY <1>1, <1>2, <1>3, <1>4

LEMMA FinishStep ==
  ASSUME Inv, NEW s \in Sessions, Finish(s)
  PROVE  Inv'
<1>1. CASE Insert(s)
  <2>1. PICK c \in Contracts :
           /\ contract[c] = NoRow
           /\ contract' = [contract EXCEPT ![c] = view[s].new]
           /\ view[s].new \in Contract /\ view[s].id = None
    BY <1>1, InsertRow
  <2>2. Commit(s) /\ employee' = employee /\ structure' = structure
    BY <1>1 DEF Insert
  <2>3. contract' \in [Contracts -> Contract \cup {NoRow}]
    BY <2>1 DEF Inv, TypeOK
  <2>4. \A d \in Contracts : contract[d] \in Contract => contract'[d] = contract[d]
    BY <2>1, NoRowKind DEF Inv, TypeOK
  <2>5. QED
    BY <2>2, <2>3, <2>4, CommitStep DEF Inv, TypeOK
<1>2. CASE Update(s)
  <2> DEFINE c == view[s].id
             row == contract'[c]
  <2>1. /\ c \in Contracts /\ contract[c] \in Contract /\ row \in Contract
        /\ row.emp = contract[c].emp /\ contract' = [contract EXCEPT ![c] = row]
    BY <1>2, UpdateRow
  <2>2. Commit(s) /\ employee' = employee /\ structure' = structure
    BY <1>2 DEF Update
  <2>3. contract' \in [Contracts -> Contract \cup {NoRow}]
    BY <2>1 DEF Inv, TypeOK
  <2>4. \A d \in Contracts : d # c => contract'[d] = contract[d]
    BY <2>1 DEF Inv, TypeOK
  <2>5. \A d \in Contracts : contract[d] \in Contract =>
           contract'[d] \in Contract /\ contract'[d].emp = contract[d].emp
    BY <2>1, <2>4
  <2>6. QED
    BY <2>2, <2>3, <2>5, CommitStep DEF Inv, TypeOK
<1>3. CASE Terminate(s)
  <2>1. Commit(s) /\ structure' = structure
    BY <1>3 DEF Terminate
  <2>2. employee' \in [Employees -> EmployeeStatus]
    BY <1>3 DEF Terminate, Inv, TypeOK, EmployeeStatus
  <2>3. ASSUME NEW d \in Contracts, contract[d] \in Contract
        PROVE  contract'[d] \in Contract /\ contract'[d].emp = contract[d].emp
    BY <1>3, <2>3 DEF Terminate, Contract, ContractStatus
  <2>4. ASSUME NEW d \in Contracts, contract[d] = NoRow
        PROVE  contract'[d] = NoRow
    <3>1. d \notin view[s].ids
      BY <2>4, <1>3, NoRowKind DEF Terminate, Inv, Held
    <3>2. QED
      BY <3>1, <2>4, <1>3 DEF Terminate
  <2>5. contract' \in [Contracts -> Contract \cup {NoRow}]
    BY <1>3, <2>3, <2>4 DEF Terminate, Inv, TypeOK
  <2>6. QED
    BY <2>1, <2>2, <2>3, <2>5, CommitStep DEF Inv, TypeOK
<1>4. CASE Retire(s)
  <2>1. Commit(s) /\ contract' = contract /\ employee' = employee
    BY <1>4 DEF Retire
  <2>2. structure' \in [Structures -> BOOLEAN]
    BY <1>4 DEF Retire, Inv, TypeOK
  <2>3. QED
    BY <2>1, <2>2, CommitStep DEF Inv, TypeOK
<1>5. CASE Abort(s)
  <2>1. Commit(s) /\ UNCHANGED <<contract, employee, structure>>
    BY <1>5 DEF Abort
  <2>2. QED
    BY <2>1, CommitStep DEF Inv, TypeOK
<1>6. QED
  BY <1>1, <1>2, <1>3, <1>4, <1>5 DEF Finish
-----------------------------------------------------------------------------
(* The invariant *)

LEMMA InitInv ==
  ASSUME Init
  PROVE  Inv
<1>1. TypeOK
  BY NoViewType DEF Init, TypeOK, EmployeeStatus
<1>2. \A s \in Sessions : pc[s] = "idle"
  BY DEF Init
<1>3. QED
  BY <1>1, <1>2 DEF Inv, Held, Checked, DatesChecked, Looked

LEMMA StepInv ==
  ASSUME Inv, [Next]_vars
  PROVE  Inv'
<1>1. ASSUME employee' \in [Employees -> EmployeeStatus],
             structure' \in [Structures -> BOOLEAN],
             UNCHANGED <<contract, pc, view, missed>>
      PROVE  Inv'
  <2>1. TypeOK'
    BY <1>1 DEF Inv, TypeOK
  <2>2. Held' /\ Checked' /\ DatesChecked' /\ Looked'
    BY <1>1 DEF Inv, Held, Checked, DatesChecked, Looked, Together, InOrder,
                UsedBy, RunningFor
  <2>3. QED
    BY <2>1, <2>2 DEF Inv
<1>2. ASSUME NEW s \in Sessions, Call(s) \/ Finish(s)
      PROVE  Inv'
  BY <1>2, CallStep, FinishStep
<1>3. ASSUME NEW e \in Employees, NEW status \in EmployeeStatus,
             PatchEmployee(e, status)
      PROVE  Inv'
  BY <1>1, <1>3 DEF PatchEmployee, Inv, TypeOK
<1>4. ASSUME NEW t \in Structures, Restore(t)
      PROVE  Inv'
  BY <1>1, <1>4 DEF Restore, Inv, TypeOK
<1>5. CASE UNCHANGED vars
  BY <1>1, <1>5 DEF vars, Inv, TypeOK
<1>6. QED
  BY <1>2, <1>3, <1>4, <1>5 DEF Next

LEMMA Inductive == Spec => []Inv
<1>1. Init => Inv
  BY InitInv
<1>2. Inv /\ [Next]_vars => Inv'
  BY StepInv
<1>3. QED
  BY <1>1, <1>2, PTL DEF Spec

\* Every state of the contract handlers is one of the declared types, whatever
\* requests overlap or die.
THEOREM TypeCorrect == Spec => []TypeOK
<1>1. Inv => TypeOK
  BY DEF Inv
<1>2. QED
  BY <1>1, Inductive, PTL
-----------------------------------------------------------------------------
(* What a step does to the contracts *)

\* Rows change in commits only: an insert, an update, or a deactivation, which
\* only cancels.
LEMMA ContractChanges ==
  ASSUME Inv, [Next]_vars, contract' # contract
  PROVE  \E s \in Sessions : Insert(s) \/ Update(s) \/ Terminate(s)
<1>1. ASSUME NEW s \in Sessions, Call(s)
      PROVE  contract' = contract
  BY <1>1 DEF Call, CreateCheck, UpdateCheck, ActivateCheck, CancelCheck,
              TerminateCheck, RetireCheck, Change, Await
<1>2. QED
  BY <1>1 DEF Next, Finish, Retire, Abort, PatchEmployee, Restore, vars

LEMMA TerminateRows ==
  ASSUME Inv, NEW s \in Sessions, Terminate(s), NEW c \in Contracts
  PROVE  contract'[c] = contract[c] \/ contract'[c].status = "CANCELLED"
<1>1. CASE c \in view[s].ids
  <2>1. contract[c] \in Contract
    BY <1>1 DEF Terminate, Inv, Held
  <2>2. contract'[c] = [contract[c] EXCEPT !.status = "CANCELLED"]
    BY <1>1 DEF Terminate
  <2>3. QED
    BY <2>1, <2>2 DEF Contract
<1>2. CASE c \notin view[s].ids
  BY <1>2 DEF Terminate
<1>3. QED
  BY <1>1, <1>2

\* The row an update leaves is the one that was checked, if the row it had
\* read was still there.
LEMMA FreshUpdate ==
  ASSUME Inv, NEW s \in Sessions, Update(s),
         ~Stale(s, {"status", "from", "to"})
  PROVE  LET row == contract'[view[s].id]
             new == view[s].new
         IN  /\ row.status = new.status /\ row.emp = new.emp
             /\ row.from = new.from /\ row.to = new.to
<1> DEFINE v == view[s]
           now == contract[v.id]
           row == contract'[v.id]
<1>1. /\ now \in Contract /\ v.seen \in Contract /\ v.new \in Contract
      /\ row = Flush(v.seen, v.new, now) /\ row.emp = now.emp
  BY UpdateRow
<1>2. now.status = v.seen.status /\ now.from = v.seen.from /\ now.to = v.seen.to
  BY DEF Stale, Update, Contract
<1>3. v.new.emp = now.emp
  BY DEF Update, Inv, Held
<1>4. QED
  <2> HIDE DEF v, now, row
  <2>1. /\ row.status = v.new.status /\ row.emp = v.new.emp
        /\ row.from = v.new.from /\ row.to = v.new.to
    BY <1>1, <1>2, <1>3, FlushRow
  <2>2. QED
    BY <2>1 DEF v, row

\* Rows that agree in status, employee and dates run with the same rows.
LEMMA SameRun ==
  ASSUME NEW x, NEW y, NEW z, x.status = y.status, x.emp = y.emp,
         x.from = y.from, x.to = y.to, Together(x, z)
  PROVE  Together(y, z)
  BY DEF Together, RunsOn

\* A commit on good grounds lets its contract run with no other.
LEMMA GroundedCommit ==
  ASSUME Inv, NEW s \in Sessions \ missed, NEW c \in Contracts, NEW d \in Contracts,
         c # d,
         \/ Insert(s) /\ contract[c] = NoRow
                      /\ contract' = [contract EXCEPT ![c] = view[s].new]
         \/ Update(s) /\ c = view[s].id /\ ~Stale(s, {"status", "from", "to"})
  PROVE  contract'[d] = contract[d] /\ ~Together(contract'[c], contract'[d])
<1>1. CASE Insert(s)
  <2>1. pc[s] = "insert" /\ view[s].id = None
    BY <1>1, InsertRow DEF Insert
  <2>2. contract' = [contract EXCEPT ![c] = view[s].new]
    BY <1>1 DEF Insert, Update
  <2>3. contract'[d] = contract[d] /\ contract'[c] = view[s].new
    BY <2>2 DEF Inv, TypeOK
  <2>4. ~Together(view[s].new, contract[d])
    BY <2>1, ContractsAssumption DEF Inv, Checked
  <2>5. QED
    BY <2>3, <2>4
<1>2. CASE Update(s)
  <2>1. pc[s] = "update" /\ c = view[s].id /\ ~Stale(s, {"status", "from", "to"})
    BY <1>2 DEF Insert, Update
  <2>2. contract' = [contract EXCEPT ![c] = contract'[c]]
    BY <1>2, <2>1, UpdateRow
  <2>3. contract'[d] = contract[d]
    BY <2>2 DEF Inv, TypeOK
  <2>4. ~Together(view[s].new, contract[d])
    BY <2>1 DEF Inv, Checked
  <2>5. QED
    BY <1>2, <2>1, <2>3, <2>4, FreshUpdate, SameRun
<1>3. QED
  BY <1>1, <1>2
-----------------------------------------------------------------------------
(* The properties *)

LEMMA ApartStep ==
  ASSUME Inv, [Next]_vars
  PROVE  Apart
<1>1. SUFFICES ASSUME NEW e \in Employees, NEW first \in Days, NEW last \in Days,
                      first <= last,
                      NEW c \in Applicable(e, first, last)',
                      NEW d \in Applicable(e, first, last)', c # d,
                      ~({c, d} \subseteq Applicable(e, first, last))
               PROVE  \E s \in Sessions :
                         /\ Insert(s) \/ Update(s)
                         /\ s \in missed \/ Stale(s, {"status", "from", "to"})
  BY DEF Apart
<1>2. /\ c \in Contracts /\ contract'[c].status = "RUNNING" /\ contract'[c].emp = e
      /\ contract'[c].from <= first
      /\ contract'[c].to # None => contract'[c].to >= last
      /\ d \in Contracts /\ contract'[d].status = "RUNNING" /\ contract'[d].emp = e
      /\ contract'[d].from <= first
      /\ contract'[d].to # None => contract'[d].to >= last
  BY <1>1 DEF Applicable, RunningFor
<1>3. contract'[c] \in Contract /\ contract'[d] \in Contract
  <2>1. Inv'
    BY StepInv
  <2>2. QED
    BY <1>2, <2>1, NoRowKind DEF Inv, TypeOK
<1>4. Together(contract'[c], contract'[d]) /\ Together(contract'[d], contract'[c])
  <2> DEFINE x == contract'[c]
             y == contract'[d]
  <2>1. \A row \in {x, y} : /\ RunningFor(row, e) /\ row.from <= first
                            /\ row.to # None => row.to >= last
    BY <1>2 DEF RunningFor
  <2>2. x \in Contract /\ y \in Contract
    BY <1>3
  <2>3. QED
    <3> HIDE DEF x, y
    <3>1. Together(x, y)
      BY <1>1, <2>1, <2>2, ApplyTogether
    <3>2. Together(y, x)
      BY <3>1 DEF Together
    <3>3. QED
      BY <3>1, <3>2 DEF x, y
<1>5. ~(contract'[c] = contract[c] /\ contract'[d] = contract[d])
  BY <1>1, <1>2 DEF Applicable, RunningFor
<1>6. PICK s \in Sessions : Insert(s) \/ Update(s) \/ Terminate(s)
  BY <1>5, ContractChanges
<1>7. CASE Terminate(s)
  BY <1>2, <1>5, <1>7, TerminateRows
<1>8. CASE Insert(s) /\ s \notin missed
  <2>1. PICK k \in Contracts :
           contract[k] = NoRow /\ contract' = [contract EXCEPT ![k] = view[s].new]
    BY <1>8, InsertRow
  <2>2. k = c \/ k = d
    BY <1>2, <1>5, <2>1 DEF Inv, TypeOK
  <2>3. QED
    BY <1>1, <1>2, <1>4, <1>8, <2>1, <2>2, GroundedCommit
<1>9. CASE Update(s) /\ s \notin missed /\ ~Stale(s, {"status", "from", "to"})
  <2> DEFINE k == view[s].id
  <2>1. k \in Contracts /\ contract' = [contract EXCEPT ![k] = contract'[k]]
    BY <1>9, UpdateRow
  <2>2. k = c \/ k = d
    BY <1>2, <1>5, <2>1 DEF Inv, TypeOK
  <2>3. QED
    BY <1>1, <1>2, <1>4, <1>9, <2>2, GroundedCommit
<1>10. QED
  BY <1>6, <1>7, <1>8, <1>9

\* A second contract comes to apply to an employee and a period only in the
\* commit of a request that another one has overlapped, whatever the dates,
\* open ends and the number of contracts and requests.
THEOREM SecondContractExplained == Spec => OneContractApplies
<1>1. Inv /\ [Next]_vars => [Apart]_vars
  BY ApartStep
<1>2. QED
  BY <1>1, Inductive, PTL DEF Spec, OneContractApplies

LEMMA OrderedStep ==
  ASSUME Inv, [Next]_vars
  PROVE  Ordered
<1>1. SUFFICES ASSUME NEW c \in Contracts, contract'[c] # NoRow,
                      ~InOrder(contract'[c]),
                      contract[c] # NoRow => InOrder(contract[c])
               PROVE  \E s \in Sessions : Update(s) /\ view[s].id = c
                                         /\ Stale(s, {"from", "to"})
  BY DEF Ordered
<1>2. contract'[c] # contract[c]
  BY <1>1
<1>3. PICK s \in Sessions : Insert(s) \/ Update(s) \/ Terminate(s)
  BY <1>2, ContractChanges
<1>4. ASSUME Terminate(s)
      PROVE  FALSE
  <2>1. c \in view[s].ids /\ contract[c] \in Contract
    BY <1>2, <1>4 DEF Terminate, Inv, Held
  <2>2. contract'[c] = [contract[c] EXCEPT !.status = "CANCELLED"]
    BY <1>4, <2>1 DEF Terminate
  <2>3. QED
    BY <1>1, <2>1, <2>2, NoRowKind DEF InOrder, Contract
<1>5. ASSUME Insert(s)
      PROVE  FALSE
  <2>1. InOrder(view[s].new)
    BY <1>5 DEF Insert, Inv, DatesChecked
  <2>2. contract'[c] = view[s].new
    BY <1>2, <1>5, InsertRow DEF Inv, TypeOK
  <2>3. QED
    BY <1>1, <2>1, <2>2
<1>6. ASSUME Update(s)
      PROVE  view[s].id = c /\ Stale(s, {"from", "to"})
  <2> DEFINE v == view[s]
             now == contract[c]
             row == contract'[c]
  <2>1. v.id = c /\ contract' = [contract EXCEPT ![v.id] = contract'[v.id]]
    BY <1>2, <1>6, UpdateRow DEF Inv, TypeOK
  <2>2. /\ now \in Contract /\ v.seen \in Contract /\ v.new \in Contract
        /\ row = Flush(v.seen, v.new, now)
    BY <1>6, <2>1, UpdateRow
  <2>3. InOrder(now)
    BY <1>1, <2>2, NoRowKind
  <2>4. \/ InOrder(v.new)
        \/ v.new.from = v.seen.from /\ v.new.to = v.seen.to
    BY <1>6 DEF Update, Inv, DatesChecked
  <2>5. ~InOrder(row)
    BY <1>1
  <2>6. now.from # v.seen.from \/ now.to # v.seen.to
    <3> HIDE DEF v, now, row
    <3>1. /\ row.from = IF v.new.from # v.seen.from THEN v.new.from ELSE now.from
          /\ row.to = IF v.new.to # v.seen.to THEN v.new.to ELSE now.to
      BY <2>2, FlushRow
    <3>2. QED
      BY <2>3, <2>4, <2>5, <3>1 DEF InOrder
  <2>7. QED
    BY <1>6, <2>1, <2>6 DEF Stale, Update
<1>7. QED
  BY <1>3, <1>4, <1>5, <1>6

\* The end of a contract comes before its start only after two requests that
\* overlapped have changed the one and the other.
THEOREM DatesStayInOrder == Spec => DatesInOrder
<1>1. Inv /\ [Next]_vars => [Ordered]_vars
  BY OrderedStep
<1>2. QED
  BY <1>1, Inductive, PTL DEF Spec, DatesInOrder

\* When the deactivation of an employee commits and no contract was started
\* since it looked, none of the employee's contracts is left running.
THEOREM TerminationIsClean == Spec => TerminationCancels
<1>1. ASSUME Inv
      PROVE  Cancelled
  <2>1. SUFFICES ASSUME NEW s \in Sessions \ missed, Terminate(s),
                        NEW c \in Contracts, RunningFor(contract'[c], view[s].emp)
                 PROVE  FALSE
    BY DEF Cancelled
  <2>2. contract'[c] = contract[c]
    BY <1>1, <2>1, TerminateRows DEF RunningFor
  <2>3. c \in view[s].ids /\ contract[c] \in Contract
    BY <1>1, <2>1, <2>2 DEF Terminate, Inv, Looked, Held
  <2>4. contract'[c].status = "CANCELLED"
    BY <2>1, <2>3 DEF Terminate, Contract
  <2>5. QED
    BY <2>1, <2>4 DEF RunningFor
<1>2. Inv /\ [Next]_vars => [Cancelled]_vars
  BY <1>1
<1>3. QED
  BY <1>2, Inductive, PTL DEF Spec, TerminationCancels

\* When the deactivation of a salary structure commits and no contract was
\* started on it or moved to it since it looked, none runs on it.
THEOREM RetirementIsGuarded == Spec => RetirementGuarded
<1>1. ASSUME Inv
      PROVE  Guarded
  BY <1>1 DEF Guarded, Retire, Inv, Looked
<1>2. Inv /\ [Next]_vars => [Guarded]_vars
  BY <1>1
<1>3. QED
  BY <1>2, Inductive, PTL DEF Spec, RetirementGuarded

LEMMA WokenStep ==
  ASSUME Inv, [Next]_vars
  PROVE  Woken
<1>1. SUFFICES ASSUME NEW c \in Contracts, contract[c].status = "CANCELLED",
                      contract'[c].status = "RUNNING"
               PROVE  \E s \in Sessions : /\ pc[s] = "update" /\ view[s].id = c
                                          /\ view[s].seen.status # "RUNNING"
  BY DEF Woken
<1>2. contract'[c] # contract[c]
  BY <1>1
<1>3. PICK s \in Sessions : Insert(s) \/ Update(s) \/ Terminate(s)
  BY <1>2, ContractChanges
<1>4. ~Terminate(s)
  BY <1>1, <1>2, TerminateRows
<1>5. ~Insert(s)
  BY <1>1, <1>2, InsertRow, NoRowKind DEF Inv, TypeOK
<1>6. ASSUME Update(s)
      PROVE  pc[s] = "update" /\ view[s].id = c /\ view[s].seen.status # "RUNNING"
  <2> DEFINE v == view[s]
             now == contract[c]
             row == contract'[c]
  <2>1. v.id = c
    BY <1>2, <1>6, UpdateRow DEF Inv, TypeOK
  <2>2. /\ now \in Contract /\ v.seen \in Contract /\ v.new \in Contract
        /\ row = Flush(v.seen, v.new, now)
    BY <1>6, <2>1, UpdateRow
  <2>3. row.status = IF v.new.status # v.seen.status THEN v.new.status
                     ELSE now.status
    <3> HIDE DEF v, now, row
    <3>1. QED
      BY <2>2, FlushRow
  <2>4. QED
    BY <1>1, <1>6, <2>1, <2>3 DEF Update
<1>7. QED
  BY <1>3, <1>4, <1>5, <1>6

\* A cancelled contract runs again only on a request that found it not running
\* and asked for that.
THEOREM CancelledStaysCancelled == Spec => CancellationHolds
<1>1. Inv /\ [Next]_vars => [Woken]_vars
  BY WokenStep
<1>2. QED
  BY <1>1, Inductive, PTL DEF Spec, CancellationHolds
=============================================================================
