---------------------------- MODULE RulesProofs ----------------------------
(***************************************************************************)
(* What holds of SalaryRules for every number of rules, codes, sequences   *)
(* and sessions.                                                           *)
(***************************************************************************)
EXTENDS SalaryRules, FoldLemmas

\* The unique constraints.
KeysUnique == \A r, q \in Rules :
    r # q /\ rules[r] # NoRow /\ rules[q] # NoRow
        => rules[r].code # rules[q].code /\ rules[r].seq # rules[q].seq

\* What a session is going to write is a row, for a key.
Held == \A s \in Sessions :
    /\ pc[s] = "insert" => view[s].id = None
    /\ pc[s] \in {"update", "delete"} =>
          view[s].id \in Rules /\ view[s].seen \in Stored
    /\ pc[s] \in {"insert", "update"} =>
          view[s].new \in Row /\ Complete(view[s].new)

\* As long as nobody has taken the decision of a session its ground: the row
\* is the one it read,
Fresh == \A s \in Sessions \ overtaken :
    pc[s] \in {"update", "delete"} => rules[view[s].id] = view[s].seen

\* the rules are in order with the one it will write,
Placed == \A s \in Sessions \ overtaken :
    pc[s] \in {"insert", "update"} =>
        Ordered(Simulated(rules, view[s].id, view[s].new))

\* and nothing uses the one it will delete.
Unneeded == \A s \in Sessions \ overtaken :
    pc[s] = "delete" => \A q \in Rules \ {view[s].id} :
        rules[q].active => view[s].seen.code \notin Uses(rules[q])

Inv == TypeOK /\ KeysUnique /\ Held /\ Fresh /\ Placed /\ Unneeded
-----------------------------------------------------------------------------
(* Rows and sets of rules *)

Table == [Rules -> Stored \cup {NoRow}]

LEMMA NoRowInactive == NoRow.active = FALSE
  BY DEF NoRow

LEMMA NoViewType == NoView \in View
  BY DEF NoView, View

LEMMA RowStored == Row \subseteq Stored
  BY DEF Row

LEMMA NoneNoRule == None \notin Rules
  BY RulesAssumption

\* Active rows are rows.
LEMMA ActiveStored ==
  ASSUME NEW R \in Table, NEW r \in Rules, R[r].active
  PROVE  R[r] \in Stored /\ R[r] # NoRow
  BY NoRowInactive DEF Table

LEMMA UsesMentioned ==
  ASSUME NEW row, NEW x \in Uses(row)
  PROVE  Mentioned(row, x)
  BY DEF Uses, Mentioned

\* An UPDATE of the row that was read writes what was wanted.
LEMMA FlushFresh ==
  ASSUME NEW seen \in Stored, NEW new \in Stored
  PROVE  Flush(seen, new, seen) = new
  BY DEF Flush, Stored

LEMMA FlushStored ==
  ASSUME NEW seen \in Stored, NEW new \in Stored, NEW now \in Stored
  PROVE  Flush(seen, new, now) \in Stored
  BY DEF Flush, Stored

\* x is there for a rule of sequence n, among R without r, or from row.
Fits(R, r, row, x, n) ==
    \/ row.active /\ row.code = x /\ row.seq < n
    \/ \E p \in Rules \ {r} : R[p].active /\ R[p].code = x /\ R[p].seq < n

\* What the check of R with row in the place of r comes to.
LEMMA OrderedSimulated ==
  ASSUME NEW R \in Table, NEW r, NEW row
  PROVE  Ordered(Simulated(R, r, row)) <=>
            /\ row.active => \A x \in Uses(row) : Fits(R, r, row, x, row.seq)
            /\ \A q \in Rules \ {r} : R[q].active =>
                  \A x \in Uses(R[q]) : Fits(R, r, row, x, R[q].seq)
<1> DEFINE S == Simulated(R, r, row)
<1>1. /\ DOMAIN S = Rules \cup {r}
      /\ S[r] = row
      /\ \A q \in Rules \ {r} : S[q] = R[q]
  BY DEF Simulated, Table
<1>2. \A x, n : Supplied(S, x, n) <=> Fits(R, r, row, x, n)
  <2> HIDE DEF S
  <2>1. QED
    BY <1>1 DEF Supplied, Fits
<1>3. QED
  <2> HIDE DEF S
  <2>1. Ordered(S) <=> \A q \in Rules \cup {r} : S[q].active =>
            \A x \in Uses(S[q]) : Fits(R, r, row, x, S[q].seq)
    BY <1>1, <1>2 DEF Ordered
  <2>2. QED
    BY <1>1, <2>1 DEF S

-----------------------------------------------------------------------------
(* What a commit leaves of the decisions of others *)

LEMMA PlacedKept ==
  ASSUME Inv, rules' \in Table, Ordered(rules'), NEW u \in Sessions \ overtaken,
         pc[u] \in {"insert", "update"},
         ~RowChanged(u), ~SupplierLost(u), ~UserGained(u)
  PROVE  Ordered(Simulated(rules', view[u].id, view[u].new))
<1> DEFINE id == view[u].id
           new == view[u].new
<1>1. rules \in Table
  BY DEF Inv, TypeOK, Table
<1>2. /\ new.active =>
            \A x \in Uses(new) : Fits(rules, id, new, x, new.seq)
      /\ \A q \in Rules \ {id} : rules[q].active =>
            \A x \in Uses(rules[q]) : Fits(rules, id, new, x, rules[q].seq)
  BY <1>1, OrderedSimulated DEF Inv, Placed
<1>3. ASSUME new.active, NEW x \in Uses(new)
      PROVE  Fits(rules', id, new, x, new.seq)
  <2>1. CASE new.active /\ new.code = x /\ new.seq < new.seq
    BY <2>1 DEF Fits
  <2>2. CASE \E p \in Rules \ {id} :
                rules[p].active /\ rules[p].code = x /\ rules[p].seq < new.seq
    <3>1. PICK p \in Rules \ {id} :
             rules[p].active /\ rules[p].code = x /\ rules[p].seq < new.seq
      BY <2>2
    <3>2. /\ rules'[p].active /\ rules'[p].code = rules[p].code
          /\ rules'[p].seq = rules[p].seq
      BY <1>3, <3>1 DEF SupplierLost
    <3>3. QED
      BY <3>1, <3>2 DEF Fits
  <2>3. QED
    BY <1>2, <1>3, <2>1, <2>2 DEF Fits
<1>4. ASSUME NEW q \in Rules \ {id}, rules'[q].active, NEW x \in Uses(rules'[q])
      PROVE  Fits(rules', id, new, x, rules'[q].seq)
  <2>1. PICK p \in Rules :
           rules'[p].active /\ rules'[p].code = x /\ rules'[p].seq < rules'[q].seq
    BY <1>4 DEF Ordered, Supplied, Table
  <2>2. CASE p # id
    BY <2>1, <2>2 DEF Fits
  <2>3. CASE p = id
    <3>1. pc[u] = "update" /\ rules'[id] = rules[id] /\ rules[id] = view[u].seen
      BY <2>3, NoneNoRule DEF Inv, Held, Fresh, RowChanged
    <3>2. view[u].seen.code = x
      BY <2>1, <2>3, <3>1
    <3>3. /\ rules[q].active /\ x \in Uses(rules[q])
          /\ rules'[q].seq = rules[q].seq
      BY <1>4, <3>1, <3>2 DEF UserGained
    <3>4. Fits(rules, id, new, x, rules[q].seq)
      BY <1>2, <3>3
    <3>5. ~ \E w \in Rules \ {id} : rules[w].active /\ rules[w].code = x
      <4>1. SUFFICES ASSUME NEW w \in Rules \ {id},
                            rules[w].active, rules[w].code = x
                     PROVE  FALSE
        OBVIOUS
      <4>2. rules[w] # NoRow
        BY <1>1, <4>1, ActiveStored
      <4>3. rules[id] # NoRow
        <5>1. rules[id].active
          BY <2>1, <2>3, <3>1
        <5>2. QED
          BY <5>1, NoRowInactive
      <4>4. QED
        BY <2>3, <3>1, <3>2, <4>1, <4>2, <4>3 DEF Inv, KeysUnique
    <3>6. new.active /\ new.code = x /\ new.seq < rules'[q].seq
      BY <3>3, <3>4, <3>5 DEF Fits
    <3>7. QED
      BY <3>6 DEF Fits
  <2>4. QED
    BY <2>2, <2>3
<1>5. QED
  BY <1>3, <1>4, OrderedSimulated

LEMMA UnneededKept ==
  ASSUME Inv, NEW u \in Sessions \ overtaken, pc[u] = "delete", ~UserGained(u)
  PROVE  \A q \in Rules \ {view[u].id} :
            rules'[q].active => view[u].seen.code \notin Uses(rules'[q])
  BY DEF Inv, Unneeded, UserGained

LEMMA CommitStep ==
  ASSUME Inv, NEW s \in Sessions, Commit(s), rules' \in Table, KeysUnique'
  PROVE  Inv'
<1>1. /\ pc' = [pc EXCEPT ![s] = "idle"]
      /\ view' = [view EXCEPT ![s] = NoView]
  BY DEF Commit
<1>2. /\ pc'[s] = "idle"
      /\ \A u \in Sessions \ {s} : pc'[u] = pc[u] /\ view'[u] = view[u]
  BY <1>1 DEF Inv, TypeOK
<1>3. ASSUME NEW u \in Sessions \ overtaken', pc'[u] # "idle"
      PROVE  /\ u \in Sessions \ overtaken
             /\ pc'[u] = pc[u] /\ view'[u] = view[u]
             /\ \/ rules' = rules
                \/ /\ ~RowChanged(u) /\ ~SupplierLost(u) /\ ~UserGained(u)
                   /\ Ordered(rules')
  <2>1. u # s
    BY <1>2, <1>3
  <2>2. pc[u] # "idle" /\ u \in Sessions \ {s}
    BY <1>2, <1>3, <2>1
  <2>3. QED
    BY <1>2, <1>3, <2>2 DEF Commit
<1>4. TypeOK'
  <2>1. overtaken' \in SUBSET Sessions
    BY DEF Commit
  <2>2. QED
    BY <1>1, <2>1, NoViewType DEF Inv, TypeOK, Table
<1>5. Held'
  BY <1>2 DEF Inv, Held
<1>6. Fresh'
  <2>1. SUFFICES ASSUME NEW u \in Sessions \ overtaken',
                        pc'[u] \in {"update", "delete"}
                 PROVE  rules'[view'[u].id] = view'[u].seen
    BY DEF Fresh
  <2>2. /\ u \in Sessions \ overtaken /\ pc'[u] = pc[u] /\ view'[u] = view[u]
        /\ rules' = rules \/ ~RowChanged(u)
    BY <1>3, <2>1
  <2>3. view[u].id \in Rules /\ rules[view[u].id] = view[u].seen
    BY <2>1, <2>2 DEF Inv, Held, Fresh
  <2>4. QED
    BY <2>2, <2>3, NoneNoRule DEF RowChanged
<1>7. Placed'
  <2>1. SUFFICES ASSUME NEW u \in Sessions \ overtaken',
                        pc'[u] \in {"insert", "update"}
                 PROVE  Ordered(Simulated(rules', view'[u].id, view'[u].new))
    BY DEF Placed
  <2>2. /\ u \in Sessions \ overtaken /\ pc'[u] = pc[u] /\ view'[u] = view[u]
        /\ \/ rules' = rules
           \/ /\ ~RowChanged(u) /\ ~SupplierLost(u) /\ ~UserGained(u)
              /\ Ordered(rules')
    BY <1>3, <2>1
  <2>3. CASE rules' = rules
    BY <2>1, <2>2, <2>3 DEF Inv, Placed
  <2>4. CASE rules' # rules
    BY <2>1, <2>2, <2>4, PlacedKept
  <2>5. QED
    BY <2>3, <2>4
<1>8. Unneeded'
  <2>1. SUFFICES ASSUME NEW u \in Sessions \ overtaken', pc'[u] = "delete"
                 PROVE  \A q \in Rules \ {view'[u].id} :
                           rules'[q].active => view'[u].seen.code \notin Uses(rules'[q])
    BY DEF Unneeded
  <2>2. /\ u \in Sessions \ overtaken /\ pc'[u] = pc[u] /\ view'[u] = view[u]
        /\ rules' = rules \/ ~UserGained(u)
    BY <1>3, <2>1
  <2>3. CASE rules' = rules
    BY <2>1, <2>2, <2>3 DEF Inv, Unneeded
  <2>4. CASE rules' # rules
    BY <2>1, <2>2, <2>4, UnneededKept
  <2>5. QED
    BY <2>3, <2>4
<1>9. QED
  BY <1>4, <1>5, <1>6, <1>7, <1>8 DEF Inv

-----------------------------------------------------------------------------
(* Every step *)

LEMMA AwaitStep ==
  ASSUME Inv, NEW s \in Sessions, NEW step \in {"insert", "update", "delete"},
         NEW v \in View, Await(s, step, v),
         step = "insert" => v.id = None,
         step \in {"update", "delete"} => v.id \in Rules /\ v.seen \in Stored,
         step \in {"insert", "update"} => v.new \in Row /\ Complete(v.new),
         step \in {"update", "delete"} => rules[v.id] = v.seen,
         step \in {"insert", "update"} => Ordered(Simulated(rules, v.id, v.new)),
         step = "delete" => \A q \in Rules \ {v.id} :
            rules[q].active => v.seen.code \notin Uses(rules[q])
  PROVE  Inv'
<1>1. /\ pc' = [pc EXCEPT ![s] = step] /\ view' = [view EXCEPT ![s] = v]
      /\ rules' = rules /\ overtaken' = overtaken
  BY DEF Await
<1>2. /\ pc'[s] = step /\ view'[s] = v
      /\ \A u \in Sessions \ {s} : pc'[u] = pc[u] /\ view'[u] = view[u]
  BY <1>1 DEF Inv, TypeOK
<1>3. TypeOK'
  BY <1>1 DEF Inv, TypeOK
<1>4. KeysUnique'
  BY <1>1 DEF Inv, KeysUnique
<1>5. Held'
  BY <1>2 DEF Inv, Held
<1>6. Fresh'
  BY <1>1, <1>2 DEF Inv, Fresh
<1>7. Placed'
  <2>1. SUFFICES ASSUME NEW u \in Sessions \ overtaken,
                        pc'[u] \in {"insert", "update"}
                 PROVE  Ordered(Simulated(rules, view'[u].id, view'[u].new))
    BY <1>1 DEF Placed
  <2>2. CASE u = s
    BY <1>2, <2>1, <2>2
  <2>3. CASE u # s
    BY <1>2, <2>1, <2>3 DEF Inv, Placed
  <2>4. QED
    BY <2>2, <2>3
<1>8. Unneeded'
  BY <1>1, <1>2 DEF Inv, Unneeded
<1>9. QED
  BY <1>3, <1>4, <1>5, <1>6, <1>7, <1>8 DEF Inv

LEMMA CallStep ==
  ASSUME Inv, NEW s \in Sessions, Call(s)
  PROVE  Inv'
<1>1. ASSUME NEW row \in Row, CreateCheck(s, row)
      PROVE  Inv'
  <2> DEFINE v == [NoView EXCEPT !.new = row]
  <2>1. v \in View /\ v.id = None /\ v.new = row
    BY DEF NoView, View
  <2>2. /\ Await(s, "insert", v) /\ Complete(row)
        /\ Ordered(Simulated(rules, None, row))
    BY <1>1 DEF CreateCheck
  <2> HIDE DEF v
  <2>3. QED
    BY <2>1, <2>2, AwaitStep
<1>2. ASSUME NEW row \in Row, NEW r \in Rules, UpdateCheck(s, r, row)
      PROVE  Inv'
  <2> DEFINE v == [id |-> r, seen |-> rules[r], new |-> row]
  <2>1. rules[r] \in Stored
    BY <1>2 DEF UpdateCheck, Inv, TypeOK
  <2>2. v \in View /\ v.id = r /\ v.seen = rules[r] /\ v.new = row
    BY <2>1 DEF View
  <2>3. /\ Await(s, "update", v) /\ Complete(row)
        /\ Ordered(Simulated(rules, r, row))
    BY <1>2 DEF UpdateCheck
  <2> HIDE DEF v
  <2>4. QED
    BY <2>1, <2>2, <2>3, AwaitStep
<1>3. ASSUME NEW r \in Rules, DeleteCheck(s, r)
      PROVE  Inv'
  <2> DEFINE v == [NoView EXCEPT !.id = r, !.seen = rules[r]]
  <2>1. rules[r] \in Stored
    BY <1>3 DEF DeleteCheck, Inv, TypeOK
  <2>2. v \in View /\ v.id = r /\ v.seen = rules[r]
    BY <2>1 DEF NoView, View
  <2>3. Await(s, "delete", v)
    BY <1>3 DEF DeleteCheck
  <2>4. \A q \in Rules \ {r} :
           rules[q].active => rules[r].code \notin Uses(rules[q])
    BY <1>3, UsesMentioned DEF DeleteCheck
  <2> HIDE DEF v
  <2>5. QED
    BY <2>1, <2>2, <2>3, <2>4, AwaitStep
<1>4. QED
  BY <1>1, <1>2, <1>3 DEF Call

LEMMA InsertRow ==
  ASSUME Inv, NEW s \in Sessions, Insert(s)
  PROVE  /\ rules' \in Table /\ KeysUnique'
         /\ view[s].new \in Row /\ Complete(view[s].new) /\ view[s].id = None
         /\ \E r \in Rules : /\ rules[r] = NoRow
                             /\ rules' = [rules EXCEPT ![r] = view[s].new]
<1>1. PICK r \in Rules : /\ rules[r] = NoRow
                         /\ rules' = [rules EXCEPT ![r] = view[s].new]
  BY DEF Insert
<1>2. view[s].new \in Row /\ Complete(view[s].new) /\ view[s].id = None
  BY DEF Insert, Inv, Held
<1>3. rules' \in Table
  BY <1>1, <1>2, RowStored DEF Inv, TypeOK, Table
<1>4. /\ rules'[r] = view[s].new
      /\ \A q \in Rules \ {r} : rules'[q] = rules[q]
  BY <1>1 DEF Inv, TypeOK
<1>5. \A q \in Rules : rules[q] # NoRow =>
         rules[q].code # view[s].new.code /\ rules[q].seq # view[s].new.seq
  BY NoneNoRule DEF Insert, KeyFree
<1>6. KeysUnique'
  BY <1>4, <1>5 DEF Inv, KeysUnique
<1>7. QED
  BY <1>1, <1>2, <1>3, <1>6

LEMMA UpdateRow ==
  ASSUME Inv, NEW s \in Sessions, Update(s)
  PROVE  LET v == view[s]
         IN  /\ rules' \in Table /\ KeysUnique'
             /\ v.id \in Rules /\ v.seen \in Stored
             /\ v.new \in Row /\ Complete(v.new)
             /\ rules' = [rules EXCEPT ![v.id] = Flush(v.seen, v.new, rules[v.id])]
<1> DEFINE v == view[s]
           row == Flush(v.seen, v.new, rules[v.id])
<1>1. v.id \in Rules /\ v.seen \in Stored /\ v.new \in Row /\ Complete(v.new)
  BY DEF Update, Inv, Held
<1>2. rules[v.id] \in Stored
  BY <1>1 DEF Update, Inv, TypeOK
<1>3. row \in Stored
  BY <1>1, <1>2, FlushStored, RowStored
<1>4. rules' = [rules EXCEPT ![v.id] = row] /\ KeyFree(row, v.id)
  BY DEF Update
<1> HIDE DEF row, v
<1>5. rules' \in Table
  BY <1>1, <1>3, <1>4 DEF Inv, TypeOK, Table
<1>6. /\ rules'[v.id] = row
      /\ \A q \in Rules \ {v.id} : rules'[q] = rules[q]
  BY <1>1, <1>4 DEF Inv, TypeOK
<1>7. KeysUnique'
  BY <1>1, <1>4, <1>6 DEF Inv, KeysUnique, KeyFree
<1>8. QED
  BY <1>1, <1>4, <1>5, <1>7 DEF row, v

LEMMA DeleteRow ==
  ASSUME Inv, NEW s \in Sessions, Delete(s)
  PROVE  /\ rules' \in Table /\ KeysUnique'
         /\ view[s].id \in Rules /\ view[s].seen \in Stored
         /\ rules'[view[s].id] = NoRow
         /\ \A q \in Rules \ {view[s].id} : rules'[q] = rules[q]
<1>1. view[s].id \in Rules /\ view[s].seen \in Stored
  BY DEF Delete, Inv, Held
<1>2. rules' = [rules EXCEPT ![view[s].id] = NoRow]
  BY DEF Delete
<1>3. rules' \in Table
  BY <1>2 DEF Inv, TypeOK, Table
<1>4. /\ rules'[view[s].id] = NoRow
      /\ \A q \in Rules \ {view[s].id} : rules'[q] = rules[q]
  BY <1>1, <1>2 DEF Inv, TypeOK
<1>5. KeysUnique'
  BY <1>4 DEF Inv, KeysUnique
<1>6. QED
  BY <1>1, <1>3, <1>4, <1>5

LEMMA Inductive ==
  ASSUME Inv, [Next]_vars
  PROVE  Inv'
<1>1. ASSUME NEW s \in Sessions, Call(s)
      PROVE  Inv'
  BY <1>1, CallStep
<1>2. ASSUME NEW s \in Sessions, Insert(s)
      PROVE  Inv'
  BY <1>2, InsertRow, CommitStep DEF Insert
<1>3. ASSUME NEW s \in Sessions, Update(s)
      PROVE  Inv'
  <2>1. Commit(s)
    BY <1>3 DEF Update
  <2>2. rules' \in Table /\ KeysUnique'
    BY <1>3, UpdateRow
  <2>3. QED
    BY <2>1, <2>2, CommitStep
<1>4. ASSUME NEW s \in Sessions, Delete(s)
      PROVE  Inv'
  BY <1>4, DeleteRow, CommitStep DEF Delete
<1>5. ASSUME NEW s \in Sessions, Abort(s)
      PROVE  Inv'
  <2>1. Commit(s) /\ rules' = rules
    BY <1>5 DEF Abort
  <2>2. rules' \in Table /\ KeysUnique'
    BY <2>1 DEF Inv, TypeOK, KeysUnique, Table
  <2>3. QED
    BY <2>1, <2>2, CommitStep
<1>6. CASE UNCHANGED vars
  <2>1. /\ rules' = rules /\ pc' = pc /\ view' = view /\ overtaken' = overtaken
    BY <1>6 DEF vars
  <2>2. QED
    BY <2>1 DEF Inv, TypeOK, KeysUnique, Held, Fresh, Placed, Unneeded
<1>7. QED
  BY <1>1, <1>2, <1>3, <1>4, <1>5, <1>6 DEF Next

LEMMA Initially == Init => Inv
<1>1. SUFFICES ASSUME Init
               PROVE  Inv
  OBVIOUS
<1>2. TypeOK
  BY <1>1, NoViewType DEF Init, TypeOK
<1>3. KeysUnique /\ Held /\ Fresh /\ Placed /\ Unneeded
  BY <1>1 DEF Init, KeysUnique, Held, Fresh, Placed, Unneeded
<1>4. QED
  BY <1>2, <1>3 DEF Inv

LEMMA Always == Spec => []Inv
<1>1. Inv /\ [Next]_vars => Inv'
  BY Inductive
<1>2. QED
  BY Initially, <1>1, PTL DEF Spec

-----------------------------------------------------------------------------
(* Commits on ground that is not lost *)

LEMMA OrderedTable ==
  ASSUME NEW R \in Table
  PROVE  Ordered(R) <=> \A q \in Rules : R[q].active => \A x \in Uses(R[q]) :
            \E p \in Rules : R[p].active /\ R[p].code = x /\ R[p].seq < R[q].seq
  BY DEF Ordered, Supplied, Table

\* With row in the place of r, which is in it or was no rule, the rules are
\* what was simulated.
LEMMA Realised ==
  ASSUME NEW R \in Table, NEW S \in Table, NEW r \in Rules, NEW id, NEW row,
         Ordered(Simulated(R, id, row)),
         S[r] = row, \A q \in Rules \ {r} : S[q] = R[q],
         id = r \/ (id \notin Rules /\ R[r] = NoRow)
  PROVE  Ordered(S)
<1>1. /\ row.active => \A x \in Uses(row) : Fits(R, id, row, x, row.seq)
      /\ \A q \in Rules \ {id} : R[q].active =>
            \A x \in Uses(R[q]) : Fits(R, id, row, x, R[q].seq)
  BY OrderedSimulated
<1>2. ASSUME NEW x, NEW n, Fits(R, id, row, x, n)
      PROVE  \E p \in Rules : S[p].active /\ S[p].code = x /\ S[p].seq < n
  <2>1. CASE row.active /\ row.code = x /\ row.seq < n
    BY <2>1
  <2>2. CASE \E p \in Rules \ {id} : R[p].active /\ R[p].code = x /\ R[p].seq < n
    <3>1. PICK p \in Rules \ {id} : R[p].active /\ R[p].code = x /\ R[p].seq < n
      BY <2>2
    <3>2. p # r
      BY <3>1, NoRowInactive
    <3>3. QED
      BY <3>1, <3>2
  <2>3. QED
    BY <1>2, <2>1, <2>2 DEF Fits
<1>3. ASSUME NEW q \in Rules, S[q].active, NEW x \in Uses(S[q])
      PROVE  \E p \in Rules : S[p].active /\ S[p].code = x /\ S[p].seq < S[q].seq
  <2>1. CASE q = r
    BY <1>1, <1>2, <1>3, <2>1
  <2>2. CASE q # r
    BY <1>1, <1>2, <1>3, <2>2
  <2>3. QED
    BY <2>1, <2>2
<1>4. QED
  BY <1>3, OrderedTable

LEMMA InsertSafe ==
  ASSUME Inv, NEW s \in Sessions \ overtaken, Insert(s)
  PROVE  Ordered(rules') /\ (Computable(rules) => Computable(rules'))
<1>1. PICK r \in Rules : /\ rules[r] = NoRow
                         /\ rules' = [rules EXCEPT ![r] = view[s].new]
  BY InsertRow
<1>2. /\ rules' \in Table /\ rules \in Table
      /\ view[s].id = None /\ Complete(view[s].new)
  BY InsertRow DEF Inv, TypeOK, Table
<1>3. /\ rules'[r] = view[s].new
      /\ \A q \in Rules \ {r} : rules'[q] = rules[q]
  BY <1>1, <1>2 DEF Table
<1>4. Ordered(Simulated(rules, view[s].id, view[s].new))
  BY DEF Insert, Inv, Placed
<1>5. Ordered(rules')
  BY <1>1, <1>2, <1>3, <1>4, NoneNoRule, Realised
<1>6. Computable(rules) => Computable(rules')
  BY <1>2, <1>3, <1>5 DEF Computable, Table
<1>7. QED
  BY <1>5, <1>6

LEMMA UpdateSafe ==
  ASSUME Inv, NEW s \in Sessions \ overtaken, Update(s)
  PROVE  Ordered(rules') /\ (Computable(rules) => Computable(rules'))
<1> DEFINE v == view[s]
<1>1. /\ rules' \in Table /\ rules \in Table
      /\ v.id \in Rules /\ v.seen \in Stored /\ v.new \in Row /\ Complete(v.new)
      /\ rules' = [rules EXCEPT ![v.id] = Flush(v.seen, v.new, rules[v.id])]
  BY UpdateRow DEF Inv, TypeOK, Table
<1>2. rules[v.id] = v.seen /\ Ordered(Simulated(rules, v.id, v.new))
  BY DEF Update, Inv, Fresh, Placed
<1> HIDE DEF v
<1>3. Flush(v.seen, v.new, rules[v.id]) = v.new
  BY <1>1, <1>2, FlushFresh, RowStored
<1>4. /\ rules'[v.id] = v.new
      /\ \A q \in Rules \ {v.id} : rules'[q] = rules[q]
  BY <1>1, <1>3 DEF Table
<1>5. Ordered(rules')
  <2>1. rules' \in Table /\ rules \in Table /\ v.id \in Rules
    BY <1>1
  <2>2. QED
    BY <1>2, <1>4, <2>1, Realised, Zenon
<1>6. Computable(rules) => Computable(rules')
  BY <1>1, <1>4, <1>5 DEF Computable, Table
<1>7. QED
  BY <1>5, <1>6

LEMMA DeleteSafe ==
  ASSUME Inv, NEW s \in Sessions \ overtaken, Delete(s)
  PROVE  Computable(rules) => Computable(rules')
<1> DEFINE id == view[s].id
<1>1. /\ rules' \in Table /\ rules \in Table
      /\ id \in Rules /\ rules'[id] = NoRow
      /\ \A q \in Rules \ {id} : rules'[q] = rules[q]
  BY DeleteRow DEF Inv, TypeOK, Table
<1>2. /\ rules[id] = view[s].seen
      /\ \A q \in Rules \ {id} :
            rules[q].active => view[s].seen.code \notin Uses(rules[q])
  BY DEF Delete, Inv, Fresh, Unneeded
<1> HIDE DEF id
<1>3. SUFFICES ASSUME Computable(rules)
               PROVE  Computable(rules')
  OBVIOUS
<1>4. ASSUME NEW q \in Rules, rules'[q].active, NEW x \in Uses(rules'[q])
      PROVE  \E p \in Rules : /\ rules'[p].active /\ rules'[p].code = x
                              /\ rules'[p].seq < rules'[q].seq
  <2>1. q # id /\ rules'[q] = rules[q]
    BY <1>1, <1>4, NoRowInactive
  <2>2. PICK p \in Rules :
           rules[p].active /\ rules[p].code = x /\ rules[p].seq < rules[q].seq
    BY <1>1, <1>3, <1>4, <2>1, OrderedTable DEF Computable
  <2>3. p # id
    BY <1>2, <1>4, <2>1, <2>2
  <2>4. QED
    BY <1>1, <2>1, <2>2, <2>3
<1>5. Ordered(rules')
  BY <1>1, <1>4, OrderedTable
<1>6. QED
  BY <1>1, <1>3, <1>5, NoRowInactive DEF Computable, Table

\* What each property needs of one step.
LEMMA SafeStep ==
  ASSUME Inv, [Next]_vars
  PROVE  Safe
<1>1. ASSUME NEW s \in Sessions \ overtaken,
             NEW step \in {"insert", "update", "delete"}, Done(s, step)
      PROVE  /\ step = "insert" => Insert(s)
             /\ step = "update" => Update(s)
             /\ step = "delete" => Delete(s)
  <2>1. PICK t \in Sessions :
           Call(t) \/ Insert(t) \/ Update(t) \/ Delete(t) \/ Abort(t)
    BY <1>1 DEF Next, Done, vars
  <2>2. rules' # rules /\ pc'[s] # pc[s]
    BY <1>1 DEF Done
  <2>3. ~Call(t)
    BY <2>2 DEF Call, CreateCheck, UpdateCheck, DeleteCheck, Await
  <2>4. ~Abort(t)
    BY <2>2 DEF Abort
  <2>5. pc' = [pc EXCEPT ![t] = "idle"]
    BY <2>1, <2>3, <2>4 DEF Insert, Update, Delete, Commit
  <2>6. t = s
    BY <2>2, <2>5 DEF Inv, TypeOK
  <2>7. QED
    BY <1>1, <2>1, <2>3, <2>4, <2>6 DEF Insert, Update, Delete, Done
<1>2. SUFFICES ASSUME NEW s \in Sessions \ overtaken
               PROVE  /\ Done(s, "insert") \/ Done(s, "update") => Ordered(rules')
                      /\ Done(s, "insert") \/ Done(s, "update") \/ Done(s, "delete")
                            => (Computable(rules) => Computable(rules'))
  BY DEF Safe
<1>3. Done(s, "insert") => Insert(s)
  BY <1>1
<1>4. Done(s, "update") => Update(s)
  BY <1>1
<1>5. Done(s, "delete") => Delete(s)
  BY <1>1
<1>6. QED
  BY <1>3, <1>4, <1>5, InsertSafe, UpdateSafe, DeleteSafe
-----------------------------------------------------------------------------
\* Every row keeps its type, whatever columns overlapping updates merge.
THEOREM TypeCorrect == Spec => []TypeOK
<1>1. Inv => TypeOK
  BY DEF Inv
<1>2. QED
  BY Always, <1>1, PTL

\* A structure stops computing only by an edit that another has overtaken.
THEOREM StructureStaysComputable == Spec => StaysComputable
<1>1. Inv /\ [Next]_vars => [Safe]_vars
  BY SafeStep
<1>2. QED
  BY Always, <1>1, PTL DEF Spec, StaysComputable
-----------------------------------------------------------------------------
(* The symbol table of the calculation *)

\* The active rules at sequence n, and the table f with their symbols.
Here(n) == {r \in Rules : rules[r].active /\ rules[r].seq = n}

Extended(n, f) ==
    [x \in DOMAIN f \cup {rules[r].code : r \in Here(n)} |->
        IF \E r \in Here(n) : rules[r].code = x
        THEN CHOOSE r \in Here(n) : rules[r].code = x
        ELSE f[x]]

Seeds == [x \in Context |-> None]

\* Tables of symbols: partial functions on names.
Tables == UNION {[X -> Rules \cup {None}] : X \in SUBSET (Context \cup Codes)}

LEMMA ExtendedType ==
  ASSUME TypeOK, NEW n, NEW f \in Tables
  PROVE  Extended(n, f) \in Tables
<1> DEFINE X == DOMAIN f \cup {rules[r].code : r \in Here(n)}
<1>1. PICK Y \in SUBSET (Context \cup Codes) : f \in [Y -> Rules \cup {None}]
  BY DEF Tables
<1>2. \A r \in Here(n) : r \in Rules /\ rules[r].code \in Codes
  BY NoRowInactive DEF Here, TypeOK, Stored
<1>3. X \in SUBSET (Context \cup Codes)
  BY <1>1, <1>2
<1>4. \A x \in X : Extended(n, f)[x] \in Rules \cup {None}
  BY <1>1, <1>2 DEF Extended
<1>5. Extended(n, f) \in [X -> Rules \cup {None}]
  BY <1>4 DEF Extended
<1> QED  BY <1>3, <1>5 DEF Tables

\* The recursion has a solution: the first table holds the context, and each
\* table is the one before it with the rules of its sequence.
LEMMA SymbolsStep ==
  ASSUME TypeOK
  PROVE  \A n \in 0 .. MaxSequence :
            Symbols[n] = IF n = 0 THEN Seeds ELSE Extended(n, Symbols[n - 1])
<1> DEFINE h == [p \in Nat \X Tables |-> Extended(p[1], p[2])]
           Body(g) == [n \in 0 .. MaxSequence |->
                         IF n = 0 THEN Seeds ELSE Extended(n, g[n - 1])]
<1>1. Seeds \in Tables
  <2>1. Seeds \in [Context -> Rules \cup {None}]
    BY DEF Seeds
  <2> QED  BY <2>1 DEF Tables
<1>2. h \in [Nat \X Tables -> Tables]
  BY ExtendedType
<1>3. \A n \in Nat, f \in Tables : h[<<n, f>>] = Extended(n, f)
  OBVIOUS
<1> HIDE DEF h
<1>4. MaxSequence \in Nat
  BY RulesAssumption
<1> HIDE DEF Body
<1>5. PICK g \in [0 .. MaxSequence -> Tables] : Recurs(g, MaxSequence, Seeds, h)
  BY <1>1, <1>2, <1>4, NatRecursion
<1> USE DEF Body
<1>6. g = Body(g)
  <2> SUFFICES ASSUME NEW n \in 0 .. MaxSequence, n # 0
               PROVE  h[<<n, g[n - 1]>>] = Extended(n, g[n - 1])
    BY <1>5 DEF Recurs
  <2>1. n \in Nat /\ n - 1 \in 0 .. MaxSequence
    BY <1>4
  <2> QED  BY <1>3, <2>1
<1>7. Symbols = CHOOSE k : k = Body(k)
  BY DEF Symbols, Here, Extended, Seeds
<1> HIDE DEF Body
<1>8. Symbols = Body(Symbols)
  BY <1>6, <1>7
<1> QED  BY <1>8 DEF Body

\* After sequence n the table has the context and the codes of the active rules
\* so far, each with an active rule of that code.
TableAt(n) ==
    /\ Context \subseteq DOMAIN Symbols[n]
    /\ \A r \in Rules : rules[r].active /\ rules[r].seq <= n =>
          rules[r].code \in DOMAIN Symbols[n]
    /\ \A x \in DOMAIN Symbols[n] \ Context :
          LET r == Symbols[n][x] IN r \in Rules /\ rules[r].active /\ rules[r].code = x

LEMMA SymbolsOf ==
  ASSUME TypeOK
  PROVE  \A n \in 0 .. MaxSequence : TableAt(n)
<1> DEFINE G == {n \in Nat : n <= MaxSequence => TableAt(n)}
<1>0. MaxSequence \in Nat
  BY RulesAssumption
<1>1. 0 \in G
  <2>1. Symbols[0] = Seeds
    BY <1>0, SymbolsStep
  <2>2. \A r \in Rules : rules[r].active => rules[r].seq \in 1 .. MaxSequence
    BY NoRowInactive DEF TypeOK, Stored, Sequences
  <2> QED  BY <1>0, <2>1, <2>2 DEF Seeds, TableAt
<1>2. ASSUME NEW n \in Nat, n \in G PROVE n + 1 \in G
  <2> SUFFICES ASSUME n + 1 <= MaxSequence PROVE TableAt(n + 1)
    OBVIOUS
  <2>1. TableAt(n) /\ n + 1 \in 0 .. MaxSequence
    BY <1>0, <1>2
  <2> DEFINE f == Symbols[n]
             e == Symbols[n + 1]
             H == Here(n + 1)
  <2>2. e = Extended(n + 1, f)
    BY <2>1, SymbolsStep
  <2>3. /\ DOMAIN e = DOMAIN f \cup {rules[r].code : r \in H}
        /\ \A x \in DOMAIN e : e[x] = IF \E r \in H : rules[r].code = x
                                      THEN CHOOSE r \in H : rules[r].code = x
                                      ELSE f[x]
    BY <2>2 DEF Extended
  <2>4. \A r \in Rules : rules[r].active => rules[r].seq \in Int
    BY NoRowInactive DEF TypeOK, Stored, Sequences
  <2>5. \A r \in Rules : r \in H <=> rules[r].active /\ rules[r].seq = n + 1
    BY DEF Here
  <2>6. H \subseteq Rules
    BY DEF Here
  <2> HIDE DEF H, e, f
  <2>7. ASSUME NEW r \in Rules, rules[r].active, rules[r].seq <= n + 1
        PROVE  rules[r].code \in DOMAIN e
    <3>1. CASE rules[r].seq = n + 1
      BY <2>3, <2>5, <2>7, <3>1
    <3>2. CASE rules[r].seq # n + 1
      <4>1. rules[r].seq <= n
        BY <2>4, <2>7, <3>2
      <4> QED  BY <2>1, <2>3, <2>7, <4>1 DEF TableAt, f
    <3> QED  BY <3>1, <3>2
  <2>8. ASSUME NEW x \in DOMAIN e \ Context
        PROVE  e[x] \in Rules /\ rules[e[x]].active /\ rules[e[x]].code = x
    <3>1. CASE \E r \in H : rules[r].code = x
      <4>1. e[x] \in H /\ rules[e[x]].code = x
        BY <2>3, <2>8, <3>1
      <4> QED  BY <2>5, <2>6, <4>1
    <3>2. CASE ~\E r \in H : rules[r].code = x
      <4>1. x \in DOMAIN f \ Context /\ e[x] = f[x]
        BY <2>3, <2>8, <3>2
      <4> QED  BY <2>1, <4>1 DEF TableAt, f
    <3> QED  BY <3>1, <3>2
  <2>9. Context \subseteq DOMAIN e
    BY <2>1, <2>3 DEF TableAt, f
  <2> QED  BY <2>7, <2>8, <2>9 DEF TableAt, e
<1>3. Nat \subseteq G
  <2> HIDE DEF G
  <2> QED  BY <1>1, <1>2, Induction
<1> QED  BY <1>0, <1>3

\* A name that is not of the context must be supplied by an earlier rule.
LEMMA UsesOrContext ==
  ASSUME NEW row \in Stored, NEW x \in Names(row)
  PROVE  x \in Context \/ x \in Uses(row)
  BY DEF Uses

LEMMA Resolving == TypeOK => EngineResolves
<1> SUFFICES ASSUME TypeOK, Computable(rules), NEW r \in Rules, rules[r].active
             PROVE  Resolved(rules[r], Symbols[rules[r].seq - 1])
  BY DEF EngineResolves
<1> DEFINE n == rules[r].seq - 1
           f == Symbols[n]
<1>1. rules[r] \in Stored /\ rules[r].seq \in 1 .. MaxSequence /\ DOMAIN rules = Rules
  BY NoRowInactive DEF TypeOK, Stored, Sequences
<1>2. n \in 0 .. MaxSequence
  BY <1>1, RulesAssumption
<1>3. TableAt(n)
  BY <1>2, SymbolsOf
<1>4. ASSUME NEW x \in Names(rules[r])
      PROVE  x \in DOMAIN f /\ (x \notin Context => f[x] # None /\ rules[f[x]].code = x)
  <2>1. CASE x \in Context
    BY <1>3, <2>1 DEF TableAt
  <2>2. CASE x \notin Context
    <3>1. x \in Uses(rules[r])
      BY <1>1, <1>4, <2>2, UsesOrContext
    <3>2. PICK q \in Rules : rules[q].active /\ rules[q].code = x /\ rules[q].seq < rules[r].seq
      BY <1>1, <3>1 DEF Computable, Ordered, Supplied
    <3>3. rules[q].seq \in Int
      BY <3>2, NoRowInactive DEF TypeOK, Stored, Sequences
    <3>4. rules[q].seq <= n
      BY <1>1, <3>2, <3>3
    <3>5. x \in DOMAIN f \ Context
      BY <1>3, <2>2, <3>2, <3>4 DEF TableAt
    <3> QED  BY <1>3, <3>5, NoneNoRule DEF TableAt
  <2> QED  BY <2>1, <2>2
<1> QED  BY <1>4 DEF Resolved

\* Rules that pass the dependency check are evaluated without a name left over:
\* in ascending sequence every name of a rule has its value by the time the
\* rule comes, and what it takes for a code is an active rule of that code.
THEOREM SymbolsResolve == Spec => []EngineResolves
<1>1. Inv => EngineResolves
  BY Resolving DEF Inv
<1> QED  BY <1>1, Always, PTL
=============================================================================
