---------------------------- MODULE SalaryRules ----------------------------
(***************************************************************************)
(* The rules of one salary structure: creation, update and deletion        *)
(* (salary_rule_service.py), the dependency check they share with the      *)
(* calculation, and the symbol table of the calculation                    *)
(* (salary_rule_engine.py).                                                *)
(*                                                                         *)
(* A payslip is computed only if every active rule refers to active rules  *)
(* evaluated before it.  Each handler verifies that for the rules it has   *)
(* read together with the one it is about to write, and the database keeps *)
(* codes and sequences apart, but nothing keeps two verified edits from    *)
(* breaking the structure together.                                        *)
(***************************************************************************)
EXTENDS Integers, FiniteSets

CONSTANTS Rules,             \* primary keys
          Codes,             \* rule codes that can be asked for
          Context,           \* names the engine seeds: WAGE, WORKED_DAYS, ...
          Kinds,             \* computation types that can be asked for
          Bases, Formulas,   \* likewise; a formula is the set of its names
          MaxSequence,       \* the schema's 9999
          MaxChanges,        \* bound: parts of a rule one update changes
          Sessions,
          None

ASSUME RulesAssumption ==
    /\ MaxSequence \in Nat
    /\ Kinds \subseteq {"FIXED", "PERCENTAGE", "FORMULA"}
    /\ None \notin Codes \cup Rules
    /\ \A f \in Formulas : f # None => None \notin f

VARIABLES rules,      \* salary_rules of the structure
          pc,         \* what the session has still to write
          view,       \* what it read, and what it will write
          overtaken   \* history: sessions whose decision has lost its ground

vars == <<rules, pc, view, overtaken>>
-----------------------------------------------------------------------------
Sequences == 1 .. MaxSequence

Stored == [active : BOOLEAN, code : Codes, seq : Sequences, kind : Kinds,
           base : Bases \cup {None}, formula : Formulas \cup {None}]
NoRow  == [active |-> FALSE]

\* What a request leaves of the columns that other kinds use.
Row == {row \in Stored : /\ row.kind # "PERCENTAGE" => row.base = None
                         /\ row.kind # "FORMULA" => row.formula = None}

View   == [id : Rules \cup {None}, seen : Stored \cup {NoRow},
           new : Row \cup {NoRow}]
NoView == [id |-> None, seen |-> NoRow, new |-> NoRow]

TypeOK == /\ rules \in [Rules -> Stored \cup {NoRow}]
          /\ pc \in [Sessions -> {"idle", "insert", "update", "delete"}]
          /\ view \in [Sessions -> View]
          /\ overtaken \in SUBSET Sessions

Init == /\ rules = [r \in Rules |-> NoRow]
        /\ pc = [s \in Sessions |-> "idle"]
        /\ view = [s \in Sessions |-> NoView]
        /\ overtaken = {}
-----------------------------------------------------------------------------
(* The check of the dependencies. *)

\* The names a rule refers to.
Names(row) == CASE row.kind = "PERCENTAGE" /\ row.base # None -> {row.base}
                [] row.kind = "FORMULA" /\ row.formula # None -> row.formula
                [] OTHER -> {}

\* Those that must be codes of rules: in a formula the context is available.
Uses(row) == IF row.kind = "FORMULA" THEN Names(row) \ Context ELSE Names(row)

\* Faulty: a rule may come at the same sequence as what it uses: be that.
SuppliedOrSelf(R, x, seq) ==
    \E r \in DOMAIN R : R[r].active /\ R[r].code = x /\ R[r].seq <= seq

Supplied(R, x, seq) ==
    \E r \in DOMAIN R : R[r].active /\ R[r].code = x /\ R[r].seq < seq

\* What detect_circular_dependencies accepts of the rules R.  The search for
\* cycles that follows finds none, as sequences decrease along every path.
Ordered(R) == \A r \in DOMAIN R :
    R[r].active => \A x \in Uses(R[r]) : Supplied(R, x, R[r].seq)

\* The columns the kind requires are there.
Complete(row) == /\ row.kind = "PERCENTAGE" => row.base # None
                 /\ row.kind = "FORMULA" => row.formula # None

\* The calculation with the rules R does not raise.
Computable(R) ==
    Ordered(R) /\ \A r \in DOMAIN R : R[r].active => Complete(R[r])

\* The rules with row as rule r; with None for r, as one rule more.
Simulated(R, r, row) ==
    [q \in DOMAIN R \cup {r} |-> IF q = r THEN row ELSE R[q]]

\* get_rule_by_structure_and_code and the like; inactive rules count.
KeyFree(row, self) == \A r \in Rules \ {self} : rules[r] # NoRow =>
    rules[r].code # row.code /\ rules[r].seq # row.seq
-----------------------------------------------------------------------------
Await(s, step, v) == /\ pc' = [pc EXCEPT ![s] = step]
                     /\ view' = [view EXCEPT ![s] = v]
                     /\ UNCHANGED <<rules, overtaken>>

CreateCheck(s, row) ==
    /\ Complete(row)
    /\ KeyFree(row, None)
    /\ Ordered(Simulated(rules, None, row))
    /\ Await(s, "insert", [NoView EXCEPT !.new = row])

\* The parts of a rule in which two rows differ.
Changes(old, new) ==
    {part \in {{"code"}, {"seq"}, {"active"}, {"kind", "base", "formula"}} :
        \E col \in part : old[col] # new[col]}

\* new has the columns of the request, the others as read.
UpdateCheck(s, r, new) ==
    /\ rules[r] # NoRow
    /\ Complete(new)
    /\ Cardinality(Changes(rules[r], new)) \in 1 .. MaxChanges
    /\ KeyFree(new, r)
    /\ Ordered(Simulated(rules, r, new))
    /\ Await(s, "update", [id |-> r, seen |-> rules[r], new |-> new])

\* Faulty: only formulas are looked at.
MentionedInFormula(row, x) == row.kind = "FORMULA" /\ x \in Names(row)

Mentioned(row, x) == x \in Names(row)

DeleteCheck(s, r) ==
    /\ rules[r] # NoRow
    /\ \A q \in Rules \ {r} :
          rules[q].active => ~Mentioned(rules[q], rules[r].code)
    /\ Await(s, "delete", [NoView EXCEPT !.id = r, !.seen = rules[r]])
-----------------------------------------------------------------------------
\* What the new rule of s uses is no longer where s found it.
SupplierLost(s) == \E r \in Rules \ {view[s].id} :
    /\ pc[s] \in {"insert", "update"} /\ view[s].new.active
    /\ rules[r].active /\ rules[r].code \in Uses(view[s].new)
    /\ \/ ~rules'[r].active
       \/ rules'[r].code # rules[r].code
       \/ rules'[r].seq # rules[r].seq

\* A rule has come to use, where it stands now, the one s will change.
UserGained(s) == \E r \in Rules \ {view[s].id} :
    /\ pc[s] \in {"update", "delete"}
    /\ rules'[r].active /\ view[s].seen.code \in Uses(rules'[r])
    /\ \/ ~rules[r].active
       \/ view[s].seen.code \notin Uses(rules[r])
       \/ rules'[r].seq # rules[r].seq

RowChanged(s) == view[s].id # None /\ rules'[view[s].id] # rules[view[s].id]

\* The commit of s, in which rules' has been said: it overtakes those that
\* decided on what it changes, and all if it has broken the structure.
Commit(s) ==
    /\ pc' = [pc EXCEPT ![s] = "idle"]
    /\ view' = [view EXCEPT ![s] = NoView]
    /\ overtaken' = {u \in Sessions \ {s} :
          \/ u \in overtaken
          \/ /\ pc[u] # "idle" /\ rules' # rules
             /\ \/ RowChanged(u) \/ SupplierLost(u) \/ UserGained(u)
                \/ ~Ordered(rules')}

\* The unique constraints on code and sequence refuse anything else.  Keys
\* are not used twice.
Insert(s) ==
    /\ pc[s] = "insert"
    /\ KeyFree(view[s].new, None)
    /\ \E r \in Rules : /\ rules[r] = NoRow
                        /\ \A u \in Sessions : view[u].id # r
                        /\ rules' = [rules EXCEPT ![r] = view[s].new]
    /\ Commit(s)

\* Faulty: columns the request does not name are set to null.
FlushUnset(seen, new, now) ==
    [col \in DOMAIN now |-> IF new[col] # seen[col] THEN new[col] ELSE None]

\* An UPDATE sets the columns the session has changed and no other.
Flush(seen, new, now) ==
    [col \in DOMAIN now |-> IF new[col] # seen[col] THEN new[col] ELSE now[col]]

Update(s) ==
    LET v == view[s]  row == Flush(v.seen, v.new, rules[v.id])
    IN  /\ pc[s] = "update"
        /\ rules[v.id] # NoRow
        /\ KeyFree(row, v.id)
        /\ rules' = [rules EXCEPT ![v.id] = row]
        /\ Commit(s)

\* A DELETE that finds no row passes with a warning.
Delete(s) == /\ pc[s] = "delete"
             /\ rules' = [rules EXCEPT ![view[s].id] = NoRow]
             /\ Commit(s)

\* The handler fails, at a constraint for one, or its process dies.
Abort(s) == /\ pc[s] # "idle"
            /\ UNCHANGED rules
            /\ Commit(s)

Call(s) == /\ pc[s] = "idle"
           /\ \/ \E row \in Row : \/ CreateCheck(s, row)
                                  \/ \E r \in Rules : UpdateCheck(s, r, row)
              \/ \E r \in Rules : DeleteCheck(s, r)

Next == \E s \in Sessions :
    Call(s) \/ Insert(s) \/ Update(s) \/ Delete(s) \/ Abort(s)

Spec == Init /\ [][Next]_vars
-----------------------------------------------------------------------------
(* The symbol table of the calculation. *)

\* What each name stands for once the rules up to sequence n are evaluated:
\* a rule, or None for a value of the context.
Symbols == LET symbols[n \in 0 .. MaxSequence] ==
                 IF n = 0 THEN [x \in Context |-> None]
                 ELSE LET here == {r \in Rules : /\ rules[r].active
                                                 /\ rules[r].seq = n}
                          code(r) == rules[r].code
                      IN  [x \in DOMAIN symbols[n - 1] \cup {code(r) : r \in here} |->
                             IF \E r \in here : code(r) = x
                             THEN CHOOSE r \in here : code(r) = x
                             ELSE symbols[n - 1][x]]
           IN  symbols

\* The loop over the rules never meets a name it has no value for, and what
\* it takes for a code is the value of the active rule of that code: the
\* check done before it (salary_rule_engine.py) is enough for the evaluation
\* in ascending sequence.  "Dependencies must have a strictly lower sequence."
Resolved(row, symbols) == \A x \in Names(row) :
    /\ x \in DOMAIN symbols
    /\ x \notin Context => symbols[x] # None /\ rules[symbols[x]].code = x
EngineResolves ==
    LET symbols == Symbols
    IN  Computable(rules) => \A r \in Rules :
           rules[r].active => Resolved(rules[r], symbols[rules[r].seq - 1])

\* The commit that s was about to make.
Done(s, step) == pc[s] = step /\ pc'[s] = "idle" /\ rules' # rules

\* A structure that computes keeps computing, and creation and update leave
\* every active rule after the rules it uses even if it was not, unless
\* another request's commit has come in between and changed what the edit had
\* looked at.  (DATABASE_SCHEMA.md, rule 20, says that references are to
\* earlier rules of the structure, without exception.)
Safe == \A s \in Sessions \ overtaken :
    /\ Done(s, "insert") \/ Done(s, "update") => Ordered(rules')
    /\ Done(s, "insert") \/ Done(s, "update") \/ Done(s, "delete") =>
          (Computable(rules) => Computable(rules'))
StaysComputable == [][Safe]_vars
=============================================================================
