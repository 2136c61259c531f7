------------------------------ MODULE Payslips ------------------------------
(***************************************************************************)
(* The figures of a payslip (payroll_processing_service.py,                *)
(* salary_rule_engine.py) and of the preview of a salary structure         *)
(* (salary_structure_service.py), computed on the attendance records as    *)
(* they are.  Amounts are whole cents, worked days are counted in halves.  *)
(***************************************************************************)
EXTENDS Attendance, Sequences

Sets == INSTANCE FiniteSetsExt
Seqs == INSTANCE SequencesExt

CONSTANTS Leaves,       \* approved time off of the employee, unit days
          Wages,
          RuleLists     \* active rules of a structure, by sequence

Categories == {"BASIC", "ALLOWANCE", "GROSS", "DEDUCTION", "NET"}

\* FIXED is n cents, PERCENTAGE n percent of the first rule; of the formulas
\* there are WAGE, and PER_DAY for n * WORKED_DAYS.
Rule == [cat : Categories, how : {"FIXED", "PERCENTAGE", "WAGE", "PER_DAY"},
         n : Nat]

ASSUME PayslipsAssumption ==
    /\ \A leave \in Leaves : leave.from \in Dates /\ leave.to \in Dates
                             /\ leave.from <= leave.to
    /\ Wages \subseteq Nat
    /\ RuleLists \subseteq Seq(Rule)
-----------------------------------------------------------------------------
\* Faulty: the last day is not of the period.
WithinHalfOpen(first, last, date) == first <= date /\ date < last

Within(first, last, date) == first <= date /\ date <= last

Records_(e, first, last) ==
    {id \in Present : /\ attendance[id].emp = e
                      /\ Within(first, last, attendance[id].date)}

Halves(row) == CASE row.status \in {"PRESENT", "LATE"} -> 2
                 [] row.status = "HALF_DAY" -> 1
                 [] OTHER -> 0

\* aggregate_employee_attendance
Aggregate(e, first, last) ==
    LET ids == Records_(e, first, last)
        Total(Of(_)) == Sets!MapThenSumSet(LAMBDA id : Of(attendance[id]), ids)
    IN  [halves |-> Total(Halves),
         worked |-> Total(LAMBDA row : row.worked),
         over   |-> Total(LAMBDA row : row.over)]

\* What aggregate_employee_time_off adds up for the period, each in full.
Counted(first, last) ==
    {leave \in Leaves : leave.from <= last /\ leave.to >= first}

\* The engine is given whole days: int(worked_days).
WholeDays(halves) == halves \div 2

\* Faulty: cut, not rounded.
PercentCut(n, base) == (base * n) \div 100

\* ROUND_HALF_UP to the cent.
Percent(n, base) == (base * n * 2 + 100) \div 200

\* The amount of a rule; base is that of the first one.
Amount(rule, base, wage, days) ==
    CASE rule.how = "FIXED"      -> rule.n
      [] rule.how = "WAGE"       -> wage
      [] rule.how = "PER_DAY"    -> rule.n * days
      [] rule.how = "PERCENTAGE" -> Percent(rule.n, base)

\* SalaryRuleEngine.calculate
Calculate(rules, wage, days) ==
    LET base == Amount(rules[1], 0, wage, days)
    IN  [i \in DOMAIN rules |->
            [cat |-> rules[i].cat, amount |-> Amount(rules[i], base, wage, days)]]

NoTotals == [gross |-> 0, deduction |-> 0, net |-> 0,
             explicitGross |-> FALSE, explicitNet |-> FALSE]

\* Faulty: what comes after a GROSS rule is added to it.
AddLineToGross(totals, line) ==
    CASE line.cat = "GROSS" ->
           [totals EXCEPT !.gross = line.amount, !.explicitGross = TRUE]
      [] line.cat \in {"BASIC", "ALLOWANCE"} ->
           [totals EXCEPT !.gross = @ + line.amount]
      [] line.cat = "DEDUCTION" -> [totals EXCEPT !.deduction = @ + line.amount]
      [] line.cat = "NET" ->
           [totals EXCEPT !.net = line.amount, !.explicitNet = TRUE]

\* One turn of the loop of calculate_and_generate_payslip.
AddLine(totals, line) ==
    CASE line.cat = "GROSS" ->
           [totals EXCEPT !.gross = line.amount, !.explicitGross = TRUE]
      [] line.cat \in {"BASIC", "ALLOWANCE"} ->
           [totals EXCEPT !.gross = IF totals.explicitGross THEN @
                                    ELSE @ + line.amount]
      [] line.cat = "DEDUCTION" -> [totals EXCEPT !.deduction = @ + line.amount]
      [] line.cat = "NET" ->
           [totals EXCEPT !.net = line.amount, !.explicitNet = TRUE]

Totals(lines) ==
    LET all == Seqs!FoldLeft(AddLine, NoTotals, lines)
    IN  [gross |-> all.gross, deduction |-> all.deduction,
         net |-> IF all.explicitNet THEN all.net ELSE all.gross - all.deduction]

Payslip(e, first, last, wage, rules) ==
    Totals(Calculate(rules, wage, WholeDays(Aggregate(e, first, last).halves)))

SumOf(cats, lines) ==
    Sets!MapThenSumSet(LAMBDA i : lines[i].amount,
                       {i \in DOMAIN lines : lines[i].cat \in cats})

\* The amount of the last line of the category; 0 if there is none.
LastOf(cat, lines) ==
    LET at == {i \in DOMAIN lines : lines[i].cat = cat}
    IN  IF at = {} THEN 0 ELSE lines[Sets!Max(at)].amount

\* Faulty: the amount is taken as it is, zero or not.
OrElseNever(amount, fallback) == amount

OrElse(amount, fallback) == IF amount = 0 THEN fallback ELSE amount

\* preview_structure for the figures of the payslip.
Preview(e, first, last, wage, rules) ==
    LET lines == Calculate(rules, wage, WholeDays(Aggregate(e, first, last).halves))
        gross == OrElse(LastOf("GROSS", lines), SumOf({"BASIC", "ALLOWANCE"}, lines))
    IN  [gross |-> gross,
         net   |-> OrElse(LastOf("NET", lines),
                          gross - SumOf({"DEDUCTION"}, lines))]
-----------------------------------------------------------------------------
(* Payroll reads committed rows: what it computes is looked at when nothing *)
(* is on its way.                                                           *)
Quiet == \A s \in Sessions : pc[s] = "idle"

Periods == {p \in Dates \X Dates : p[1] <= p[2]}

\* Payroll periods that meet, neither overlapping nor leaving a day out, share
\* the attendance of the whole between them: no day is paid twice or lost.
\* Time off is different: what reaches over the end of a period is in both.
PeriodsAddUp == Quiet =>
    \A e \in Employees, p \in Periods, day \in Dates :
        p[1] <= day /\ day < p[2] =>
           LET a == Aggregate(e, p[1], day)
               b == Aggregate(e, day + 1, p[2])
           IN  /\ Aggregate(e, p[1], p[2]) =
                     [f \in DOMAIN a |-> a[f] + b[f]]
               /\ Counted(p[1], day) \cap Counted(day + 1, p[2]) =
                     {leave \in Leaves : leave.from <= day /\ day < leave.to}

HasCategory(cat, rules) == \E i \in DOMAIN rules : rules[i].cat = cat

\* The totals are those of a reference that looks at categories and not at the
\* order of the rules: the last GROSS rule stands for all BASIC and ALLOWANCE
\* rules before and after it, the last NET rule for the difference, and all
\* deductions count.
TotalsByCategory == Quiet =>
    \A e \in Employees, wage \in Wages, rules \in RuleLists, day \in Dates :
        LET lines == Calculate(rules, wage, WholeDays(Aggregate(e, day, day).halves))
            slip  == Payslip(e, day, day, wage, rules)
        IN  /\ slip.gross = IF HasCategory("GROSS", rules) THEN LastOf("GROSS", lines)
                            ELSE SumOf({"BASIC", "ALLOWANCE"}, lines)
            /\ slip.deduction = SumOf({"DEDUCTION"}, lines)
            /\ slip.net = IF HasCategory("NET", rules) THEN LastOf("NET", lines)
                          ELSE slip.gross - slip.deduction

\* "Preview the salary computation": on the figures of the employee it shows
\* what the payslip will have, except where a GROSS or NET rule comes to zero.
PreviewAgrees == Quiet =>
    \A e \in Employees, wage \in Wages, rules \in RuleLists, day \in Dates :
        LET lines   == Calculate(rules, wage, WholeDays(Aggregate(e, day, day).halves))
            slip    == Payslip(e, day, day, wage, rules)
            preview == Preview(e, day, day, wage, rules)
        IN  \/ preview = [gross |-> slip.gross, net |-> slip.net]
            \/ \E cat \in {"GROSS", "NET"} :
                  HasCategory(cat, rules) /\ LastOf(cat, lines) = 0

\* Percentages of the first rule, rounded one by one, keep to it: deductions
\* that make up the whole of it leave a net of at most half a cent for each of
\* them, above zero or below, where it blocks the payrun.
SharesFit == Quiet =>
    \A e \in Employees, wage \in Wages, rules \in RuleLists, day \in Dates :
        LET rest == Tail(rules)
            n(i) == rest[i].n
            slip == Payslip(e, day, day, wage, rules)
        IN  /\ rules # <<>>
            /\ rules[1] = [cat |-> "BASIC", how |-> "WAGE", n |-> 0]
            /\ \A i \in DOMAIN rest : /\ rest[i].cat = "DEDUCTION"
                                      /\ rest[i].how = "PERCENTAGE"
            /\ Sets!MapThenSumSet(n, DOMAIN rest) = 100
            => slip.net * 2 \in -Len(rest) .. Len(rest)
=============================================================================
