--------------------------- MODULE PayrollLedger ---------------------------
(***************************************************************************)
(* What a payrun promises to the people who are paid by it, with one       *)
(* request at a time: each payrun goes DRAFT -> COMPUTED -> VALIDATED ->   *)
(* PAID or is voided on the way, its figures move only before validation,  *)
(* a PAID payrun is final, and nobody is paid twice for the period.        *)
(***************************************************************************)
EXTENDS Integers

CONSTANTS Payruns, Employees, Amounts

VARIABLES status,   \* of each payrun
          member,   \* the employees with a payslip in it
          figure,   \* the net of each payslip
          paidBy    \* the payruns that paid an employee

ledger == <<status, member, figure, paidBy>>

Open    == {"DRAFT", "COMPUTED", "VALIDATED"}
Claimed == {e \in Employees :
               \E r \in Payruns : status[r] \in Open \cup {"PAID"} /\ e \in member[r]}

LInit == /\ status = [r \in Payruns |-> "ABSENT"]
         /\ member = [r \in Payruns |-> {}]
         /\ figure = [r \in Payruns |-> [e \in Employees |-> 0]]
         /\ paidBy = [e \in Employees |-> {}]

\* A payrun is drawn up for employees no standing payrun has a claim on.
DrawUp(r) ==
    /\ status[r] = "ABSENT"
    /\ status' = [status EXCEPT ![r] = "DRAFT"]
    /\ \E chosen \in (SUBSET (Employees \ Claimed)) \ {{}} :
          member' = [member EXCEPT ![r] = chosen]
    /\ UNCHANGED <<figure, paidBy>>

\* One payslip is calculated or calculated again.
Calculate(r) ==
    /\ status[r] \in {"DRAFT", "COMPUTED"}
    /\ \E e \in member[r], a \in Amounts :
          figure' = [figure EXCEPT ![r][e] = a]
    /\ UNCHANGED <<status, member, paidBy>>

Present(r) == /\ status[r] = "DRAFT"
              /\ status' = [status EXCEPT ![r] = "COMPUTED"]
              /\ UNCHANGED <<member, figure, paidBy>>

\* Nobody may owe the company money when the payrun is approved.
Approve(r) == /\ status[r] = "COMPUTED"
              /\ \A e \in member[r] : figure[r][e] >= 0
              /\ status' = [status EXCEPT ![r] = "VALIDATED"]
              /\ UNCHANGED <<member, figure, paidBy>>

Settle(r) == /\ status[r] = "VALIDATED"
             /\ \A e \in member[r] : paidBy[e] = {}
             /\ status' = [status EXCEPT ![r] = "PAID"]
             /\ paidBy' = [e \in Employees |->
                             IF e \in member[r] THEN {r} ELSE paidBy[e]]
             /\ UNCHANGED <<member, figure>>

Void(r) == /\ status[r] \in Open
           /\ status' = [status EXCEPT ![r] = "CANCELLED"]
           /\ UNCHANGED <<member, figure, paidBy>>

Erase(r) == /\ status[r] \in {"DRAFT", "CANCELLED"}
            /\ status' = [status EXCEPT ![r] = "DELETED"]
            /\ member' = [member EXCEPT ![r] = {}]
            /\ figure' = [figure EXCEPT ![r] = [e \in Employees |-> 0]]
            /\ UNCHANGED paidBy

LNext == \E r \in Payruns :
            DrawUp(r) \/ Calculate(r) \/ Present(r) \/ Approve(r)
               \/ Settle(r) \/ Void(r) \/ Erase(r)

LSpec == LInit /\ [][LNext]_ledger
=============================================================================
