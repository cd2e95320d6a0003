--------------------------- MODULE BudgetLifecycle ---------------------------
(***************************************************************************)
(* The budget workflow as the product documents it: every budget walks     *)
(*                                                                         *)
(*    DRAFT -> SUBMITTED -> APPROVED -> LOCKED                             *)
(*                       \> REJECTED -> SUBMITTED                          *)
(*                                                                         *)
(* one whole transition at a time.  Lines change only while the budget is  *)
(* DRAFT or REJECTED, only a budget with a total other than zero is        *)
(* approved, a LOCKED budget is final and only a LOCKED budget may be the  *)
(* reference of its fiscal year.  BudgetWorkflow is the implementation,    *)
(* whose handlers read, check and write in separate database calls.        *)
(***************************************************************************)
EXTENDS Integers

CONSTANTS
  Budget,      \* budget identifiers of one organisation
  FiscalYear,  \* fiscal years of the organisation
  Line,        \* budget line identifiers
  Amount,      \* amounts a line may carry
  NoLine,      \* the line does not exist
  NoYear,      \* the fiscal year of a budget that was never created
  Total(_)     \* the total amount of the lines of a budget

VARIABLES
  status,      \* status[b]: budgets.status, or that there is no such row
  fiscalYear,  \* fiscalYear[b]: budgets.fiscal_year_id
  lines,       \* lines[b][l]: budget_lines.amount_budget, or NoLine
  isReference  \* isReference[b]: budgets.is_reference

vars == <<status, fiscalYear, lines, isReference>>

LegalStatus == {"DRAFT", "SUBMITTED", "APPROVED", "REJECTED", "LOCKED"}
RowState    == LegalStatus \cup {"UNUSED", "DELETED"}
Editable    == {"DRAFT", "REJECTED"}
Deletable   == {"DRAFT", "SUBMITTED", "REJECTED"}

Lines   == [Line -> Amount \cup {NoLine}]
NoLines == [l \in Line |-> NoLine]

------------------------------------------------------------------------------
Init ==
  /\ status      = [b \in Budget |-> "UNUSED"]
  /\ fiscalYear  = [b \in Budget |-> NoYear]
  /\ lines       = [b \in Budget |-> NoLines]
  /\ isReference = [b \in Budget |-> FALSE]

Move(b, from, to) ==
  /\ status[b] \in from
  /\ status' = [status EXCEPT ![b] = to]
  /\ UNCHANGED <<fiscalYear, lines, isReference>>

Submit(b)  == Move(b, Editable, "SUBMITTED")
Approve(b) == Move(b, {"SUBMITTED"}, "APPROVED") /\ Total(lines[b]) # 0
Reject(b)  == Move(b, {"SUBMITTED"}, "REJECTED")
Lock(b)    == Move(b, {"APPROVED"}, "LOCKED") /\ Total(lines[b]) # 0

Create(b, y) ==
  /\ status[b] = "UNUSED"
  /\ status' = [status EXCEPT ![b] = "DRAFT"]
  /\ fiscalYear' = [fiscalYear EXCEPT ![b] = y]
  /\ UNCHANGED <<lines, isReference>>

Delete(b) ==
  /\ status[b] \in Deletable
  /\ status' = [status EXCEPT ![b] = "DELETED"]
  /\ lines' = [lines EXCEPT ![b] = NoLines]
  /\ UNCHANGED <<fiscalYear, isReference>>

EditLines(b) ==
  /\ status[b] \in Editable
  /\ \E ls \in Lines : lines' = [lines EXCEPT ![b] = ls]
  /\ UNCHANGED <<status, fiscalYear, isReference>>

\* The reference of a fiscal year is changed in two steps: none, then another.
DropReference(y) ==
  /\ isReference' = [b \in Budget |-> isReference[b] /\ fiscalYear[b] # y]
  /\ UNCHANGED <<status, fiscalYear, lines>>

TakeReference(b) ==
  /\ status[b] = "LOCKED"
  /\ \A c \in Budget : fiscalYear[c] = fiscalYear[b] => ~isReference[c]
  /\ isReference' = [isReference EXCEPT ![b] = TRUE]
  /\ UNCHANGED <<status, fiscalYear, lines>>

Next ==
  \/ \E b \in Budget :
       \/ Submit(b) \/ Approve(b) \/ Reject(b) \/ Lock(b)
       \/ Delete(b) \/ EditLines(b) \/ TakeReference(b)
  \/ \E y \in FiscalYear : DropReference(y) \/ \E b \in Budget : Create(b, y)

Spec == Init /\ [][Next]_vars
==============================================================================
