---------------------------- MODULE MCBudgetEditor ----------------------------
(* Small instances of BudgetEditor for TLC, and the tables of Access. *)
EXTENDS BudgetEditor, Access
==============================================================================
