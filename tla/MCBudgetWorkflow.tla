--------------------------- MODULE MCBudgetWorkflow ---------------------------
(* Small instances of BudgetWorkflow for TLC. *)
EXTENDS BudgetWorkflow, TLC

AllOps       == Op \ {"none"}
ReferenceOps == {"create", "updateLines", "submit", "approve", "lock", "setReference"}

Symmetry == Permutations(Request) \cup Permutations(Budget)
==============================================================================
