---------------------------- MODULE MCPeriodClose ----------------------------
(* Small instances of PeriodClose for TLC. *)
EXTENDS PeriodClose, TLC

Symmetry == Permutations(Request) \cup Permutations(Tx) \cup Permutations(Row) \cup Permutations(Amount)
==============================================================================
