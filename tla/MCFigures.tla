------------------------------ MODULE MCFigures ------------------------------
(* A small instance of Figures for TLC: two fiscal years with an open period  *)
(* beside the one that is active; sales, purchases, a credit note, and an     *)
(* account that the organisation and the shared rows map in two ways.  Amounts *)
(* have halves of a unit, which the charts round.                            *)
EXTENDS Figures

P1 == <<1, 1>>
P4 == <<1, 4>>
Q2 == <<2, 2>>

MCPeriod == {P1, P4, Q2}
MCMonth  == 4
MCRank   == [sales |-> 1, ops |-> 2]

Tx(id, period, account, department, amount) ==
  [id |-> id, period |-> period, account |-> account, department |-> department, amount |-> amount]

MCTxs == {Tx(1, P1, "701000", "sales", 10050), Tx(2, P1, "601000", "ops", -9550),
          Tx(3, P4, "706000", "sales", 20000), Tx(4, P4, "706000", "sales", -5050)}

MCPlans == {[id |-> 1, period |-> P1, dir |-> "IN", type |-> "CLIENT", amount |-> 6000]}

Line(id, reference, period, account, department, label, amount) ==
  [id |-> id, reference |-> reference, period |-> period, account |-> account, department |-> department,
   label |-> label, amount |-> amount]

MCLines == {Line(1, TRUE, P1, "701000", "sales", "Ventes", 12000), Line(2, TRUE, P4, "706000", "sales", "Ventes", 15000),
            Line(3, TRUE, P4, "601000", "ops", "Achats", 5000), Line(4, FALSE, P4, "601000", "ops", "Achats", 4500),
            Line(5, TRUE, P1, "601000", "ops", "Achats", 4000)}

\* The second year has no indicators.
MCCalculated == {P1, P4}

\* The exact row of all organisations comes before the family of one.
MCMappings ==
  {[org |-> System, prefix |-> "706000", mapping |-> Mapping("INCOME_STATEMENT", "REVENUE", "INCOME_REVENUE", "none")],
   [org |-> "org",  prefix |-> "706",    mapping |-> Mapping("OFF_BALANCE", "OFF_BALANCE", "MEMO_ONLY", "none")]}
==============================================================================
