-------------------------- MODULE ScenarioProjection --------------------------
(***************************************************************************)
(* The figures of a scenario: calculateSnapshotFromBudget                  *)
(* (scenarios.repository.ts) projects the hypotheses on the lines of the    *)
(* budget, all at once on the totals (GLOBAL) or one after the other on the *)
(* accounts each one targets (COMPTES_CIBLES).  The calculation service has *)
(* the second way too (scenario_engine.py).                                 *)
(*                                                                         *)
(* A list of hypotheses is a sequence of [parameter, value, unit].  Values   *)
(* are hundredths; amounts are in units of 1/10000, exact for the whole      *)
(* percentages of the instance, and figures are rounded to hundredths.       *)
(***************************************************************************)
EXTENDS ScenarioWorkflow, Codes, FiniteSetsExt

CONSTANT Lines   \* the lines of the base budget: id, type, account, amount

ASSUME ProjectionAssumption ==
  /\ NoHypotheses = <<>>
  /\ Hypotheses \subseteq Seq([parameter : STRING, value : Int, unit : STRING])
  /\ IsFiniteSet(Lines)
  /\ \A l \in Lines : l.type \in {"REVENUE", "EXPENSE", "CAPEX"} /\ l.amount \in Nat

Unit(amount) == 10000 * amount
Floor(n)     == IF n < 0 THEN 0 ELSE n
Rated(n, rate) == n + (n \div 10000) * rate            \* the rate is in hundredths of a percent
Money(n) == IF n < 0 THEN -((50 - n) \div 100) ELSE (n + 50) \div 100

Total(S, f) == MapThenSumSet(LAMBDA x : f[x], S)
Added(hs, Of(_)) == Total(DOMAIN hs, [i \in DOMAIN hs |-> Of(hs[i])])

\* Amounts of the lines, before and after the hypotheses.
Budgeted == [l \in Lines |-> Unit(l.amount)]
Totals(amounts) ==
  LET OfType(type) == Total({l \in Lines : l.type = type}, amounts)
  IN  [revenue |-> OfType("REVENUE"), expenses |-> OfType("EXPENSE"), capex |-> OfType("CAPEX")]

------------------------------------------------------------------------------
(* GLOBAL: rates and amounts add up, and apply to the base once.            *)

Growth  == {"revenue_growth", "export_growth"}
Burdens == {"payroll_increase", "defect_rate"}

\* A multiplier m counts as a rate of m - 1.
RateOf(h) == CASE h.unit = "%"          -> h.value
               [] h.unit = "multiplier" -> 100 * (h.value - 100)
               [] OTHER                 -> 0
AmountOf(h) == IF h.unit = "FCFA" THEN 100 * h.value ELSE 0
Percentage(h) == IF h.unit = "%" THEN h.value ELSE 0

RevenueRate(h)  == IF h.parameter \in Growth THEN RateOf(h) ELSE 0
RevenueDelta(h) == IF h.parameter \in Growth THEN AmountOf(h) ELSE 0
ExpenseRate(h)  == CASE h.parameter = "cost_reduction" -> RateOf(h) - 2 * Percentage(h)
                     [] h.parameter \in Burdens        -> Percentage(h)
                     [] OTHER                          -> 0
ExpenseDelta(h) == CASE h.parameter = "cost_reduction" -> -AmountOf(h)
                     [] h.parameter \in Burdens        -> AmountOf(h)
                     [] OTHER                          -> 0
CapexDelta(h, base) ==
  IF h.parameter = "capex_increase" THEN AmountOf(h) + Rated(base, Percentage(h)) - base ELSE 0

Global(hs) ==
  LET base == Totals(Budgeted)
      expenses == Floor(Rated(base.expenses, Added(hs, ExpenseRate)))
  IN  [revenue  |-> Rated(base.revenue, Added(hs, RevenueRate)) + Added(hs, RevenueDelta),
       expenses |-> Floor(expenses + Added(hs, ExpenseDelta)),
       capex    |-> base.capex + Added(hs, LAMBDA h : CapexDelta(h, base.capex))]

------------------------------------------------------------------------------
(* COMPTES_CIBLES: each hypothesis changes the lines it targets.            *)

Target(type, prefixes, inverse) == [type |-> type, prefixes |-> prefixes, inverse |-> inverse]

\* TARGETED_HYPOTHESIS_MAP; where there are no prefixes every account is meant.
Targets == [
  revenue_growth     |-> Target("REVENUE", {}, FALSE),
  export_growth      |-> Target("REVENUE", {"7012", "7013", "7014"}, FALSE),
  cost_reduction     |-> Target("EXPENSE", {"601", "602", "604", "605"}, TRUE),
  payroll_increase   |-> Target("EXPENSE", {"621", "622", "641", "642", "643", "644", "645", "646"}, FALSE),
  defect_rate        |-> Target("EXPENSE", {"601", "602", "604"}, FALSE),
  capex_increase     |-> Target("CAPEX", {"215", "218", "241", "244", "245", "246", "247", "248"}, FALSE),
  marketing_increase |-> Target("EXPENSE", {"623", "624"}, FALSE),
  overhead_reduction |-> Target("EXPENSE", {"625", "626", "627", "628"}, TRUE)]

OfPrefixes(l, prefixes) == prefixes = {} \/ StartsWithAny(l.account, prefixes)
Targeted(l, parameter) ==
  /\ parameter \in DOMAIN Targets
  /\ l.type = Targets[parameter].type
  /\ OfPrefixes(l, Targets[parameter].prefixes)

\* A multiplier does not look at the direction.
Adjusted(n, h) ==
  LET sign == IF Targets[h.parameter].inverse THEN -1 ELSE 1 IN
  CASE h.unit = "%"          -> Rated(n, sign * h.value)
    [] h.unit = "FCFA"       -> n + sign * AmountOf(h)
    [] h.unit = "multiplier" -> (n \div 100) * h.value
    [] OTHER                 -> n

BadApplyTargeted(amounts, h) ==
  [l \in Lines |-> IF Targeted(l, h.parameter) THEN Floor(Rated(amounts[l], RateOf(h)) + AmountOf(h)) ELSE amounts[l]]
ApplyTargeted(amounts, h) ==
  [l \in Lines |-> IF Targeted(l, h.parameter) THEN Floor(Adjusted(amounts[l], h)) ELSE amounts[l]]

\* The amounts after each hypothesis.
TargetedAmounts(hs) ==
  LET after[k \in 0 .. Len(hs)] == IF k = 0 THEN Budgeted ELSE ApplyTargeted(after[k - 1], hs[k]) IN after

------------------------------------------------------------------------------
(* What the snapshot holds.                                                 *)

\* Delays are applied to the projected totals.
Days(hs, parameter, n) ==
  Added(hs, LAMBDA h : IF h.parameter = parameter /\ h.unit = "jours" THEN (n \div 3000) * h.value ELSE 0)

\* The projection is GLOBAL or, for any other mode, COMPTES_CIBLES.
Figures(hs, m) ==
  LET totals      == IF m = DefaultMode THEN Global(hs) ELSE Totals(TargetedAmounts(hs)[Len(hs)])
      receivables == Days(hs, "dso_change", totals.revenue)
      payables    == Days(hs, "dpo_change", totals.expenses)
      ebitda      == totals.revenue - totals.expenses
      spent       == totals.expenses + totals.capex
      assets      == (totals.revenue * 3) \div 5 + receivables
      liabilities == (spent * 9) \div 20 + payables
  IN  [is_revenue     |-> Money(totals.revenue),
       is_expenses    |-> Money(spent),
       is_ebitda      |-> Money(ebitda),
       is_net         |-> Money(ebitda - Floor(ebitda) \div 5),
       bs_assets      |-> Money(assets),
       bs_liabilities |-> Money(liabilities),
       bs_equity      |-> Money(assets - liabilities),
       cf_operating   |-> Money(ebitda - receivables + payables),
       cf_investing   |-> Money(-totals.capex)]

------------------------------------------------------------------------------
(* ScenarioEngine.calculate_scenario, which only the tests of the service     *)
(* call: no floor, no multiplier, an investment is an amount looked for among *)
(* the expenses.                                                             *)

EngineAmount(n, h) ==
  IF h.unit = "%" /\ h.parameter # "capex_increase" THEN Adjusted(n, h) ELSE n + 100 * h.value

EngineTargeted(l, parameter) ==
  /\ parameter \in DOMAIN Targets
  /\ l.type = IF parameter = "capex_increase" THEN "EXPENSE" ELSE Targets[parameter].type
  /\ OfPrefixes(l, Targets[parameter].prefixes)

EngineApply(amounts, h) ==
  [l \in Lines |-> IF EngineTargeted(l, h.parameter) THEN 100 * Money(EngineAmount(amounts[l], h)) ELSE amounts[l]]
EngineAmounts(hs) ==
  LET after[k \in 0 .. Len(hs)] == IF k = 0 THEN Budgeted ELSE EngineApply(after[k - 1], hs[k]) IN after

\* compute_net_result: the tax is 30 % of what is earned, and 20 % in Figures.
NetResult(ebitda) == Money(ebitda) - Money((Floor(ebitda) * 3) \div 10)

EngineSummary(hs) ==
  LET totals == Totals(EngineAmounts(hs)[Len(hs)])
      ebitda == totals.revenue - totals.expenses
  IN  [revenue |-> Money(totals.revenue), expenses |-> Money(totals.expenses), ebitda |-> Money(ebitda),
       net_result |-> NetResult(ebitda)]

------------------------------------------------------------------------------
(* Properties of what the scenarios show.                                   *)

Shown(m) == {snapshot[c] : c \in {d \in Scenario : snapshot[d] # NoSnapshot /\ snapshot[d].mode = m}}

\* The two ways to project agree where they speak of the same lines: growth of the
\* sales by rates that do not compound, and delays (scenarios.repository.ts:267, :327).
\* The calculation service finds what COMPTES_CIBLES finds, as long as no line is
\* taken below zero nor has to be rounded on the way (the service rounds after each
\* hypothesis, the API at the end), there is no investment, and what is reduced is
\* reduced by a rate (scenario_engine.py:75): it adds an amount to costs that it should
\* take off.
SameLines(hs) ==
  /\ \A i \in DOMAIN hs :
       \/ hs[i].parameter \in {"dso_change", "dpo_change"}
       \/ hs[i].parameter = "revenue_growth" /\ hs[i].unit \in {"%", "multiplier"} /\ RateOf(hs[i]) >= -10000
  /\ Cardinality({i \in DOMAIN hs : hs[i].parameter = "revenue_growth"}) <= 1

EngineReads(h) ==
  /\ h.parameter # "capex_increase"
  /\ h.parameter \in DOMAIN Targets => h.unit = "%" \/ (h.unit = "FCFA" /\ ~Targets[h.parameter].inverse)
AlwaysAmounts(hs) ==
  \A k \in DOMAIN hs : \A l \in Lines : EngineTargeted(l, hs[k].parameter) =>
    LET n == EngineAmount(EngineAmounts(hs)[k - 1][l], hs[k]) IN n >= 0 /\ n % 100 = 0

ModesAgree ==
  \A m \in Mode : \A s \in Shown(m) : LET hs == s.hypotheses IN
    /\ SameLines(hs) => \A n \in Mode : Figures(hs, n) = Figures(hs, m)
    /\ m # DefaultMode /\ (\A i \in DOMAIN hs : EngineReads(hs[i])) /\ AlwaysAmounts(hs) =>
         /\ EngineSummary(hs).revenue = Figures(hs, m).is_revenue
         /\ EngineSummary(hs).ebitda  = Figures(hs, m).is_ebitda
==============================================================================
