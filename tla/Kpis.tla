--------------------------------- MODULE Kpis ---------------------------------
(***************************************************************************)
(* The indicators of KpisService (kpis.service.ts): what calculateForPeriod *)
(* computes from the validated transactions, the budget and the planned      *)
(* flows of one period, the thresholds, and the severity of a value.         *)
(*                                                                         *)
(* Amounts are whole numbers of hundredths, as the database keeps them.  A    *)
(* value is a fraction <<n, d>> with d > 0 until it is stored or shown: then  *)
(* it is a number of hundredths.                                             *)
(***************************************************************************)
EXTENDS Statements

Fraction(n, d) == IF d > 0 THEN <<n, d>> ELSE <<0, 1>>     \* what is not positive divides to 0
Percent(n, d)  == Fraction(100 * n, d)

\* Hundredths, a half away from zero.
Rounded(q) ==
  LET n == Magnitude(200 * q[1]) + q[2] IN
  IF q[1] < 0 THEN -(n \div (2 * q[2])) ELSE n \div (2 * q[2])

\* KPI_ACCOUNT_PREFIXES
KpiPrefixes == [CA |-> {"70"}, CHARGES |-> {"6"}, ACHATS |-> {"601", "602"},
                MASSE_SALARIALE |-> {"64", "65"}, OPEX |-> {"62", "63", "64", "65"}]

\* A period's transactions are sent without the fields the service requires of a
\* transaction, and its flows without those of a flow: only an empty request is
\* answered, with zeros.
Answered(txs, plans, engineUp) == engineUp /\ txs = {} /\ plans = {}

\* The engine's lines if it answers, the prefixes of the accounts if not.
Base(txs, plans, engineUp) ==
  LET Sum(prefixes) == Total(On(txs, prefixes), LAMBDA t : Magnitude(t.amount))
      income == Income(txs)
  IN  IF Answered(txs, plans, engineUp)
      THEN [ca |-> income.XB, ebitda |-> income.XD, net |-> income.XI]
      ELSE [ca |-> Sum(KpiPrefixes.CA), ebitda |-> Sum(KpiPrefixes.CA) - Sum(KpiPrefixes.CHARGES), net |-> 0]

\* calculateForPeriod: every indicator of a period.  Receivables are 20 % of the
\* sales and payables 30 % of the purchases, whence the constant delays.  MARGE is an
\* indicator of the organisations that were seeded (prisma/seed.ts:298); the others
\* have all but that one.
Computed(txs, plans, budget, engineUp) ==
  LET Sum(prefixes)  == Total(On(txs, prefixes), LAMBDA t : Magnitude(t.amount))
      Flow(dir) == Total({p \in plans : p.dir = dir}, LAMBDA p : p.amount)
      base      == Base(txs, plans, engineUp)
      ca        == base.ca
      charges   == ca - base.ebitda
      purchases == Sum(KpiPrefixes.ACHATS)
      in        == Flow("IN")
      out       == Flow("OUT")
      margin    == Percent(base.ebitda, ca)
  IN  [CA |-> <<ca, 100>>, EBITDA |-> <<base.ebitda, 100>>, CHARGES |-> <<charges, 100>>,
       MARGE            |-> margin,
       MARGE_EBITDA     |-> margin,
       EBITDA_MARGIN    |-> margin,
       OPERATING_MARGIN |-> Percent(ca - charges, ca),
       GROSS_MARGIN     |-> Percent(ca - purchases, ca),
       NET_MARGIN       |-> Percent(base.net, ca),
       COST_PER_REVENUE |-> Percent(charges, ca),
       OPEX_RATIO       |-> Percent(Sum(KpiPrefixes.OPEX), ca),
       PAYROLL_RATIO    |-> Percent(Sum(KpiPrefixes.MASSE_SALARIALE), ca),
       ROE  |-> Percent(base.net, budget),
       ROA  |-> Percent(base.net, budget),
       ROCE |-> Percent(base.ebitda, budget),
       ASSET_TURNOVER |-> Fraction(ca, budget),
       DSO |-> IF ca > 0 THEN <<73, 1>> ELSE <<0, 1>>,
       DPO |-> IF purchases > 0 THEN <<219, 2>> ELSE <<0, 1>>,
       BFR |-> <<2 * ca - 3 * purchases, 1000>>,
       CURRENT_RATIO |-> Fraction(in, out),
       QUICK_RATIO   |-> Fraction(7 * in, 10 * out),
       CASH_RATIO    |-> Fraction(in - out, out),
       RUNWAY        |-> Fraction(13 * (in - out), out)]

\* seedDefaultKpis: the values below (for some, above) which a value is a warning
\* and critical, in hundredths; the other indicators have none.  Those of MARGE are
\* the seed's, which the upsert of the defaults leaves alone.
Thresholds == [
  GROSS_MARGIN  |-> [warn |-> 3000, critical |-> 1500], EBITDA_MARGIN    |-> [warn |-> 1000, critical |-> 500],
  NET_MARGIN    |-> [warn |-> 500,  critical |-> 0],    OPERATING_MARGIN |-> [warn |-> 1000, critical |-> 500],
  MARGE_EBITDA  |-> [warn |-> 1000, critical |-> 500],  ROA              |-> [warn |-> 500,  critical |-> 200],
  ROE           |-> [warn |-> 1000, critical |-> 500],  ROCE             |-> [warn |-> 1000, critical |-> 500],
  DSO           |-> [warn |-> 6000, critical |-> 9000], ASSET_TURNOVER   |-> [warn |-> 50,   critical |-> 30],
  OPEX_RATIO    |-> [warn |-> 4000, critical |-> 5500], COST_PER_REVENUE |-> [warn |-> 8000, critical |-> 9000],
  PAYROLL_RATIO |-> [warn |-> 3500, critical |-> 4500], CURRENT_RATIO    |-> [warn |-> 150,  critical |-> 100],
  QUICK_RATIO   |-> [warn |-> 100,  critical |-> 50],   CASH_RATIO       |-> [warn |-> 50,   critical |-> 20],
  RUNWAY        |-> [warn |-> 800,  critical |-> 400],  MARGE            |-> [warn |-> 2500, critical |-> 1500]]

LowerIsBetter == {"DSO", "DPO", "COST_PER_REVENUE", "OPEX_RATIO", "PAYROLL_RATIO"}

\* The first threshold that a value passes decides.
Graded(code, Passes(_)) ==
  IF code \notin DOMAIN Thresholds THEN "INFO"
  ELSE IF Passes(Thresholds[code].critical) THEN "CRITICAL"
  ELSE IF Passes(Thresholds[code].warn) THEN "WARN"
  ELSE "INFO"

\* computeKpiSeverity, strict, in the direction of the indicator.
Severity(code, q) ==
  Graded(code, LAMBDA t : IF code \in LowerIsBetter THEN 100 * q[1] > t * q[2] ELSE 100 * q[1] < t * q[2])

\* The rows calculateForPeriod stores: the value is rounded, its severity is that
\* of the value before.
Stored(values) ==
  [code \in DOMAIN values |-> [value |-> Rounded(values[code]), severity |-> Severity(code, values[code])]]
==============================================================================
