------------------------------- MODULE Figures -------------------------------
(***************************************************************************)
(* The figures that the screens show: the indicators (kpis.service.ts), the *)
(* dashboard (dashboard.service.ts), the financial statements and the        *)
(* reports (reports.service.ts), over the periods a user selects, while      *)
(* transactions are validated, flows planned, indicators calculated and       *)
(* periods closed, and while the calculation service comes and goes.          *)
(*                                                                         *)
(* Screens are functions of the state: caches are the subject of KpiCache,   *)
(* requests that overlap those of PeriodClose.  A transaction, once           *)
(* validated, stays (PeriodClose tells when it does not).                    *)
(***************************************************************************)
EXTENDS Kpis, SequencesExt

CONSTANTS
  Txs,      \* transactions that may be recorded: id, period, account, department, amount
  Plans,    \* flows that may be planned: id, period, dir, type, amount
  Lines,    \* budget lines: id, reference, period, account, department, label, amount
  Period,   \* <<fiscal year, number>>
  Month,    \* the number of the current month
  FirstMargin,       \* which of MARGE and MARGE_EBITDA the database reads first
  DepartmentsShown,  \* how many departments a chart shows: 8, or fewer in a small instance
  Rank,              \* department |-> its place in the order the database reads them in
  Calculated, MaxClosed, MaxPending \* bounds: the periods whose indicators are calculated, how many
                                    \* are closed, how many transactions are pending at once

ASSUME FiguresAssumption ==
  /\ Period \subseteq (Nat \ {0}) \X (1 .. 12) /\ Month \in 1 .. 12
  /\ FirstMargin \in {"MARGE", "MARGE_EBITDA"}
  /\ DepartmentsShown \in Nat \ {0}
  /\ \A t \in Txs : Rank[t.department] \in Nat
  /\ \A t, u \in Txs : t.department # u.department => Rank[t.department] # Rank[u.department]
  /\ Calculated \subseteq Period /\ MaxClosed \in Nat /\ MaxPending \in Nat
  /\ IsFiniteSet(Period) /\ IsFiniteSet(Lines)
  /\ \A t \in Txs \cup Plans \cup Lines : t.period \in Period /\ t.amount \in Int

VARIABLES
  pending,   \* the transactions that nobody has validated
  ledger,    \* the validated transactions
  flows,     \* the rows of cash_flow_plans
  status,    \* periods.status
  kpis,      \* the rows of kpi_values of each period, <<>> before any
  recent,    \* the periods with values, the last calculated last
  snapshot,  \* the period's row of financial_snapshots, and what it was made of
  engineUp   \* the calculation service answers

figuresVars == <<pending, ledger, flows, status, kpis, recent, snapshot, engineUp>>

Of(rows, periods) == {t \in rows : t.period \in periods}

NoSnapshot == [revenue |-> 0, expenses |-> 0, ebitda |-> 0, net |-> 0]

FiguresInit ==
  /\ pending  = {}
  /\ ledger   = {}
  /\ flows    = {}
  /\ status   = [p \in Period |-> "OPEN"]
  /\ kpis     = [p \in Period |-> <<>>]
  /\ recent   = <<>>
  /\ snapshot = [p \in Period |-> [figures |-> NoSnapshot, of |-> {}]]
  /\ engineUp = TRUE

------------------------------------------------------------------------------
(* What changes the figures.                                                *)

RecordTransaction(t) ==
  /\ t \notin pending \cup ledger
  /\ Cardinality(pending) < MaxPending
  /\ pending' = pending \cup {t}
  /\ UNCHANGED <<ledger, flows, status, kpis, recent, snapshot, engineUp>>

ValidateTransaction(t) ==
  /\ t \in pending
  /\ pending' = pending \ {t}
  /\ ledger' = ledger \cup {t}
  /\ UNCHANGED <<flows, status, kpis, recent, snapshot, engineUp>>

PlanFlow(f) ==
  /\ f \notin flows
  /\ flows' = flows \cup {f}
  /\ UNCHANGED <<pending, ledger, status, kpis, recent, snapshot, engineUp>>

\* The lines of every budget of the period, drafts and older versions included.
BudgetOf(p) == Total(Of(Lines, {p}), LAMBDA l : Magnitude(l.amount))

CalculateForPeriod(p) ==
  /\ p \in Calculated
  /\ kpis' = [kpis EXCEPT ![p] = Stored(Computed(Of(ledger, {p}), Of(flows, {p}), BudgetOf(p), engineUp))]
  /\ recent' = Append(RemoveFirst(recent, p), p)
  /\ UNCHANGED <<pending, ledger, flows, status, snapshot, engineUp>>

\* The closing needs the calculation service, and that nothing is pending.
ClosePeriod(p) ==
  /\ status[p] = "OPEN"
  /\ Of(pending, {p}) = {}
  /\ engineUp
  /\ Cardinality({q \in Period : status[q] = "CLOSED"}) < MaxClosed
  /\ status' = [status EXCEPT ![p] = "CLOSED"]
  /\ snapshot' = [snapshot EXCEPT ![p] = [figures |-> SnapshotOf(Of(ledger, {p})), of |-> Of(ledger, {p})]]
  /\ UNCHANGED <<pending, ledger, flows, kpis, recent, engineUp>>

EngineStopsOrStarts ==
  /\ engineUp' = ~engineUp
  /\ UNCHANGED <<pending, ledger, flows, status, kpis, recent, snapshot>>

FiguresNext ==
  \/ \E t \in Txs : RecordTransaction(t) \/ ValidateTransaction(t)
  \/ \E f \in Plans : PlanFlow(f)
  \/ \E p \in Period : CalculateForPeriod(p) \/ ClosePeriod(p)
  \/ EngineStopsOrStarts

FiguresSpec == FiguresInit /\ [][FiguresNext]_figuresVars

------------------------------------------------------------------------------
(* The periods of a selection.                                              *)

\* The OPEN period with the highest number, whatever its year; periods of the
\* same number come in the order of the database.
Active == {p \in Period : status[p] = "OPEN" /\ \A q \in Period : status[q] = "OPEN" => q[2] <= p[2]}
ActivePeriod == IF Active = {} THEN <<0, 0>> ELSE CHOOSE p \in Active : \A q \in Active : q[1] <= p[1]

Between(year, from, to) == {p \in Period : p[1] = year /\ from <= p[2] /\ p[2] <= to}
Bounds(s) == IF s.from[2] <= s.to[2] THEN <<s.from[2], s.to[2]>> ELSE <<s.to[2], s.from[2]>>

\* resolvePeriodIds: in the year of the active period, where both bounds of a range
\* must be, and be two.  The indicators, the dashboard, the reports, the alerts and the
\* transactions have the same code for it, which is modelled once.
Selected(s) ==
  LET year == ActivePeriod[1] IN
  CASE s.kind = "period"  -> {s.period}
    [] s.kind = "ytd"     -> Between(year, 1, Month)
    [] s.kind = "quarter" -> Between(year, 3 * s.quarter - 2, 3 * s.quarter)
    [] s.kind = "range" /\ s.from # s.to /\ s.from[1] = year /\ s.to[1] = year
                          -> Between(year, Bounds(s)[1], Bounds(s)[2])
    [] OTHER              -> {}

\* The cash flow tab takes the year of the bounds, and a range of one period.
CashFlowSelected(s) ==
  IF s.kind = "range" /\ ActivePeriod # <<0, 0>>
  THEN IF s.from[1] = s.to[1] THEN Between(s.from[1], Bounds(s)[1], Bounds(s)[2]) ELSE {}
  ELSE Selected(s)

Aggregates ==
  {[kind |-> "ytd"]} \cup [kind : {"quarter"}, quarter : 1 .. 4] \cup [kind : {"range"}, from : Period, to : Period]

\* What the screens may have to show.
Selections == {Selected(s) : s \in Aggregates}

------------------------------------------------------------------------------
(* The indicators over several periods, on both screens; a single period shows *)
(* its stored rows.                                                         *)

Additive == {"CA", "EBITDA", "CHARGES", "OPEX"}

\* getCalcIncomeStatementLinesForPeriods: the lines of all the periods at once.
FromLines(income) ==
  [CA |-> <<income.XB, 100>>, EBITDA |-> <<income.XD, 100>>, CHARGES |-> <<income.XB - income.XD, 100>>,
   MARGE            |-> Percent(income.XD, income.XB),
   MARGE_EBITDA     |-> Percent(income.XD, income.XB),
   EBITDA_MARGIN    |-> Percent(income.XD, income.XB),
   NET_MARGIN       |-> Percent(income.XI, income.XB),
   OPERATING_MARGIN |-> Percent(income.XE, income.XB),
   GROSS_MARGIN     |-> Percent(income.XB - income.RA, income.XB)]
Overrides(periods) ==
  IF ~engineUp \/ Of(ledger, periods) = {} THEN <<>> ELSE FromLines(Income(Of(ledger, periods)))

\* Amounts add up; of the other indicators the value calculated last is taken.  The
\* margin that comes first is made again from the sums, and no other.
Latest(periods) == recent[SelectLastInSeq(recent, LAMBDA p : p \in periods)]
Combined(periods) ==
  LET rows   == {p \in periods : kpis[p] # <<>>}
      latest == kpis[Latest(periods)]
      Sum(code) == MapThenSumSet(LAMBDA p : kpis[p][code].value, rows)
  IN  IF rows = {} THEN <<>>
      ELSE [code \in DOMAIN latest |->
              CASE code \in Additive                        -> Sum(code)
                [] code = FirstMargin /\ Sum("CA") # 0      -> Rounded(Percent(Sum("EBITDA"), Sum("CA")))
                [] OTHER                                    -> latest[code].value]

\* getValuesAggregated and findValuesByPeriods: the values of the calculation
\* service where it answers, and a severity that each screen makes its own way.
BadShownValues(periods) == Combined(periods)
ShownValues(periods) ==
  LET overrides == Overrides(periods)
      combined  == Combined(periods)
  IN  [code \in DOMAIN combined |->
         IF code \in DOMAIN overrides THEN Rounded(overrides[code]) ELSE combined[code]]

\* The indicators page grades every value it shows.
KpiScreen(periods) ==
  LET overrides == Overrides(periods)
      combined  == Combined(periods)
      shown     == ShownValues(periods)
  IN  [code \in DOMAIN combined |->
         [value |-> shown[code],
          severity |-> Severity(code, IF code \in DOMAIN overrides THEN overrides[code]
                                      ELSE <<combined[code], 100>>)]]

\* The dashboard grades what the service overrides, at or below a threshold whatever
\* the indicator, and keeps the severity of the last calculation for the others.
BadDashboardSeverity(code, q) == Graded(code, LAMBDA t : q[1] <= t * q[2])
DashboardSeverity(code, q) == Graded(code, LAMBDA t : 100 * q[1] <= t * q[2])

DashboardScreen(periods) ==
  LET overrides == Overrides(periods)
      combined  == Combined(periods)
      shown     == ShownValues(periods)
  IN  [code \in DOMAIN combined |->
         [value |-> shown[code],
          severity |-> IF code \in DOMAIN overrides THEN DashboardSeverity(code, overrides[code])
                       ELSE kpis[Latest(periods)][code].severity]]

\* getDashboardAggregate, for a selection.
DashboardAggregate(s) == DashboardScreen(Selected(s))

------------------------------------------------------------------------------
(* The other parts of the dashboard.                                        *)

\* findSummary and findSummaryYTD: the snapshots of the closed periods.
Summed(periods) ==
  LET Sum(field) == MapThenSumSet(LAMBDA p : snapshot[p].figures[field], periods)
  IN  [field \in DOMAIN NoSnapshot |-> Sum(field)]

\* buildSummaryFromKpis: an indicator replaces a figure that is zero.
BadSummary(periods, shown) ==
  LET summary == Summed(periods) IN
  [revenue |-> summary.revenue, expenses |-> summary.expenses,
   ebitda |-> IF shown = <<>> THEN 0 ELSE shown.EBITDA.value, net |-> summary.net]
Summary(periods, shown) ==
  LET summary == Summed(periods)
      Or(figure, code) == IF figure # 0 \/ shown = <<>> THEN figure ELSE shown[code].value
      revenue  == Or(summary.revenue, "CA")
      expenses == Or(summary.expenses, "CHARGES")
  IN  [revenue |-> revenue, expenses |-> expenses, ebitda |-> Or(summary.ebitda, "EBITDA"),
       net     |-> IF summary.net # 0 THEN summary.net ELSE revenue - expenses]

\* getActualsByKey: the transactions of a line's period, account and department.
ActualKey(row) == <<row.period, row.account, row.department>>
Matching(line) == {t \in ledger : ActualKey(t) = ActualKey(line)}
BadDashboardActual(line) ==
  Total({t \in ledger : t.account = line.account /\ t.department = line.department}, LAMBDA t : Magnitude(t.amount))
DashboardActual(line) == Total(Matching(line), LAMBDA t : Magnitude(t.amount))

\* The gap to a budget that may be negative, in percent of it.
GapPct(actual, budgeted) ==
  Rounded(Percent(IF budgeted < 0 THEN budgeted - actual ELSE actual - budgeted, Magnitude(budgeted)))

\* findVarianceByReferenceBudget and findVarianceYTD: the reference budget's lines by
\* label.
ReferenceLines(periods) == {l \in Of(Lines, periods) : l.reference}
Variance(periods) ==
  LET lines == ReferenceLines(periods)
      row(label) ==
        LET group    == {l \in lines : l.label = label}
            budgeted == Total(group, LAMBDA l : l.amount)
            actual   == Total(group, DashboardActual)
        IN  [budgeted |-> budgeted, actual |-> actual, pct |-> GapPct(actual, budgeted)]
  IN  [label \in {l.label : l \in lines} |-> row(label)]

\* applyActualAmounts and getVariance: the budget page adds up the transactions of each
\* line again, whatever the row says.
BudgetActual(line) == Total(Matching(line), LAMBDA t : Magnitude(t.amount))
BudgetVariance(line) ==
  [variance |-> BudgetActual(line) - line.amount, pct |-> GapPct(BudgetActual(line), line.amount)]

\* syncBudgetLines (transactions.service.ts) puts another amount on the line: the
\* magnitude of the sum.
SyncedActual(line) == Magnitude(Total(Matching(line), LAMBDA t : t.amount))

\* getMonthlyData: the sales and the charges of each month, by sign, and the charges of
\* the departments that spend most.  Every figure is rounded for itself, to a whole unit,
\* a half upwards; equal departments come in the order of the database.
MathRound(n) == (n + 50) \div 100
Spent(txs)  == Total({t \in txs : t.amount < 0}, LAMBDA t : Magnitude(t.amount))
Earned(txs) == Total({t \in txs : t.amount > 0}, LAMBDA t : t.amount)
Top(D, Value(_)) ==
  LET Ahead(e, d) == Value(e) > Value(d) \/ (Value(e) = Value(d) /\ Rank[e] < Rank[d])
  IN  {d \in D : Cardinality({e \in D : Ahead(e, d)}) < DepartmentsShown}

MonthlyData(year) ==
  LET rows     == {t \in ledger : t.period[1] = year}
      OfDept(d) == {t \in rows : t.department = d}
      Value(d)  == MathRound(Spent(OfDept(d)))
  IN  [monthly |-> [p \in {q \in Period : q[1] = year} |->
                      [revenue  |-> MathRound(Earned(Of(rows, {p}))),
                       expenses |-> MathRound(Spent(Of(rows, {p}))),
                       ebitda   |-> MathRound(Earned(Of(rows, {p})) - Spent(Of(rows, {p})))]],
       byDept  |-> [d \in Top({t.department : t \in {u \in rows : u.amount < 0}}, Value) |-> Value(d)]]

------------------------------------------------------------------------------
(* Statements and reports.                                                  *)

\* getFinancialStatements falls back on the active period when nothing is selected;
\* a report (reports.service.ts) is then empty.  Both send the flows of every period.
StatementsPeriods(selected) == IF selected # {} THEN selected ELSE Active \cap {ActivePeriod}
StatementsScreen(selected)  == FinancialStatements(Of(ledger, StatementsPeriods(selected)), flows)
Report(s)                   == FinancialStatements(Of(ledger, Selected(s)), flows)

\* The list of transactions, pending ones too, has no filter then, and shows every period.
Listed(s) ==
  LET rows == pending \cup ledger IN IF Selected(s) # {} THEN Of(rows, Selected(s)) ELSE rows

------------------------------------------------------------------------------
(* Properties.                                                              *)

FiguresTypeOK ==
  /\ pending \subseteq Txs /\ ledger \subseteq Txs \ pending /\ flows \subseteq Plans
  /\ status \in [Period -> {"OPEN", "CLOSED"}]
  /\ ToSet(recent) = {p \in Period : kpis[p] # <<>>}
  /\ \A p \in Period : snapshot[p].of \subseteq Of(Txs, {p})

\* The mapping and the statements treat the account alike: a sale or a charge of one
\* line, that closing does not subtract twice.
Counted(lines, t) == Cardinality({ref \in DOMAIN lines : StartsWithAny(t.account, lines[ref])})
Reconciled(t) ==
  LET mapping == FinancialMapping(t.account) IN
  /\ mapping.statement = "INCOME_STATEMENT"
  /\ \/ /\ mapping.section = "REVENUE" /\ t.amount >= 0
        /\ Counted(Products, t) = 1 /\ Counted(Charges, t) = 0
     \/ /\ mapping.section = "EXPENSE" /\ ~StartsWithAny(t.account, {"68", "69"})
        /\ Counted(Charges, t) = 1 /\ Counted(Products, t) = 0

\* A closed period's net result is the one its financial statements end with, as long
\* as its accounts mean the same to both: the cascade of the calculation service
\* counts each of them once and with its sign (syscohada_mapping.py:49), as
\* closePeriod does by section (periods.service.ts:134), which is also the type that
\* a report gives the row.  An import stores every row with the sign of the type that
\* reports will give it (imports.service.ts:360): none needs the exception.
ImportedRows(t) ==
  UNION {Imported([account |-> t.account, periods |-> {t.period}, amount |-> Magnitude(t.amount), type |-> type]) :
           type \in {"REVENUE", "EXPENSE", "none"}}
NetsAgree ==
  /\ \A p \in Period : LET closed == snapshot[p].of IN
       /\ (\A t \in closed : Reconciled(t)) => snapshot[p].figures.net = Income(closed).XI
       /\ \A t \in closed : Reconciled(t) => ReportLineType(t.account, t.amount) = FinancialMapping(t.account).section
  /\ \A t \in Txs : \A row \in ImportedRows(t) : LET type == ReportLineType(row.account, row.amount) IN
       /\ type = "REVENUE" => row.amount > 0
       /\ type = "EXPENSE" => row.amount < 0

\* While the calculation service answers, the turnover that the indicators page shows
\* for a selection is the one of the statements for the same selection, whatever was
\* calculated and stored when the service was down or fewer transactions validated
\* (kpis.service.ts:449, dashboard.service.ts:676).  The cash flow tab, whose code
\* differs (cash-flow.service.ts:434), takes a selection for the same periods as the
\* other screens (kpis.service.ts:573), but for a range of one period or of a year that
\* is not the active one, where the others show nothing.  Where they show something, the
\* validated part of the list of transactions makes the report and the statements; no
\* figure but the list counts a pending one (transactions.service.ts:58).
ScreensAgree ==
  \A s \in Aggregates : LET periods == Selected(s) page == KpiScreen(periods) IN
    /\ engineUp /\ page # <<>> => page.CA.value = StatementsScreen(periods).is.XB
    /\ CashFlowSelected(s) # periods =>
         /\ periods = {} /\ s.kind = "range" /\ s.from[1] = s.to[1]
         /\ s.from = s.to \/ s.from[1] # ActivePeriod[1]
    /\ periods # {} =>
         Report(s) = StatementsScreen(periods) /\ Income(Listed(s) \ pending) = Report(s).is

\* The dashboard and the indicators page give one value two severities only where it
\* is at a threshold, or where the dashboard keeps the severity that a margin had
\* before it was made again from the sums (dashboard.service.ts:120 and :194,
\* kpis.service.ts:422 and :915); no indicator that is bad when high is among them.
AtThreshold(code, value) ==
  code \in DOMAIN Thresholds /\ value \in {Thresholds[code].warn, Thresholds[code].critical}
SeveritiesAgree ==
  \A s \in Aggregates : LET periods == Selected(s) page == KpiScreen(periods) board == DashboardAggregate(s) IN
    \A code \in DOMAIN page :
      \/ page[code].severity = board[code].severity
      \/ AtThreshold(code, page[code].value)
      \/ code = FirstMargin /\ Overrides(periods) = <<>>

\* The dashboard adds up.  The summary of one period may take its figures from the
\* snapshot and from the indicators: where the mapping makes sales and charges of the
\* accounts that the indicators take for them, only an EBITDA of exactly zero, which
\* the code takes for a missing one, and transactions that came after the closing
\* break it (dashboard.service.ts:644).  The departments of the chart never spend more
\* than the months do, and as much where the chart has room for all of them, but for the
\* half unit that each of its figures may be rounded by; a month's EBITDA is within one
\* unit of the sales and charges beside it (:997).  The table of variances never shows
\* more than was validated (:472, :587) unless two of its lines are of one account and
\* department, which nothing forbids and whose transactions it then counts twice.
SameAccounts(t) ==
  LET mapping == FinancialMapping(t.account)
      IsOf(section) == mapping.statement = "INCOME_STATEMENT" /\ mapping.section = section
  IN  /\ StartsWithAny(t.account, KpiPrefixes.CA) => IsOf("REVENUE")
      /\ StartsWithAny(t.account, KpiPrefixes.CHARGES) => IsOf("EXPENSE")

SummaryAddsUp(p) ==
  LET summary == Summary({p}, kpis[p])
      closed  == snapshot[p]
  IN  (status[p] = "CLOSED" => /\ closed.of = Of(ledger, {p}) /\ closed.figures.ebitda # 0
                               /\ \A t \in closed.of : SameAccounts(t))
        => summary.ebitda = summary.revenue - summary.expenses

Spending(year) == {t.department : t \in {u \in ledger : u.period[1] = year /\ u.amount < 0}}
DepartmentsAddUp(year) ==
  LET data   == MonthlyData(year)
      depts  == MapThenSumSet(LAMBDA d : data.byDept[d], DOMAIN data.byDept)
      months == MapThenSumSet(LAMBDA p : data.monthly[p].expenses, DOMAIN data.monthly)
      halves == Cardinality(DOMAIN data.byDept) + Cardinality(DOMAIN data.monthly)
  IN  /\ 2 * (depts - months) <= halves
      /\ Cardinality(Spending(year)) <= DepartmentsShown => 2 * (months - depts) <= halves
      /\ \A p \in DOMAIN data.monthly : LET month == data.monthly[p] IN
           month.ebitda - (month.revenue - month.expenses) \in -1 .. 1

OneLineEach(lines) == \A l, k \in lines : ActualKey(l) = ActualKey(k) => l = k

DashboardAddsUp ==
  /\ \A p \in Period : SummaryAddsUp(p) /\ DepartmentsAddUp(p[1])
  /\ \A periods \in Selections : LET table == Variance(periods) IN
       OneLineEach(ReferenceLines(periods)) =>
         MapThenSumSet(LAMBDA label : table[label].actual, DOMAIN table)
           <= Total(Of(ledger, periods), LAMBDA t : Magnitude(t.amount))

\* The actual amount of a line is the same on the dashboard and on the budget page
\* (dashboard.service.ts:380, budgets.repository.ts:50), and so is the variance of a
\* line alone under its label; the amount that validations keep in the row
\* (transactions.service.ts:394) is the same unless the line's transactions have both
\* signs.
OneSign(txs) == (\A t \in txs : t.amount >= 0) \/ (\A t \in txs : t.amount <= 0)
Alone(line) == {l \in Of(Lines, {line.period}) : l.reference /\ l.label = line.label} = {line}
ActualsAgree ==
  \A l \in Lines :
    /\ BudgetActual(l) = DashboardActual(l)
    /\ IF OneSign(Matching(l)) THEN SyncedActual(l) = BudgetActual(l) ELSE SyncedActual(l) < BudgetActual(l)
    /\ Alone(l) => BudgetVariance(l).pct = Variance({l.period})[l.label].pct
==============================================================================
