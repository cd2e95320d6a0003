------------------------------ MODULE CashFlow ------------------------------
(***************************************************************************)
(* The thirteen-week cash plan and the bank accounts                       *)
(* (modules/cash-flow, modules/bank-accounts).                             *)
(*                                                                         *)
(* Rows of cash_flow_plans come from two endpoints.  POST /cash-flow/plans *)
(* inserts an entry at a date; POST /cash-flow replaces "the" row of a     *)
(* week, found by period and week alone, or inserts one.  Both read the    *)
(* cash of the active accounts first and store the runway it gives; the    *)
(* column runway_weeks is an INTEGER and the service computes the runway   *)
(* with two decimals, so Prisma refuses a row whose runway is not whole.   *)
(* Each call of the service to the database is a step of its own.          *)
(*                                                                         *)
(* Dates are day numbers, day 0 being the first day of the period; amounts *)
(* are in hundredths, of any sign: both endpoints and the update of a      *)
(* balance ask for a decimal and no more.  The figures the screens show    *)
(* are operators on the rows.                                              *)
(***************************************************************************)
EXTENDS Integers, Sequences, FiniteSets, FiniteSetsExt

CONSTANTS
    Accounts,    \* the bank accounts that may be created
    Amounts,     \* amounts of a flow, in hundredths
    Balances,    \* balances of an account, in hundredths
    Dates,       \* the dates an entry can be planned at
    LegacyWeeks, \* the weeks POST /cash-flow is used for
    PeriodDays,  \* length of the period, in days
    Today,       \* the day the screens are read at
    Requests,    \* the requests in flight at the same time
    MaxRows,     \* how many rows are ever inserted
    MaxLog       \* how many balance updates are made

Horizon == 13

ASSUME CashFlowAssumption ==
    /\ Amounts \cup Balances \subseteq Int /\ Dates \subseteq Int /\ LegacyWeeks \subseteq 1 .. 52
    /\ {PeriodDays, MaxRows, MaxLog} \subseteq Nat /\ Today \in Int
    /\ IsFiniteSet(Requests)

VARIABLES
    plans,      \* rows of cash_flow_plans
    balance,    \* bank accounts created so far: their balance
    log,        \* BALANCE_UPDATE audit entries, oldest first
    req,        \* the requests
    nextId,     \* next row id
    doubled,    \* history: weeks two upserts found empty at once, or one over an entry
    muddled     \* history: accounts updated twice at once, or left unlogged

history == <<doubled, muddled>>
vars == <<plans, balance, log, req, nextId, doubled, muddled>>

-----------------------------------------------------------------------------
(* Dates, weeks and the runway a row stores.                               *)

Min2(a, b) == IF a < b THEN a ELSE b
Max2(a, b) == IF a > b THEN a ELSE b

\* createPlannedEntry: the week of a date in its period, clamped to 1..13.
WeekOf(date) == Min2(Horizon, Max2(1, (date \div 7) + 1))

\* createOrUpdatePlan: the date of a week.
DateOf(week) == (week - 1) * 7

NoRunway == [whole |-> TRUE, hundredths |-> -1]

\* A quotient to two decimals, half away from zero, in hundredths.
Round2(num, den) ==
    IF num >= 0 THEN (200 * num + den) \div (2 * den)
    ELSE -((den - 200 * num) \div (2 * den))

\* Hundredths to whole units, half away from zero.
WholeUnits(x) == IF x >= 0 THEN (x + 50) \div 100 ELSE -((50 - x) \div 100)

\* calculateRunwayWeeks; null when nothing is spent.
RunwayWeeks(cash, num, den) ==
    IF num <= 0 THEN NoRunway
    ELSE LET h == Round2(cash * den, num)
         IN  [whole |-> h % 100 = 0, hundredths |-> h]

\* totalActiveCash: no code path deactivates an account.
TotalActiveCash == MapThenSumSet(LAMBDA a : balance[a], DOMAIN balance)

\* The runway stored with a row spending "out" fits its INTEGER column; nothing
\* reads it back, so the row of the model leaves its value out.
RunwayFits(out) == RunwayWeeks(TotalActiveCash, out, 1).whole

Row(id, week, date, flow, dir, amount, in, out) ==
    [id |-> id, week |-> week, date |-> date, flow |-> flow, direction |-> dir,
     amount |-> amount, inflow |-> in, outflow |-> out, balance |-> in - out]

\* A row of createPlannedEntry: one side only.
EntryRow(id, date, dir, amount) ==
    Row(id, WeekOf(date), date, "ENTRY", dir, amount,
        IF dir = "IN" THEN amount ELSE 0, IF dir = "OUT" THEN amount ELSE 0)

\* A row of createOrUpdatePlan: both sides may be given, and the direction and
\* the amount are those of the inflow whenever there is one.
WeekRow(id, week, in, out) ==
    Row(id, week, DateOf(week), "LEGACY", IF in > 0 THEN "IN" ELSE "OUT",
        IF in > 0 THEN in ELSE out, in, out)

-----------------------------------------------------------------------------
(* The state.                                                              *)

Idle == [op |-> "none"]

TypeOK ==
    /\ \A p \in plans : /\ p.id \in 1 .. MaxRows
                        /\ p.week \in 1 .. 52
                        /\ p.direction \in {"IN", "OUT"}
                        /\ p.flow \in {"ENTRY", "LEGACY"}
    /\ \A p, q \in plans : p.id = q.id => p = q
    /\ DOMAIN balance \subseteq Accounts /\ \A a \in DOMAIN balance : balance[a] \in Int
    /\ Len(log) <= MaxLog
    /\ \A r \in Requests :
         req[r].op \in {"none", "entry", "upsert", "delete", "balance", "log"}
    /\ nextId \in 1 .. MaxRows + 1
    /\ doubled \subseteq LegacyWeeks /\ muddled \subseteq Accounts

Init ==
    /\ plans = {}
    /\ balance = [a \in {} |-> 0]
    /\ log = <<>>
    /\ req = [r \in Requests |-> Idle]
    /\ nextId = 1
    /\ doubled = {}
    /\ muddled = {}

\* Prisma refuses a fraction for an Int column: the request fails, no row.
Insert(row, fits) ==
    IF fits
      THEN plans' = plans \cup {row} /\ nextId' = nextId + 1
      ELSE UNCHANGED <<plans, nextId>>

-----------------------------------------------------------------------------
(* POST /cash-flow/plans.                                                  *)

\* The date falls in a period (404 otherwise); the cash is read.
BeginEntry(r, date, dir, amount) ==
    /\ req[r] = Idle
    /\ date \in 0 .. PeriodDays - 1
    /\ req' = [req EXCEPT ![r] = [op |-> "entry", date |-> date, dir |-> dir,
                                  amount |-> amount,
                                  fits |-> dir = "IN" \/ RunwayFits(amount)]]
    /\ UNCHANGED <<plans, balance, log, nextId, history>>

\* cashFlowRepository.create.
InsertEntry(r) ==
    /\ req[r].op = "entry"
    /\ nextId <= MaxRows
    /\ Insert(EntryRow(nextId, req[r].date, req[r].dir, req[r].amount), req[r].fits)
    /\ req' = [req EXCEPT ![r] = Idle]
    /\ UNCHANGED <<balance, log, doubled, muddled>>

-----------------------------------------------------------------------------
(* POST /cash-flow.                                                        *)

BadMatches(week) == {}

\* findByPeriodAndWeek: rows of the week, whichever endpoint made them, in no
\* order.
Matches(week) == {p \in plans : p.week = week}

\* The request found no row where another one at work found none either, or it
\* found an entry, which it will turn into a row of its own.
DoublesUp(r, week) ==
    \/ /\ req'[r].found = 0
       /\ \E s \in Requests :
            req[s].op = "upsert" /\ req[s].week = week /\ req[s].found = 0
    \/ \E p \in plans : p.id = req'[r].found /\ p.flow = "ENTRY"

\* The cash is read, then the row of the week, then the period.
BeginUpsert(r, week, in, out) ==
    /\ req[r] = Idle
    /\ \E found \in IF Matches(week) = {} THEN {0} ELSE {p.id : p \in Matches(week)} :
         req' = [req EXCEPT ![r] = [op |-> "upsert", week |-> week, in |-> in,
                                    out |-> out, fits |-> RunwayFits(out),
                                    found |-> found]]
    /\ doubled' = IF DoublesUp(r, week) THEN doubled \cup {week} ELSE doubled
    /\ UNCHANGED <<plans, balance, log, nextId, muddled>>

\* The row found is overwritten; when it is gone the read that follows raises.
\* When none was found a row is inserted, even if one appeared since.
WriteUpsert(r) ==
    LET new(id) == WeekRow(id, req[r].week, req[r].in, req[r].out)
        old == {p \in plans : p.id = req[r].found}
    IN  /\ req[r].op = "upsert"
        /\ IF req[r].found = 0
             THEN nextId <= MaxRows /\ Insert(new(nextId), req[r].fits)
             ELSE /\ plans' = IF req[r].fits
                                 THEN (plans \ old) \cup {[new(p.id) EXCEPT !.week = p.week] : p \in old}
                                 ELSE plans
                  /\ UNCHANGED nextId
        /\ req' = [req EXCEPT ![r] = Idle]
        /\ UNCHANGED <<balance, log, doubled, muddled>>

-----------------------------------------------------------------------------
(* DELETE /cash-flow/plans/:id.                                            *)

BeginDelete(r, p) ==
    /\ req[r] = Idle
    /\ req' = [req EXCEPT ![r] = [op |-> "delete", id |-> p.id]]
    /\ UNCHANGED <<plans, balance, log, nextId, history>>

\* deleteMany; nothing left to delete is an error, without effect.
DeleteRow(r) ==
    /\ req[r].op = "delete"
    /\ plans' = {p \in plans : p.id # req[r].id}
    /\ req' = [req EXCEPT ![r] = Idle]
    /\ UNCHANGED <<balance, log, nextId, history>>

-----------------------------------------------------------------------------
(* Bank accounts.                                                          *)

\* POST /bank-accounts: no audit entry.
CreateAccount(a, amount) ==
    /\ a \notin DOMAIN balance
    /\ balance' = [b \in DOMAIN balance \cup {a} |-> IF b = a THEN amount ELSE balance[b]]
    /\ UNCHANGED <<plans, log, req, nextId, history>>

\* PATCH /bank-accounts/:id/balance reads the account,
BeginBalance(r, a, amount) ==
    /\ req[r] = Idle
    /\ a \in DOMAIN balance
    /\ Len(log) + Cardinality({s \in Requests : req[s].op \in {"balance", "log"}}) < MaxLog
    /\ req' = [req EXCEPT ![r] = [op |-> "balance", account |-> a, old |-> balance[a],
                                  new |-> amount]]
    /\ muddled' = IF \E s \in Requests : /\ req[s].op \in {"balance", "log"}
                                         /\ req[s].account = a
                    THEN muddled \cup {a} ELSE muddled
    /\ UNCHANGED <<plans, balance, log, nextId, doubled>>

\* then writes the balance,
WriteBalance(r) ==
    /\ req[r].op = "balance"
    /\ balance' = [balance EXCEPT ![req[r].account] = req[r].new]
    /\ req' = [req EXCEPT ![r].op = "log"]
    /\ UNCHANGED <<plans, log, nextId, history>>

BadWriteLog(r) ==
    /\ req[r].op = "log"
    /\ log' = Append(log, [account |-> req[r].account, old |-> balance[req[r].account],
                           new |-> req[r].new])
    /\ req' = [req EXCEPT ![r] = Idle]
    /\ UNCHANGED <<plans, balance, nextId, history>>

\* then the audit entry, with the balance it had read,
WriteLog(r) ==
    /\ req[r].op = "log"
    /\ log' = Append(log, [account |-> req[r].account, old |-> req[r].old,
                           new |-> req[r].new])
    /\ req' = [req EXCEPT ![r] = Idle]
    /\ UNCHANGED <<plans, balance, nextId, history>>

\* unless that last call raises: the balance is changed and the client is told
\* of an error.
FailLog(r) ==
    /\ req[r].op = "log"
    /\ muddled' = muddled \cup {req[r].account}
    /\ req' = [req EXCEPT ![r] = Idle]
    /\ UNCHANGED <<plans, balance, log, nextId, doubled>>

Next ==
    \E r \in Requests :
      \/ \E d \in Dates, dir \in {"IN", "OUT"}, x \in Amounts : BeginEntry(r, d, dir, x)
      \/ InsertEntry(r)
      \/ \E w \in LegacyWeeks, in, out \in Amounts : BeginUpsert(r, w, in, out)
      \/ WriteUpsert(r)
      \/ \E p \in plans : BeginDelete(r, p)
      \/ DeleteRow(r)
      \/ \E a \in Accounts, x \in Balances : CreateAccount(a, x) \/ BeginBalance(r, a, x)
      \/ WriteBalance(r) \/ WriteLog(r) \/ FailLog(r)

Spec == Init /\ [][Next]_vars

-----------------------------------------------------------------------------
(* The figures of the screens.                                             *)

Sum(f(_), S) == MapThenSumSet(f, S)

\* getAnalysis, normalizeAmount: the amount, or the side of the direction.
Normalized(p) ==
    IF p.amount > 0 THEN p.amount
    ELSE IF p.direction = "IN" THEN p.inflow ELSE p.outflow

Signed(p) == IF p.direction = "IN" THEN Normalized(p) ELSE -Normalized(p)

BadWeekIndex(p) ==
    LET weeks == (p.date - Today) \div 7
    IN  IF weeks < 0 \/ weeks >= 12 THEN -1 ELSE weeks

\* resolveWeekIndex: whole weeks from today, -1 outside of the thirteen.
WeekIndex(p) ==
    LET weeks == (p.date - Today) \div 7
    IN  IF weeks < 0 \/ weeks > 12 THEN -1 ELSE weeks

\* getAnalysis, weekly_net: rounded to whole units.
WeeklyNet(i) == WholeUnits(Sum(Signed, {p \in plans : WeekIndex(p) = i}))

\* getRollingPlan has its own week index and its own normalisation.
RollingIndex(p) ==
    LET weeks == (p.date - Today) \div 7 IN IF weeks \in 0 .. 12 THEN weeks ELSE -1

RollingIn(p) ==
    IF p.amount > 0 THEN (IF p.direction = "IN" THEN p.amount ELSE 0) ELSE p.inflow

RollingOut(p) ==
    IF p.amount > 0 THEN (IF p.direction = "OUT" THEN p.amount ELSE 0) ELSE p.outflow

Rolling(i) ==
    LET week == {p \in plans : RollingIndex(p) = i}
    IN  [inflows |-> Sum(RollingIn, week), outflows |-> Sum(RollingOut, week)]

Outflow(p) == p.outflow

BadRunwayStatus ==
    LET n == Cardinality(plans)
        r == RunwayWeeks(TotalActiveCash, Sum(Normalized, plans), n)
    IN  IF n = 0 \/ r = NoRunway THEN 0 ELSE r.hundredths

\* getRunwayStatus: the cash over the mean outflow of a row, null shown as 0.
RunwayStatus ==
    LET n == Cardinality(plans)
        r == RunwayWeeks(TotalActiveCash, Sum(Outflow, plans), n)
    IN  IF n = 0 \/ r = NoRunway THEN 0 ELSE r.hundredths

\* The dashboard's findRunwayWeeks, from a transaction of its own.
DashboardRunway ==
    LET n == Cardinality(plans)
        burn == Sum(Outflow, plans)
    IN  IF plans = {} \/ burn <= 0 THEN 0
        ELSE Round2(TotalActiveCash * n, burn)

-----------------------------------------------------------------------------
(* Properties.                                                             *)

\* A week has at most one row of POST /cash-flow, unless two such requests for
\* it were at work at once and both had found no row, or one of them found, and
\* turned into a row of its own, an entry that was planned in that week
\* (cash-flow.service.ts:358-403, cash-flow.repository.ts:175-183).
OneRowPerWeek ==
    \A p, q \in plans :
      /\ p.flow = "LEGACY" /\ q.flow = "LEGACY" /\ p.week = q.week
      /\ p.week \notin doubled
      => p = q

\* The runway of the cash screen and that of the dashboard, computed by two
\* services, are the same for every set of rows and accounts
\* (cash-flow.service.ts:405-432, dashboard.service.ts:530-557).
RunwaysAgree == RunwayStatus = DashboardRunway

\* The part of a row that only the plan tab counts: the inflow of one without a
\* positive side, a negative amount which POST /cash-flow stores as an OUT row
\* (cash-flow.service.ts:376 and 219).
Unseen(p) == IF p.amount <= 0 /\ p.direction = "OUT" THEN p.inflow ELSE 0

\* Week by week the plan tab and the analysis tab show the same net flow to the
\* unit, though one adds both columns and the other rounds the signed amounts:
\* rows whose amount is positive, and entries of any sign, count the same, and
\* what the two differ by is exactly the unseen part of the week's rows
\* (cash-flow.service.ts:57-70, 92-107 and 195-229).
TabsAgree ==
    \A i \in 0 .. Horizon - 1 :
      LET unseen == Sum(Unseen, {p \in plans : RollingIndex(p) = i})
      IN  WeeklyNet(i) = WholeUnits(Rolling(i).inflows - Rolling(i).outflows - unseen)

\* The audit entries of an account, by their places in the log.
EntriesOf(a) == {i \in DOMAIN log : log[i].account = a}

\* The audit entries of an account form a chain that ends at its balance, unless
\* two updates of it overlapped or an entry could not be written
\* (bank-accounts.service.ts:71-98).
AuditChain ==
    \A a \in DOMAIN balance \ muddled :
      /\ \A i, j \in EntriesOf(a) :
           i < j /\ (\A k \in EntriesOf(a) : k <= i \/ j <= k) => log[i].new = log[j].old
      /\ \A i \in EntriesOf(a) :
           /\ \A k \in EntriesOf(a) : k <= i
           /\ \A r \in Requests : req[r].op # "log" \/ req[r].account # a
           => log[i].new = balance[a]
=============================================================================
