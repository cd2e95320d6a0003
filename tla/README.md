# Jupiter Plan: formal models

Jupiter Plan is a budgeting and financial-planning service for companies that
keep their books in the SYSCOHADA chart of accounts. This directory holds TLA+
models of its server and of its web client, the TLC runs that check them and the
TLAPS proofs about them. Paths below are relative to `src/`, and `modules/` and
`common/` to `src/apps/api/src/`.

## 1. The system

| Part | Where | State it keeps | Operations that change it | Module |
|---|---|---|---|---|
| Budget workflow | `modules/budgets` | `budgets`, `budget_lines` | create, reforecast, updateLines, deleteLine, submit, approve, reject, lock, setAsReference, delete | `BudgetWorkflow` |
| Audit trail | `common/services/audit.service.ts` | `audit_logs` | createLog, called after the write it records | with the handlers |
| Transactions | `modules/transactions` | `transactions`, `budget_lines.amount_actual` | create, update, delete, validateBatch (with syncBudgetLines) | `PeriodClose` |
| Periods | `modules/periods` | `periods.status`, `financial_snapshots` | closePeriod | `PeriodClose` |
| Imports | `modules/imports` | `import_jobs`, `transactions` | processImport | `ImportJob` |
| Scenarios | `modules/scenarios` | `scenarios`, `scenario_hypotheses`, `financial_snapshots` | create, addHypotheses, calculate, save, delete | `ScenarioWorkflow`, `ScenarioProjection` |
| KPIs, alerts | `modules/kpis`, `modules/alerts` | `kpi_values`, `alerts`, Redis entries | calculateForPeriod, getValues (fills the cache), mark alerts read | `KpiCache`, `Kpis` |
| Sessions | `modules/auth` | Redis `refresh:<user>`, `login_attempts:<email>` | login, refresh, logout | `Session` |
| Users | `modules/users` | `users`, `user_department_scope` | invite, update, toggle, delete, change password | `Session` |
| Cash flow | `modules/cash-flow`, `modules/bank-accounts` | `cash_flow_plans`, `bank_accounts` | planned entry, week upsert, delete, update balance | `CashFlow` |
| Account mapping | `common/services/syscohada-mapping.service.ts` | none | resolves an account to statement, section and line type | `Accounts` |
| Dashboard, reports | `modules/dashboard`, `modules/reports` | a Redis entry | read only | `Figures`, `KpiCache` |
| Calculation service | `apps/calc` | none | arithmetic over HTTP; the queue worker only logs | `Statements` |
| Web client | `apps/web` | tokens in memory, cookie, query cache | login, refresh, retry, logout, edit a budget | `WebClient`, `BudgetEditor`, `Access` |

How they interact. The API is one NestJS process (or several) over PostgreSQL,
Redis and a BullMQ queue. Handlers are asynchronous functions; every `await` on
the database, on Redis, on the queue or on the calculation service lets another
request run. Few handlers use a database transaction, none takes a lock on what
it checked, and PostgreSQL runs at READ COMMITTED. So a *check* and the *write*
it guards are different steps of the system, and a handler that raises (or whose
process dies) leaves the writes it has made. Components meet in tables:

- closePeriod (periods) aggregates `transactions`, which transactions and
  imports change; it writes the `financial_snapshots` with a NULL `scenario_id`;
- scenarios read `budget_lines` and write `financial_snapshots` with their own
  `scenario_id`; deleting one sets that column to NULL, so its rows become
  indistinguishable from those of closed periods;
- KPI values are computed from transactions, budget lines and planned flows,
  stored, and cached twice; every screen mixes stored values with fresh ones;
- users and sessions share the Redis key `refresh:<user>`, which the browser
  mirrors in a cookie that all its tabs share;
- approveBudget adds a job to the queue and every transition an audit entry;
- what an account means is decided twice: by the mapping of the API and by the
  tables of the calculation service.

What makes each part correct, and what is hard about it, is the list `hazards`
of PROJECT.json, each at its line with the properties that watch over it. Four
of the hazards have no property: a note there says why. Some are races that really
happen, which no property could deny: then the property records them in a history variable,
shows that nothing else has their effect and, where it can, that the effect ends; the
note says which.

## 2. Modules

| Module | What it is |
|---|---|
| `BudgetLifecycle` | The budget workflow as the product documents it (Me/PROJECT_SUMMARY.md, section 7), one atomic transition at a time. The abstract specification. |
| `BudgetWorkflow` | BudgetsService and BudgetsRepository as they run, and their refinement of `BudgetLifecycle`. |
| `PeriodLifecycle` | Transactions and closings as the product documents them (Me/copilot-instructions.md, rule 4), each operation at once. The abstract specification. |
| `PeriodClose` | TransactionsService, the import's createMany and PeriodsService.closePeriod as they run, with what scenarios do to `financial_snapshots`, and their refinement of `PeriodLifecycle`. |
| `ImportJob` | One import from the upload to the page that waits for it: calls that raise, crashes, timeouts, files sent again, sockets. |
| `Session` | AuthService and UsersService over PostgreSQL and Redis. |
| `KpiCache` | A period's KPI values and alerts, the two cache entries built from them, and the requests that race on both. |
| `CashFlow` | Planned flows, bank accounts and the figures of the cash screens. |
| `ScenarioWorkflow` | ScenariosService as it runs. |
| `ScenarioProjection` | extends it: the arithmetic of both calculation modes and of the Python engine. |
| `Codes`, `Accounts`, `Statements`, `Kpis`, `Figures` | a chain of extensions: prefixes of account codes; the account mapping and the totals of a closing; the financial statements of the calculation service; the formulas and severities of the indicators; what each screen shows of them while the state changes. |
| `WebClient` | How a browser tab keeps its session. |
| `BudgetEditor` | extends it: the page of a draft budget on top of the calls of the tab. |
| `Access` | Roles of every handler against the pages and calls of the client. |
| `MC...` | Operation sets, data and symmetry of the instances. |
| `BudgetWorkflow_proofs`, `PeriodClose_proofs`, `ScenarioWorkflow_proofs`, `ImportJob_proofs`, `Session_proofs`, `KpiCache_proofs`, `Screens_proofs`, `BudgetEditor_proofs` | Inductive invariants and theorems; `Screens_proofs` those of `CashFlow` and of `Figures`, `ScenarioWorkflow_proofs` also those of `ScenarioProjection`, the last one also those of `WebClient`. |

Each module states its `TypeOK` (`FiguresTypeOK` in `Figures`): what its variables can be.
They are proved; no run lists them.

Conventions. One action is one database, Redis or queue call of a handler;
what a handler remembers between two of them is part of its request. A refused
request changes nothing and is not a step. `Fail` (or `Raise`, `Crash`) ends a
handler without its remaining writes. Variables marked *history* are never read
by a guard, but for the bounds named in section 3; they make an exception of a
property exactly as wide as the race or the failure that causes it. A definition
whose name starts with `Bad` is the definition after it with a plausible mistake
(a dropped guard, a wrong index, a missing reset): each property of each passing
run is violated when one of them takes the place of the real one, and the pairs
are `mutants` in PROJECT.json.

### BudgetWorkflow and the code

The rows of `budgets` are functions over `Budget`: `status` (with "UNUSED" before
the INSERT and "DELETED" after the DELETE), `fiscalYear`, `version`, `parent`,
`isReference`, and `lines[b][l]`, the `amount_budget` of a line or `NoLine`.
`calcQueue` is the set of budgets whose `budget-approved-recalc` job was added,
`logged` the `to_status` of a budget's last audit entry. `ever`, `broken`,
`referenced` and `interrupted` are history variables: they are never read by a guard.

`request[r]` is an HTTP request being served: the operation, where it stands and
what it remembers. A handler becomes two or more actions:

| Handler | Reads and checks | Then |
|---|---|---|
| submitBudget, rejectBudget, lockBudget | `Submit`, `Reject`, `Lock` | `SetStatus`, `CreateLog` |
| approveBudget | `Approve` | `SetStatus`, `EnqueueRecalc`, `CreateLog` |
| setAsReference | `SetAsReference` | `ClearReferences`, `FlagReference` |
| updateLines, deleteLine | `UpdateLines`, `DeleteLine` | `UpsertLine`, `DeleteLineById` |
| deleteBudget | `DeleteBudget` | `DeleteRows` |
| createBudget | `CreateBudget` | `GetNextVersion`, `InsertBudget`, `CopyLines` (if the parent had lines), `CreateLog` |

`Fail` ends a request at any step, without its remaining writes: a database or
queue call raised, or the process died.

What is abstracted, and why it is sound:

- A refused request changes nothing, so it is not a step. Role, department and
  rejection-comment checks only refuse more requests.
- `findByIdInOrg` loads a budget and its lines with one call; it is one
  consistent read. The actual amounts it adds are computed from transactions
  and decide nothing here.
- An `updateLines` request carries a list; its loop is one database transaction,
  and one entry of the list stands for it. An entry names a line or none; with
  none a new line gets a free identifier.
- The copy of a reforecast's lines gives them the identifiers of the originals.
  Line identifiers are scoped to their budget in the model, so these are free
  unless the new budget already got such a line by another request; those lines
  chose their identifiers freely, so no behaviour is lost when `Line` is large.
- `setStatus`, `update` and `deleteMany` address rows by id. On a row that is
  gone they write nothing; the handler goes on to its queue and audit calls.
  `update` of setAsReference then re-reads the row and raises.
- The partial unique index `budgets_one_reference_per_org_fy` is `IndexAllows`;
  the foreign key of reforecasts is ON DELETE SET NULL (`DeleteRows`).
- One organisation: every query filters on `org_id`.

### PeriodClose and the code

`txState`, `txPeriod` and `txAmount` are the rows of `transactions` ("unused"
before the INSERT; `is_validated` is the state "validated"). `snapPeriod`,
`snapScenario` and `snapData` are the rows of `financial_snapshots`, and
`actual[p]` the `amount_actual` of the budget lines of period p. Both tables hold
totals; a total is modelled by the set of transactions, each with its amount,
that it was computed from (`Counted`). Accounts, departments and the calculation
service only decide how a set is summed, and the mapping to totals is
deterministic: equal sets give equal totals. `touched`, `late`, `drifted` and `orphans` are history.

| Handler | Actions |
|---|---|
| create, the import's createMany | `InsertTransactions`: one INSERT; the period is only looked up, its status is not |
| validateBatch with syncBudgetLines | `ValidateBatch` (`Synced`) |
| update, delete | `BeginUpdate`, `BeginDelete` (the check), then `UpdateTransaction`, `DeleteTransaction` (by id) |
| closePeriod | `ClosePeriod` (status), `CountPending`, `ReadValidated`, then in its database transaction `FindSnapshot` and `CommitClose` |
| calculateScenario, deleteScenario | `UpsertScenarioSnapshot`, `DeleteScenario`: only what they do to `financial_snapshots` |

- validateBatch is one step. Its database transaction first validates, then resets
  the lines of each period, which takes their row locks: of two of them the second
  waits before it reads the transactions, and then sees the first.
- `CommitClose` is one step because it is one commit; `FindSnapshot` is another
  because at READ COMMITTED the `findFirst` of one closing may run before the
  commit of another.
- The `updateMany` that "opens" the next period only matches periods that are
  OPEN, so it changes nothing (`AfterClose`).
- Lines inserted after a validateBatch start without actual amounts; `actual`
  speaks of lines that existed at the last one.
- The status of a scenario is not in this module: any scenario that exists may be
  calculated or deleted, which allows more behaviours than the code.

### ImportJob and the code

`status` and `file` are the rows of `import_jobs`, `inserted` the jobs whose rows
are in `transactions`, `at[j]` where the handler of job j stands, `client` and
`sent` what the page knows of its last upload of a file, `connected` and `heard`
the sockets of the gateway. A user may send any file again at any time, since neither the page
nor the service looks for duplicates: `repeated` records it of a file that was answered DONE,
`blind` of one whose fate nobody knew.

| Code | Actions |
|---|---|
| ImportsController.upload, processImport up to the try clause | `Upload`, `SafeCreateAuditLog` |
| the try clause | `BeginProcessing`, `ReadRows`, `InsertTransactions`, `Complete`, `SafeCreateAuditLog`, `Announce` |
| the catch clause | `Catch`, `SafeCreateAuditLog`, `AnnounceFailure` |
| a call that raises, the process that stops | `Raise`, `CatchRaises`, `Crash` |
| the 30 seconds of the client, the sockets | `Timeout`, `Connect`, `Disconnect` |

A file is what decides its fate: without rows (`Empty`), with none accepted
(`Rejected`), or good. createMany is one statement, all rows or none. What the rows do
to an open or closed period is the subject of `PeriodClose`.

### Session and the code

`standing`, `role` and `scoped` are `users` and `user_department_scope`; `key` is
the set of users with a refresh key, `attempts` and `expiring` the counters of
failed logins and those with a time to live.

| Handler | Actions |
|---|---|
| login | `Login` (counter), `CheckCredentials` (account), then `CountFailure`, `SetExpiry` or `ClearAttempts`, `StoreRefreshToken` |
| refresh, logout | `Refresh`, `StoreRefreshToken`; `Logout` |
| inviteUser | `InviteUser`, with the writes of the repository in `CreateInvitedUser` |
| toggleUser | `BeginToggle`, `SetActiveState`, `Revoke` when it deactivates |
| changeMyPassword | `BeginPassword`, `UpdatePassword`, `Revoke` |
| deleteUser | `BeginDelete`, `Revoke`, `DeleteUser` |
| updateUser | `BeginUpdate`, `ClearDepartmentScopes` or `ReplaceDepartmentScopes`, `UpdateRole` |
| Redis | `ExpireKey`, `ExpireCounter` |

Whether a password is right is a choice. Tokens are not told apart here, only
whether a session predates a change that should have ended it (`old`); their
rotation is the subject of `WebClient`.

### KpiCache and the code

`values` and `alerts` are the rows of a period, `cache` its two Redis entries.
calculateForPeriod is `StartCalc` (all its reads), then for every definition
`DeleteValues`, `CreateValue`, `DeleteAlerts`, `CreateAlert` (if the severity calls for
one), and at the end `Invalidate`; `FailCalc` stops it anywhere. getValues and
getDashboard are `Lookup`, `ReadRows`, `Fill`; `Expire` is the time to live. The number
a formula gives is abstracted to the version of the inputs; `Kpis` has the
formulas. Nothing invalidates the entry of the dashboard, in the code as in the model.

### CashFlow and the code

`plans`, `balance` and `log` are `cash_flow_plans`, `bank_accounts` and the
BALANCE_UPDATE entries of `audit_logs`; dates are day numbers.

| Handler | Actions |
|---|---|
| createPlannedEntry | `BeginEntry`, `InsertEntry` |
| createOrUpdatePlan | `BeginUpsert`, `WriteUpsert` |
| deletePlan | `BeginDelete`, `DeleteRow` |
| bank accounts: create, updateBalance | `CreateAccount`; `BeginBalance`, `WriteBalance`, `WriteLog` or `FailLog` |

A row whose runway is not a whole number is refused by its INTEGER column
(`RunwayFits`). Amounts are hundredths of a unit, of any sign: the DTO of POST /cash-flow lets
a negative inflow through, which becomes a row of direction OUT with amount 0. The figures of the analysis tab, the plan tab, the runway and the
dashboard's runway are operators on the rows, each translated from its own code.

### Scenarios and the code

`ScenarioWorkflow` has a first step per handler (`AddHypotheses`,
`CalculateScenario`, `SaveScenario`, `BeginDelete`) and one action per write:
`ReplaceHypotheses`; `ResetStatus`, `UpdateCalculationMode`,
`UpsertScenarioSnapshot`, `MarkCalculated`; `MarkSaved`, `CreateLog`;
`DeleteScenario`. A snapshot is what it was computed from. `ScenarioProjection`
computes the figures, in units fine enough to be exact for the instance: `Global`
(totals), `TargetedAmounts` (the lines each hypothesis targets, after each of them) and
`EngineSummary` (`scenario_engine.py`, which only the tests of the service call).

### Figures and the code

`Accounts` holds the default table and the priority of mappings, and from them
the totals closePeriod sends and the transaction that an import makes of a row
(`ImportedType`, `Imported`); `Statements` the income statement with its cascade,
the balance sheet and the cash flow table; `Kpis` every formula, threshold and
severity. `Figures` adds what changes them (a transaction recorded, then validated, a planned
flow, a calculation, a closing, the calculation service that stops or starts) and the
operators of the screens: `KpiScreen`, `DashboardScreen`, `Summary`, `Variance`,
`BudgetActual`, `BudgetVariance`, `MonthlyData`, `StatementsScreen`, `Report`, `Listed`. The five
services that resolve a selection of periods have the same code for it, which is
modelled once (`Selected`); the cash flow tab has another (`CashFlowSelected`). Amounts are
hundredths of a unit; the chart shows `DepartmentsShown` departments (8 in the code), those
that spend most, and rounds every figure to a unit. MARGE and MARGE_EBITDA may both be
defined; only the one the database reads first (`FirstMargin`) is made again from the sums of
several periods. Requests are atomic here; how they race is the subject of the modules above.

### Web client and the code

`WebClient` models one tab: calls with the access token they carry, the 401 path
of the interceptor (`Wait`, `Lead`, `Renew`, `NotRenewed`, `GiveUp`), tryRefresh on
loading (`Boot`, `Booted`, `NotBooted`), login and logout (whose answer clears the cookie even
when Redis fails to delete the key, `FailLogout`: a session is `leftover`), and the server's two-step
rotation (`Verify`, `Store`); another tab of the same browser refreshes on its own
(`OtherBoots`). `BudgetEditor` adds the page: `Load`, `EditLine` and `DuplicateLine`,
each of which sends the whole copy of the lines back, `Saved` (invalidate and load
again), `Loaded`, `Failed`, and the invalidations of other parts of the application, which cancel
a load in flight (`Invalidated`). Every step of the page is a step of `WebClient`
with what it does to the page. `Access` is a table
against a table: the roles each controller names, and the pages of App.tsx with
the calls they make or offer.

### Properties

Of `BudgetWorkflow`, whatever interleaves and wherever requests stop:

- `AtMostOneReference`: a fiscal year never has two reference budgets.
- `ReferenceNotLost`: it does not lose the one it had to a race: only while a
  request is between its two statements, after a request stopped there (until the next
  one that succeeds, `interrupted`), or with the deletion of a budget that had been LOCKED. A
  failed audit entry, job or copy is no excuse. This relies on the old
  reference being cleared first and the index refusing only a second one; a
  recheck of the status in the second statement, say, would break it.
- `NoStageSkipped`: APPROVED only after SUBMITTED, LOCKED only after APPROVED,
  as *history*: late writes may take a budget back and forth, but not around.
- `LoggedApprovalIsQueued`: a logged approval has its job.

With one request at a time (failures included): `Implements`, every behaviour is
one of `BudgetLifecycle`; `SideEffectsComplete`, between requests the last audit
entry names the status and approved budgets have their job, unless a request
stopped half-way. Both fail as soon as two requests interleave; no document
promises them under concurrency except through the rules of section 5.

Of `PeriodClose`, whatever interleaves:

- `ClosedIsExact`: a CLOSED period has a snapshot of exactly its validated
  transactions, and no other snapshot of actual data shows anything else. Two
  exceptions, both recorded and neither wider than what happens: the validated
  transactions of the period changed after a closing had read them (`touched`:
  a validation or a late update while the closing runs or afterwards), and
  snapshots left by deleted scenarios (`orphans`). Duplicates are allowed, and exact.
- `SnapshotsAreClosed`: but for orphans, only CLOSED periods have snapshots: a
  closing that stops leaves none.
- `PendingCameLate`: what is pending in a CLOSED period came into it after the closing had
  counted (`late`); nothing that was there is passed over.
- `ActualsFollow`: the actual amounts of the budget are those of the validated
  transactions, although only validateBatch computes them, but for the periods where a change
  or a deletion hit a transaction validated since it was read (`drifted`, until the next
  validation).

With one request at a time: `ClosesAtOnce`, every behaviour is one of `PeriodLifecycle`
under the mapping `Reported` (what is reported of a period is what its snapshots of actual
data show, but for orphans): the five calls of a closing close the period and report
exactly what is validated, all at once or not at all, however scenarios come and go in the
same table.

Of `ImportJob`: `DoneMeansInserted` (a job is DONE exactly when its rows are in, but
while it is about to say so or could not), `ImportedOnce` (the rows of a file enter
once, unless the user sends it again after a DONE or without knowing the outcome, or an
attempt inserted and could not record it: sending again after a FAILED or an error is safe), `JobEnds` and `PageAnswered` (liveness).

Of `Session`: `SessionsEnd` (no session outlives a deactivation, a deletion or a new
password, but for the recorded races and failures), `LockoutBound` (concurrent
logins overshoot the limit by at most one each), `LockEnds` (liveness: a locked
address is unlocked), `ScopesMatchRole` (a contributor has departments and nobody
else does, unless updates overlap or stop).

Of `KpiCache`: `Settled` (what a calculation that ran alone leaves, whatever
earlier ones left), `CacheIsCurrent` (when the entry may be stale), `CachesCatchUp`
(liveness: once calculations are over both screens come back to the table).

Of `CashFlow`: `OneRowPerWeek` (one row of POST /cash-flow for a week, unless two upserts
found it empty at once or one took over an entry), `RunwaysAgree` (two services, one runway),
`TabsAgree` (week by week both tabs show one net flow to the unit, and differ by exactly
what a row without a positive side holds, `Unseen`), `AuditChain` (the entries of an account
follow each other up to its balance, unless two updates overlap or one is not logged).

Of the scenarios: `SnapshotMatches`, `SavedIsFinal`, `SavedIsLogged`, and
`ModesAgree`: the two modes agree where they speak of the same lines (`SameLines`), and the
Python engine with the targeted mode where it reads the hypotheses alike (`EngineReads`)
and no line goes below zero or has to be rounded on the way (`AlwaysAmounts`).

Of `Figures`: `NetsAgree` (a closing's net result and the statements of the period;
the sign an import gives a row and the type that reports give it), `ScreensAgree`
(one turnover on the indicators page and in the statements of a selection; reports, statements and
the validated part of the list of transactions; the cash flow tab's own selection),
`SeveritiesAgree` (dashboard and indicators page), `DashboardAddsUp` (the summary; the chart's
departments against its months within their rounding, and as much where there is room
for all of them; variances by label, never more than was validated) and `ActualsAgree` (a line's
actual amount and its variance in the budget and on the dashboard). Each states under which condition the two computations agree,
and the real disagreements are the exceptions they name.

Of the web client: `InSync` (the cookie is the token the server holds, none after a
logout that left the key behind, and after two exchanges that overlapped the next login
makes it true again), `SavedOnce` (a
save runs once, however often its call is refused and sent again), `OwnEditsSurvive`
(a save changes no line but its own, although it sends them all), `EverySettles`
(liveness: no call is forgotten), `PagesLoad` (the calls of the pages are accepted,
but for the list of section 5).

## 3. Runs

| Run | Instance | Shows |
|---|---|---|
| `budget_concurrent` | 2 requests, 2 budgets of 1 fiscal year, 1 line, 1 amount; create, updateLines, submit, approve, lock, setAsReference | `NoStageSkipped`, `LoggedApprovalIsQueued`, `AtMostOneReference`, `ReferenceNotLost` |
| `budget_serial` | 1 request, 2 budgets, 2 fiscal years, amounts 0 and 1, every operation | `Implements`, `SideEffectsComplete` |
| `budget_locked_final` | 2 requests, 1 budget | `LockedIsFinal` is violated |
| `close_concurrent` | 2 requests, 2 consecutive periods, 2 transactions, 2 amounts, 2 snapshots, 1 scenario | `ClosedIsExact`, `PendingCameLate`, `ActualsFollow`, `SnapshotsAreClosed` |
| `close_serial` | 1 request, 3 snapshots, the same otherwise | `ClosesAtOnce` |
| `scenario` | 2 requests, 1 scenario, both modes, 4 lists of hypotheses on a budget of 5 lines | `SnapshotMatches`, `SavedIsLogged`, `SavedIsFinal`, `ModesAgree` |
| `import` | a good, a rejected and an empty file, 2 jobs, 1 socket | `DoneMeansInserted`, `ImportedOnce`, `JobEnds`, `PageAnswered` |
| `session` | 2 requests, 1 account, 2 failures lock it | `SessionsEnd`, `LockoutBound`, `ScopesMatchRole`, `LockEnds` |
| `kpi` | 2 calculations, 1 reader, 2 KPIs, 2 versions of the inputs | `Settled`, `CacheIsCurrent`, `CachesCatchUp` |
| `cashflow` | 2 requests, 1 account, 1 date, 1 week, amounts of both signs with a fraction, at most 2 rows and 2 balance updates | `OneRowPerWeek`, `RunwaysAgree`, `TabsAgree`, `AuditChain` |
| `figures` | 4 transactions, one pending at a time, 1 planned flow, 5 budget lines, 3 periods of 2 years, 2 mappings, a chart of 1 department | `NetsAgree`, `ScreensAgree`, `SeveritiesAgree`, `DashboardAddsUp`, `ActualsAgree` |
| `web` | 2 calls at a time, 1 edited line, 2 amounts, another tab | `InSync`, `SavedOnce`, `OwnEditsSurvive`, `EverySettles`, `PagesLoad` |

Bounds. Most instances are bounded by the sizes of their constant sets alone.

- *Budgets.* Budgets are created at most `Budget` times, so versions are bounded too.
  Two slots give a stale request and one that moves the budget under it; two budgets
  of one fiscal year are needed for two references, for a reforecast and for a clear
  that hits another budget. Rejections, deletions and emptied budgets are in
  `budget_serial` (where amount 0 makes a zero total), and the proofs have them for any
  number of requests. Two fiscal years show that the clear and the versions are per year.
- *Closings.* Two requests give every race of a closing with an edit or with another
  closing; two snapshots leave room for two closings of one period, or a closing and an
  orphan, and three in the serial run for both periods and an orphan; two transactions let
  one be validated while the other changes; two consecutive periods show what closing one
  does to the next, and let a change move a transaction into a period being closed. The proofs cover any number of each.
- *Scenarios.* The lists of hypotheses hold a growth by a rate and by a multiplier, an
  amount, a reduction that meets the floor at zero, an investment and a delay.
- *Imports.* Two jobs are an attempt and a second one; three files are the three fates.
- *Sessions.* Two requests at a time on one account; other accounts share nothing with
  it. Two failures lock it (`MaxAttempts`; five in the code).
- *KPIs.* Between the two inputs one KPI returns to INFO and the other leaves it. Each
  calculation is asked for once, which is also what lets `CachesCatchUp` speak of the end.
- *Cash flow.* `MaxRows` bounds the rows ever inserted, `MaxLog` the balance updates.
  Today is ten weeks before the period: day 16 (week 3, also the week of the upserts) is
  in the last of the thirteen weeks. The amounts are one and a half units, of either sign:
  what the tabs round, and what POST /cash-flow stores without an amount.
- *Figures.* `MaxPending` transactions are pending at a time and `MaxClosed` periods closed, and indicators for the periods of `Calculated` only: the
  second year's part is to have another open period, with the lower number.
- *Web.* Two calls are one that leads a refresh and one that waits. One line is edited and one
  added; a second edited line multiplies the states beyond a run of a few minutes, and
  `EditsSurvive` covers any number of lines and forms. `OtherBoots` happens
  only while nothing is `tangled`, and an edit only while nothing is `unsure`: both
  only stop what follows a disturbance that the properties except anyway.

Symmetry is used only in runs without liveness properties, and no operator
distinguishes the permuted values.

Deadlock is checked except where the system may really stop in the model: `import`
(job identifiers used up), `scenario` (every scenario deleted), `kpi` (every
calculation done and nobody reading), `cashflow` (the bounds used up).

Fairness, assumed only by the runs with liveness properties, and weak everywhere:

- `import`: a handler whose process lives goes on, because its pending call returns or
  raises. Nothing is assumed of clients, sockets or a crashed process.
- `session`: handlers go on, and Redis drops a counter whose time is over.
- `kpi`: calculations and readers that run go on, and Redis drops entries.
- `web`: the server answers a call or the client stops waiting for it (30 seconds), a
  refresh too, and the code of the page runs. Users need do nothing.

The safety properties hold without any of it.

## 4. Proofs

What TLC checks on an instance the theorems state for every value of the constants
that satisfies the assumptions of the module: any number of rows, users, requests,
files, calls. The proofs have one shape. `Inv` is an inductive invariant, checked
with TLC on the instances of section 3 before it was proved; each action has
a lemma that it preserves `Inv`, with what a step does to the other requests stated
once in front; `Init => Inv` and these lemmas give `Spec => []Inv`, and the
properties follow. What makes them interesting is what `Inv` has to say of the
requests in flight, since a handler writes long after it has checked.

| Module | Theorems |
|---|---|
| `BudgetWorkflow_proofs` | `AtMostOneReference`, `ReferenceNotLost`, `NoStageSkipped`, `LoggedApprovalIsQueued`, `Consistent`, `BaselinesWereLocked`; with one request at a time `Implements`, `SideEffectsComplete`, `LockedIsFinal`, `ReforecastsOfLocked`, `VersionsDiffer` |
| `PeriodClose_proofs` | `ClosedIsExact`, `SnapshotsAreClosed`, `PendingCameLate`, `ActualsFollow`, `OnlyValidatedCounted`, `ClosedForever`; with one request at a time `ClosesAtOnce`, `NothingDrifts`, `ValidatedIsFrozen` |
| `ScenarioWorkflow_proofs` | `SnapshotMatches`, `SavedIsLogged`, `SavedIsFinal`, `ModesAgree` |
| `ImportJob_proofs` | `DoneMeansInserted`, `ImportedOnce` |
| `Session_proofs` | `SessionsEnd`, `ScopesMatchRole`, `LockoutBound` |
| `KpiCache_proofs` | `Settled`, `CacheIsCurrent` |
| `Screens_proofs` | `OneRowPerWeek`, `RunwaysAgree`, `TabsAgree`, `AuditChain`, and which outflows `RunwayFits` accepts; `NetsAgree`, `ScreensAgree`, `SeveritiesAgree`, `DashboardAddsUp`, `ActualsAgree` |
| `BudgetEditor_proofs` | `InSync`, `SavedOnce`, `OwnEditsSurvive` |

and `TypeOK` in each.

### Budget workflow

`BudgetWorkflow_proofs` proves, for any sets of budgets, fiscal years, lines,
amounts and concurrent requests, finite or not, `Spec => []P` for P = `TypeOK`,
`Consistent`, `AtMostOneReference`, `ReferenceNotLost`, `NoStageSkipped`,
`BaselinesWereLocked` and `LoggedApprovalIsQueued`. Assumed of the constants:
amounts are integers, and the values for "none" are not budgets, lines, years or
amounts (`AmountAssumption`, `AbsentAssumption`).

The argument. None of the invariants is inductive: `SetStatus` writes LOCKED with
no check at all, and only what the request read long before makes this right.
`Inv` is the conjunction of the seven; the two that carry the others are
`RequestJustified`, which says what an in-flight request may still rely on (the
milestones it saw, which are never undone, and not the status it saw, which may
be), and `RowConsistent`, which ties statuses to milestones. Most steps only move
the database `Forward`; `OthersJustified` then keeps all the other requests
justified, and each action has a lemma that shows what it does to its own
request and to each conjunct. `StepInv` puts the lemmas together and
`Invariance` is the temporal step.

The refinement. Under `Serial` (any two request slots are the same one) what the
request has checked is still true when it writes. `SerialInv` adds to `Inv` that a
reference is LOCKED, `ChecksHold` (the status, the total and the other references are
as the handler found them at each of its steps) and `SidePending` (which side effects
are done and which are still the request's own to do). `SerialStep` shows that each
action is one whole transition of `BudgetLifecycle` (the write: `SetStatus`,
`UpsertLine`, `DeleteRows`, `FlagReference`, ...) or leaves its variables alone; the
refinement mapping is the identity on `status`, `fiscalYear`, `lines` and
`isReference`. `HandlersImplement` is `Spec => Implements`, `SideEffectsDone` is `Spec
=> []SideEffectsComplete`. Without `Serial` both are false: that is section 5.

What else one request at a time gives, and two do not. `LockedWithOneRequest`: LOCKED is
final. That is an action property and follows from `ChecksHold` alone: the only steps that
change a status find the one they have checked. `BaselinesStayLocked`: the parent of a
reforecast is LOCKED when the row is inserted, and ever after. `VersionsUnique`: no two budgets
of a fiscal year have one version. The last two share the invariant `BaselineInv`, which says
them of the rows and of the request that is about to insert: its parent still is LOCKED,
and the version it has read is still above those of all budgets of the year.

### Closing

`PeriodClose_proofs` proves, for any sets of periods (natural numbers), transactions,
amounts, snapshots, scenarios and requests, `Spec => []P` for P = `TypeOK`,
`OnlyValidatedCounted`, `ClosedIsExact`, `SnapshotsAreClosed`, `PendingCameLate` and
`ActualsFollow`, and `Spec => ClosedForever`. A closing writes what it read two calls before, so `ClosedIsExact`
needs `RequestJustified`: what a closing has seen is what is validated now, unless
its period is in `touched`, and the row it found is a snapshot of its period. That
the found row is still one when it is written rests on `FreeRows`: a row gets a
scenario only when it is inserted. Steps fall into three kinds with a lemma each
(`LedgerStep`, `MoveStep` and the three that write snapshots).
With the further assumption `Serial` (any two request slots are the same one) it
proves that no write is late and the budget never drifts from the ledger (`NothingDrifts`,
`ValidatedIsFrozen`): then what
a request has checked (`ChecksHold`) is still true when it writes: a transaction it will change
is pending, a period it will close is OPEN, without pending transactions, and what it has
read is what is validated.

The refinement rests on the same `SerialInv`. The steps that write the ledger are the
operations of `PeriodLifecycle` (`LedgerAtOnce`); of a closing only the commit is one, and the
calls before it stutter. `CommitAtOnce` has to show that it reports what is validated
and that it is all that is reported: by `SnapshotsAreClosed` an OPEN period has no snapshot
but orphans, so the row that is updated or inserted is the only one left, and by `FreeRows`
and `RequestJustified` it is nobody's projection. `ScenariosUnreported`: a projection is not
a snapshot of actual data, and what is left of a deleted one is an orphan. The theorem is
`HandlersActAtOnce`.

### Scenarios

A calculation takes five writes, and what it stores is right only if what it read at
the start still holds at each of them. `Grounded` says so for every place of a request:
it came upon the status its handler asks for, and unless somebody wrote on an outdated
read (`raced`), the scenario has the hypotheses that were projected, then the mode, then
the snapshot. `SavedIsFinal` is an action property: from `Inv`, a step that changes the
snapshot of a scenario that readers compare is that of a request whose read is outdated,
or the deletion. Assumed: the default values are among the values, and the ones
for "none" are not (`ScenarioAssumption`).

With one request at a time (`Serial`) the status a request read is still that of its
scenario at each of its writes (`SerialInv`), so `raced` stays empty (`RacesTakeTwo`) and the
snapshot of a CALCULATED or SAVED scenario always matches (`SerialSnapshotsMatch`): what
`SnapshotMatches` and `SavedIsFinal` except is the work of two requests and nothing else,
stopped requests included.

`ModesAgree` is arithmetic, of any finite set of budget lines with amounts in whole units and
any lists of hypotheses (`ProjectionAssumption`). The modes: a list of which at most one
hypothesis is a growth leaves the lines as they were until that one, and the sum of the lines
multiplied by its rate is the sum multiplied by it (`ScaledTotal`), by induction over the
subsets of the set of lines, since a sum of the community modules is a fold (section on
figures below); the delays are sums over the same totals. The engine: by induction over the
length of the list (a set of naturals again), the amounts it has after each hypothesis are
those of the targeted mode, since the floor at zero and the rounding are the identity on
amounts that are not negative and have no fraction (`EngineOfTargets`). That condition was
found by the proof: TLC had agreed on rates whose figures never need rounding.

### Imports

`ImportedOnce` relates jobs to each other through what the page was told. `Followed`
keeps it: unless a file was sent again blindly or after a DONE, a job that runs is the one the page waits
for or gave up on, and one whose rows are in was never reported as failed; so a
second job of the file starts only after a first one without rows. `Placed` says
what the place of a handler tells of the status and the rows of its job.

### Sessions

The three concerns share the typing and are proved apart. *Sessions:* a request that
passed its checks may store a session long after they stopped being true; unless it is
marked `outdated` its account is active. *Scopes:* an update writes scopes and role in
two steps; `Relying` says what the scopes match before, between and after. *Counter:* the
failures of an address and the requests that are about to count one are together at most
`MaxAttempts - 1 + Cardinality(Request)`, which is an argument about the cardinality of a
set of requests (hence the assumption that `Request` is finite): a request enters it only
below the limit, and leaves it as the counter goes up.

### Indicators and their cache

Nothing holds the writes of a calculation together. For a calculation that no other one
overlaps, `Written` says definition after definition what it has written: the rows
before its place in the loop are its own, those from there on are anyone's. At the end
of the loop that is `Settled`, for any list of definitions with a first one (a KPI that
occurs twice included) and any table of severities.

### Cash flow

`OneRowPerWeek`: unless the week is `doubled`, no two upserts found it empty at once, and that
one found nothing, or whose row it found, still holds when it writes (`UpsertAlone`).
`AuditChain`: an update of an account that is not `muddled` is alone on it, the balance
it read is the one it replaces, and until its entry is appended the last one holds
the balance it replaced (`UpdateAlone`, `LastEntry`).

`RunwaysAgree` is arithmetic: two roundings of one quotient, one of them with a null.
`TabsAgree` needs induction over the rows of a week, since both sides are sums over a
set. A sum of the community modules is a fold, defined by the choice of a function that
satisfies a recursive equation; that such a function exists (`PartialSums`) and that the
three sums keep the relation of their terms (`NetOfSums`) are proved by induction on
cardinality; the rounding of the net goes through since both sides round one number. The induction is that a set of naturals with 0 that is closed under
successor has them all (`NaturalInduction`), from the minimal elements of well-founded
relations: a statement about a set, not about an operator. `RowsCount` is the
invariant that ties the amount and the direction of a row to its two columns, from which
follows what a row that the plan tab alone counts (`Unseen`) holds.

`WholeRunways` says which rows the INTEGER column takes, for any cash and outflow: those
whose quotient is within half a hundredth of a whole number of weeks. An outflow above
the cash and not above 200 times the cash is always refused.

Assumed: amounts and balances are hundredths of any sign, dates integers, weeks 1 to 52, and
finitely many requests. Rows and accounts need not be bounded by the instance.

### Figures

Most of what the screens show is computed when it is read, so `FiguresInv` is about the two
things that are stored: the values of a period are those of a calculation over some of
the transactions and flows it has now, made with the service up or down
(`CalculationsKept`), and a snapshot is what a closing makes of transactions that the
period still has (`ClosingsKept`). The rest is arithmetic of a state, for any finite sets of
transactions, flows, lines and periods and any table of `OneSided` mappings.

*Sums.* A fold takes the elements of a set in an order nobody knows. `SumOfPick`, `SumOfRemove`,
`SumOfParts` and `SumOfGroups` show that a sum does not depend on it: any element may be
taken first, a set may be split in two or in groups. One lemma for each shape of summand
(`AmountSums`, `MagnitudeSums`, ...) connects the sums of the model to these.

*`NetsAgree`.* The net result of the statements is a cascade of sums, one for each line, each of
which selects accounts by prefixes. Written out, it is the signed sum over the income
lines, and the sum over a transaction's lines is one amount when exactly one line counts it
(`CascadeAddsUp`, `LinesAddUp`): that is what `Reconciled` asks of an account. The sign of an
imported row needs `OneSided`: a mapping of the income statement has the section, the rule
and the type of one side. The code writes no other (the migration and the seed of the
detailed accounts are the only writers of the table), and TLC checks the default table.

*`SeveritiesAgree`.* One screen grades the rounded value, the other the quotient. Half-up
rounding moves a quotient by half a hundredth at most and thresholds are whole, so the two are
on the same side of a threshold, in hundredths, unless the rounded value is at it
(`RoundedCompare`). While the service is down the first margin is graded on one screen and not
on the other: the exception for `FirstMargin`.

*`ScreensAgree`.* While the service answers, its statements of the selected transactions
replace the turnover added up from the stored rows; where nothing is selected nothing replaces
it, but then every row was calculated from no transaction, and they are all zero
(`TurnoverSame`). This is where `IsCalculated` is needed. That the validated part of the list
is what the report counts rests on a transaction being pending or validated, never both.

*`DashboardAddsUp`*, *`ActualsAgree`.* Departments and months divide the same transactions; rounding
each figure moves its sum by half a unit for each of them at most, and departments
left out of the chart only lower theirs. Labels divide the lines, lines divide the transactions (`SumOfGroups`); the sum of magnitudes is
the magnitude of the sum when all have one sign, and above it otherwise (`SumOfMagnitudes`).
The proofs showed what TLC's data did not: the summary needs mappings and indicators that
take the same accounts for sales and charges (`SameAccounts`), and two reference lines of one
account and department count their transactions twice (`OneLineEach`).

### Web client and editor

*Session of the tab:* at each stage of a refresh, a login or a logout one of the server
and the browser is ahead of the other; `Tokens` says which, and that without a
disturbance (`tangled`) no two of them overlap; a key that a failed logout left behind (`leftover`)
has no cookie until a login. *Page:* `Waiting` says which call or load a
form waits for, `Carried` what calls carry, and that a save that ran has its answer before
it can be sent again, whence `SavedOnce`. `Copies` says that on a page that lost no answer,
never saved two forms at once and had no reload cancelled after a save, the copy that is shown, the one that is loaded and the
one that is sent differ from the database in the edited line alone, whence
`OwnEditsSurvive`, an action property.

### What no run lists

The `TypeOK`s, `ValidatedIsFrozen`, `ReforecastsOfLocked` and `VersionsDiffer`, `LockedIsFinal` with
one request (with two it is the violation of `budget_locked_final`), `WholeRunways`, `RowsConsistent`, `BaselinesLocked` (references and parents of reforecasts
have been LOCKED in the same fiscal year), `NothingDrifts`, `CountsAreValidated` (nothing that was never
validated is counted in a snapshot or a budget line) and `ClosingIsIrreversible` (a CLOSED
period stays so, although closing one period writes the status of the next).

### What stays with TLC

- Liveness (`JobEnds`, `PageAnswered`, `LockEnds`, `CachesCatchUp`, `EverySettles`): out of
  the reach of this prover, which knows neither fairness nor ENABLED.
- `LockedIsFinal` with two requests, which is violated.
- `PagesLoad`: two finite tables of the client and the server, without a parameter or a
  variable; evaluating them, as TLC does, is already the whole truth.
- That the default table has no overlapping families, and what a given account is mapped
  to: account codes are strings, and the provers know nothing of their characters. The
  theorems of `Figures` hold whatever accounts begin with whichever prefix.

## 5. Where the documents and the code differ

Checked: "LOCKED : irréversible" (Me/PROJECT_SUMMARY.md:139). An approveBudget that read
SUBMITTED writes APPROVED after another request has approved and locked the budget:
`budget_locked_final`, 2 requests.

What the models showed while they were written (each is in a module, as the behaviour
of the code or as the exception of a property):

- "Budget LOCKED → jamais modifiable" (Me/JUPITER_PLAN_RESUMÉ_24_03.md:242): a line edit
  that read DRAFT lands after submit, approve and lock (budgets.service.ts:410).
- "should create audit_log on every status transition" (budgets.service.spec.ts:236): the
  transition is committed before the job and the entry are written (`broken`).
- "Transactions en attente → clôture bloquée" (Me/copilot-instructions.md:168) and "Cannot
  modify a validated transaction" (transactions.service.ts:246) fail with two requests:
  the check and the write are different calls. `PendingCameLate` says what can be pending in
  a CLOSED period; with one request `ValidatedIsFrozen` holds.
- "null = données réelles" (Me/PROJECT_SUMMARY.md:125): a deleted scenario leaves its
  snapshots with a NULL scenario (`orphans`).
- createInvitedUser re-reads the account outside its transaction and does not find it
  (users.repository.ts:220): the account stays, no mail and no audit entry follow, and
  inviting again is refused (`InviteUser`).
- runway_weeks is an INTEGER (schema.prisma:504) and the service computes two decimals
  (cash-flow.service.ts:482): outflows are refused unless the quotient is whole (`Insert`), so
  any above the cash and up to 200 times the cash (`WholeRunways`).
- Two lines of the reference budget with one account and department both count its
  transactions, and the table of variances shows them twice (dashboard.service.ts:472, :587).
- Two creations at a time may get one version, and a reforecast may be inserted when its parent
  is not LOCKED any more; one at a time they do not (`VersionsUnique`, `BaselinesStayLocked`).
- The turnover of an indicator is that of the accounts 70 when the calculation service
  does not answer, and XB of the statements when it does (kpis.service.ts:222,
  calc/utils/syscohada_mapping.py:49); calculateForPeriod's own request lacks required
  fields and is refused unless it is empty (`Answered`).
- The subtotals of a closing's net result subtract depreciation and taxes twice
  (`SnapshotOf`); accounts 61 and 73 are in no line of the statements and 87 in two; the
  opening treasury is always 0 and the DSO always 73 when there are sales.
- In GLOBAL mode marketing_increase and overhead_reduction do nothing, and neither does a
  multiplier of payroll or investment; a targeted amount is added on every line it
  targets. The Python engine taxes 30 % (20 % in the API), adds reductions given as amounts, and
  rounds after each hypothesis where the API rounds once, at the end.
- The active period is the OPEN one with the highest number over all years. With an empty
  selection the statements show the active period, reports nothing, the list of
  transactions everything; a range of one month resolves to nothing except in the
  cash flow tab.
- The audit trail has no entry for a closing, against Me/copilot-instructions.md:182, and
  closePeriod does not open the next period (`AfterClose`), against :177. Two closings at a
  time insert a snapshot each: UNIQUE does not compare NULLs (schema.prisma:574).
- POST /cash-flow overwrites a planned entry of the same week (`doubled`).
- A recalculation replaces alerts, and so makes them unread; read-all also marks alerts
  that no screen shows. The dashboard's invalidate methods have no caller.
- Calls that a page makes or offers and the API refuses (`KnownRefusals`): the list of
  budgets to a CONTRIBUTEUR (budget page) and a LECTEUR (scenario pages), the alerts of
  the bell to a CONTRIBUTEUR, `GET /fiscal-years` to everybody (no route), and buttons shown
  without a role: create a scenario and calculate KPIs to a LECTEUR, the actions of a budget
  to both, validate-batch, create, delete and set-reference to a CONTRIBUTEUR. A
  CONTRIBUTEUR's login leads to the dashboard, which leads to itself and shows nothing.
- A 401 that is not about the token (wrong password at login, wrong current password) goes
  through the interceptor as well: refresh, send again, and log out. A reload during a
  refresh may lose the session (`tangled`). A logout that Redis refuses (500) clears the cookie all
  the same and leaves the key (`leftover`); one whose answer is lost leaves the cookie.
- Importing a file again after a DONE, or before the first import has ended, enters its rows
  twice (`repeated`, `blind`): nothing looks for duplicates (imports.service.ts:192).
- A negative inflow alone is stored as an OUT row with amount 0: the plan tab counts it, the
  analysis tab does not (cash-flow.service.ts:376, `Unseen`).
- A save that ran and whose answer was lost is not repeated by the client, but may be by
  the user: a line added twice (`unsure`). A copy that a colleague has outdated overwrites
  his amounts.

## 6. Plan

1. Abstract specifications: a session register that holds one token or none, and the life of a
   scenario, each implemented by its module for one request at a time, in the way
   `HandlersImplement` and `HandlersActAtOnce` are proved.
2. `Figures` with requests that overlap: `PeriodClose` knows which transactions a snapshot
   counts and `Figures` what is computed of them; a module that composes the two would say
   which screen shows a late change first.

## 7. Not modelled, and why

Comments are independent single-row writes, and fiscal years one query: only their roles
are in `Access`. The settings of an organisation and profile fields are single-row
updates. Guards are modelled by the roles they name; one organisation is modelled, since
every query filters on `org_id`, and departments only restrict who may edit a line.
Filters, interceptors of the server and the layout of exported files shape responses. Of
the calculation service, the routers for KPIs, imports and closings that the API never
calls and the queue workers, which only log, are left out. Of the web client, pages other
than the budget editor and the import dialog are presentation over queries; their
selections and roles are in `Figures` and `Access`. The scripts are static checks of the
repository.
