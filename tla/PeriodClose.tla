----------------------------- MODULE PeriodClose -----------------------------
(***************************************************************************)
(* Transactions and the closing of periods: TransactionsService, the       *)
(* createMany of ImportsService and PeriodsService.closePeriod, over the   *)
(* tables transactions, periods, financial_snapshots and the column        *)
(* budget_lines.amount_actual, which validateBatch rebuilds.  A snapshot   *)
(* of actual data is one whose scenario_id is NULL; the snapshots of       *)
(* scenarios are in the same table, and deleting a scenario sets the       *)
(* scenario_id of its snapshots to NULL.                                   *)
(*                                                                         *)
(* closePeriod counts the pending transactions, reads the validated ones,  *)
(* waits for the calculation service, and only then opens the database     *)
(* transaction that writes the snapshot and the status.  A transaction is  *)
(* checked and then changed or deleted in two calls.  Between two calls of *)
(* a handler any other request may run.                                    *)
(*                                                                         *)
(* A snapshot holds totals of the transactions that were read, and the     *)
(* amount_actual of a line the sum of those of its account and department; *)
(* both are modelled by what they count: transactions with their amounts.  *)
(* The projection of a scenario counts none.                               *)
(*                                                                         *)
(* A definition named Bad... is the one that follows it with a plausible   *)
(* mistake.                                                                *)
(***************************************************************************)
EXTENDS Integers

CONSTANTS
  Period,   \* periods of a fiscal year, by period_number
  Tx,       \* transaction identifiers (never reused)
  Amount,   \* signed amounts of transactions
  Row,      \* identifiers of financial_snapshots
  Scenario, \* scenarios (calculated by ScenariosService)
  Request,  \* requests that can be served at the same time
  NoPeriod, NoTx, NoAmount, NoRow, NoScenario

ASSUME PeriodAssumption == Period \subseteq Nat /\ NoPeriod \notin Period
ASSUME AbsentAssumption == NoTx \notin Tx /\ NoRow \notin Row /\ NoScenario \notin Scenario

VARIABLES
  periodStatus, \* periods.status
  txState,      \* whether the row exists, and transactions.is_validated
  txPeriod,     \* transactions.period_id
  txAmount,     \* transactions.amount
  snapPeriod,   \* financial_snapshots.period_id, or NoPeriod: no such row
  snapScenario, \* financial_snapshots.scenario_id, or NoScenario: NULL
  snapData,     \* what the snapshot counts
  scenarios,    \* the scenarios that exist
  actual,       \* what the budget_lines.amount_actual of each period count
  request,      \* what each request is doing and what it remembers
  touched,      \* history: periods whose validated transactions changed after
                \* a closing read them
  late,         \* history: transactions that came into their period after a
                \* closing of it had counted the pending ones
  drifted,      \* history: periods whose validated transactions a late write
                \* changed, until the budget lines are rebuilt
  orphans       \* history: snapshots whose scenario was deleted, until a closing
                \* rewrites them

ledger    == <<txState, txPeriod, txAmount, late>>
snapshots == <<snapPeriod, snapScenario, snapData, scenarios, orphans>>
vars      == <<periodStatus, txState, txPeriod, txAmount, snapPeriod, snapScenario, snapData,
               scenarios, actual, request, touched, late, drifted, orphans>>

TxState == {"unused", "pending", "validated", "deleted"}
Counted == [tx : Tx, amount : Amount \cup {NoAmount}]
Phase   == {"idle", "count", "read", "find", "write", "update", "delete"}

RequestState ==
  [at : Phase, period : Period \cup {NoPeriod}, seen : SUBSET Counted, row : Row \cup {NoRow},
   tx : Tx \cup {NoTx}, amount : Amount \cup {NoAmount}]

Idle == [at |-> "idle", period |-> NoPeriod, seen |-> {}, row |-> NoRow,
         tx |-> NoTx, amount |-> NoAmount]

TypeOK ==
  /\ periodStatus \in [Period -> {"OPEN", "CLOSED"}]
  /\ txState      \in [Tx -> TxState]
  /\ txPeriod     \in [Tx -> Period \cup {NoPeriod}]
  /\ txAmount     \in [Tx -> Amount \cup {NoAmount}]
  /\ snapPeriod   \in [Row -> Period \cup {NoPeriod}]
  /\ snapScenario \in [Row -> Scenario \cup {NoScenario}]
  /\ snapData     \in [Row -> SUBSET Counted]
  /\ scenarios    \subseteq Scenario
  /\ actual       \in [Period -> SUBSET Counted]
  /\ request      \in [Request -> RequestState]
  /\ touched      \subseteq Period
  /\ late         \subseteq Tx
  /\ drifted      \subseteq Period
  /\ orphans      \subseteq Row

Init ==
  /\ periodStatus = [p \in Period |-> "OPEN"]
  /\ txState      = [t \in Tx |-> "unused"]
  /\ txPeriod     = [t \in Tx |-> NoPeriod]
  /\ txAmount     = [t \in Tx |-> NoAmount]
  /\ snapPeriod   = [s \in Row |-> NoPeriod]
  /\ snapScenario = [s \in Row |-> NoScenario]
  /\ snapData     = [s \in Row |-> {}]
  /\ scenarios    = Scenario
  /\ actual       = [p \in Period |-> {}]
  /\ request      = [r \in Request |-> Idle]
  /\ touched      = {}
  /\ late         = {}
  /\ drifted      = {}
  /\ orphans      = {}

------------------------------------------------------------------------------
Exists(t)    == txState[t] \in {"pending", "validated"}
Pending(p)   == {t \in Tx : txState[t] = "pending" /\ txPeriod[t] = p}
Snapshots(p) == {s \in Row : snapPeriod[s] = p /\ snapScenario[s] = NoScenario}

\* The transactions that closePeriod and the synchronisation of the budget count.
Count(ids)   == {[tx |-> t, amount |-> txAmount[t]] : t \in ids}
Validated(p) == Count({t \in Tx : txState[t] = "validated" /\ txPeriod[t] = p})

\* A closing has read the period's transactions, or has committed.
Watched(p) ==
  \/ periodStatus[p] = "CLOSED"
  \/ \E r \in Request : request[r].at \in {"find", "write"} /\ request[r].period = p

Touch == touched' = touched \cup {p \in Period : Watched(p) /\ Validated(p)' # Validated(p)}

\* A closing has found no pending transaction in the period, or has committed.
Cleared(p) ==
  \/ periodStatus[p] = "CLOSED"
  \/ \E r \in Request : request[r].at \in {"read", "find", "write"} /\ request[r].period = p

\* Transactions that come into a period: late ones, if it is cleared.
Arrive == late' = {t \in Tx : IF txPeriod'[t] = txPeriod[t] THEN t \in late ELSE Cleared(txPeriod'[t])}

\* A late write changes validated transactions that the budget lines count.
Drift == drifted' = drifted \cup {p \in Period : Validated(p)' # Validated(p)}

Goto(r, at) == request' = [request EXCEPT ![r].at = at]
Finish(r)   == request' = [request EXCEPT ![r] = Idle]

------------------------------------------------------------------------------
(* TransactionsService and the import.  None of them looks at the status of  *)
(* the period.                                                               *)

\* createMany of an import, or the create of one transaction: pending rows.
InsertTransactions(r, new) ==
  /\ request[r] = Idle
  /\ \A t \in DOMAIN new : txState[t] = "unused"
  /\ txState'  = [t \in Tx |-> IF t \in DOMAIN new THEN "pending" ELSE txState[t]]
  /\ txPeriod' = [t \in Tx |-> IF t \in DOMAIN new THEN new[t].period ELSE txPeriod[t]]
  /\ txAmount' = [t \in Tx |-> IF t \in DOMAIN new THEN new[t].amount ELSE txAmount[t]]
  /\ UNCHANGED <<periodStatus, snapshots, actual, request, drifted>>
  /\ Touch /\ Arrive

\* syncBudgetLines: the lines of every period are reset and summed again.
BadSynced(ids) == [p \in Period |-> {c \in Validated(p)' : c.tx \in ids}]
Synced(ids)    == IF \E t \in ids : Exists(t) THEN [p \in Period |-> Validated(p)'] ELSE actual

\* One database transaction; rows that are gone are not counted.
ValidateBatch(r, ids) ==
  /\ request[r] = Idle
  /\ txState' = [t \in Tx |-> IF t \in ids /\ Exists(t) THEN "validated" ELSE txState[t]]
  /\ UNCHANGED <<periodStatus, txPeriod, txAmount, late, snapshots, request>>
  /\ actual' = Synced(ids)
  /\ drifted' = IF \E t \in ids : Exists(t) THEN {} ELSE drifted
  /\ Touch

\* Only pending transactions may be changed or deleted ...
Editable(t)    == txState[t] = "pending"

BeginUpdate(r, t, p, a) ==
  /\ request[r] = Idle
  /\ Editable(t)
  /\ request' = [request EXCEPT ![r] = [Idle EXCEPT !.at = "update", !.tx = t, !.period = p, !.amount = a]]
  /\ UNCHANGED <<periodStatus, ledger, snapshots, actual, touched, drifted>>

BeginDelete(r, t) ==
  /\ request[r] = Idle
  /\ Editable(t)
  /\ request' = [request EXCEPT ![r] = [Idle EXCEPT !.at = "delete", !.tx = t]]
  /\ UNCHANGED <<periodStatus, ledger, snapshots, actual, touched, drifted>>

\* ... but the write goes by the id alone, and raises if the row is gone.
UpdateTransaction(r) ==
  LET q == request[r] IN
  /\ q.at = "update"
  /\ Exists(q.tx)
  /\ txPeriod' = [txPeriod EXCEPT ![q.tx] = q.period]
  /\ txAmount' = [txAmount EXCEPT ![q.tx] = q.amount]
  /\ Finish(r)
  /\ UNCHANGED <<periodStatus, txState, snapshots, actual>>
  /\ Touch /\ Arrive /\ Drift

DeleteTransaction(r) ==
  /\ request[r].at = "delete"
  /\ Exists(request[r].tx)
  /\ txState' = [txState EXCEPT ![request[r].tx] = "deleted"]
  /\ Finish(r)
  /\ UNCHANGED <<periodStatus, txPeriod, txAmount, late, snapshots, actual>>
  /\ Touch /\ Drift

------------------------------------------------------------------------------
(* PeriodsService.closePeriod, call by call.                                *)

ClosePeriod(r, p) ==
  /\ request[r] = Idle
  /\ periodStatus[p] = "OPEN"
  /\ request' = [request EXCEPT ![r] = [Idle EXCEPT !.at = "count", !.period = p]]
  /\ UNCHANGED <<periodStatus, ledger, snapshots, actual, touched, drifted>>

\* PERIOD_HAS_PENDING_TX ends the request.
BadMayClose(p) == TRUE
MayClose(p)    == Pending(p) = {}

CountPending(r) ==
  /\ request[r].at = "count"
  /\ IF MayClose(request[r].period) THEN Goto(r, "read") ELSE Finish(r)
  /\ UNCHANGED <<periodStatus, ledger, snapshots, actual, touched, drifted>>

\* The calculation service then answers with the totals of what was read, or
\* refuses (Fail).
BadReadValidated(r) ==
  /\ request[r].at = "read"
  /\ request' = [request EXCEPT ![r].at = "find",
       ![r].seen = Count({t \in Tx : Exists(t) /\ txPeriod[t] = request[r].period})]
  /\ UNCHANGED <<periodStatus, ledger, snapshots, actual, touched, drifted>>

ReadValidated(r) ==
  /\ request[r].at = "read"
  /\ request' = [request EXCEPT ![r].at = "find", ![r].seen = Validated(request[r].period)]
  /\ UNCHANGED <<periodStatus, ledger, snapshots, actual, touched, drifted>>

\* The database transaction looks for the snapshot: any row of actual data.
BadFound(p) ==
  LET rows == {s \in Row : snapPeriod[s] = p} IN IF rows = {} THEN {NoRow} ELSE rows

Found(p) == IF Snapshots(p) = {} THEN {NoRow} ELSE Snapshots(p)

FindSnapshot(r) ==
  /\ request[r].at = "find"
  /\ \E s \in Found(request[r].period) :
       request' = [request EXCEPT ![r].at = "write", ![r].row = s]
  /\ UNCHANGED <<periodStatus, ledger, snapshots, actual, touched, drifted>>

\* What becomes of the statuses: the next period is "opened" only if it is OPEN.
AfterClose(p) ==
  [q \in Period |-> IF q = p THEN "CLOSED"
                    ELSE IF q = p + 1 /\ periodStatus[q] = "OPEN" THEN "OPEN" ELSE periodStatus[q]]

\* The snapshot is updated or created, and the statuses written: one commit.
CommitClose(r) ==
  LET q == request[r] IN
  /\ q.at = "write"
  /\ \E s \in Row :
       /\ IF q.row = NoRow THEN snapPeriod[s] = NoPeriod ELSE s = q.row
       /\ snapPeriod' = [snapPeriod EXCEPT ![s] = q.period]
       /\ snapData'   = [snapData EXCEPT ![s] = q.seen]
       /\ orphans'    = orphans \ {s}
  /\ periodStatus' = AfterClose(q.period)
  /\ Finish(r)
  /\ UNCHANGED <<ledger, snapScenario, scenarios, actual, touched, drifted>>

\* The snapshot of a closing that stops half-way stays (no database transaction).
BadFail(r) ==
  /\ request[r].at = "write"
  /\ \E s \in Row : snapPeriod' = [snapPeriod EXCEPT ![s] = request[r].period]
  /\ Finish(r)
  /\ UNCHANGED <<periodStatus, ledger, snapScenario, snapData, scenarios, actual, touched, drifted, orphans>>

\* A call raised, the calculation service refused or the process died.
Fail(r) ==
  /\ request[r] # Idle
  /\ Finish(r)
  /\ UNCHANGED <<periodStatus, ledger, snapshots, actual, touched, drifted>>

------------------------------------------------------------------------------
(* What ScenariosService does to the table of snapshots.                    *)

\* The upsert of calculateScenario: one row for a period and a scenario.
UpsertScenarioSnapshot(c, p) ==
  /\ c \in scenarios
  /\ ~\E s \in Row : snapPeriod[s] = p /\ snapScenario[s] = c
  /\ \E s \in Row :
       /\ snapPeriod[s] = NoPeriod
       /\ snapPeriod'   = [snapPeriod EXCEPT ![s] = p]
       /\ snapScenario' = [snapScenario EXCEPT ![s] = c]
  /\ UNCHANGED <<periodStatus, ledger, snapData, scenarios, actual, request, touched, drifted, orphans>>

\* deleteScenario, and ON DELETE SET NULL.
DeleteScenario(c) ==
  /\ c \in scenarios
  /\ scenarios'    = scenarios \ {c}
  /\ snapScenario' = [s \in Row |-> IF snapScenario[s] = c THEN NoScenario ELSE snapScenario[s]]
  /\ orphans'      = orphans \cup {s \in Row : snapScenario[s] = c}
  /\ UNCHANGED <<periodStatus, ledger, snapPeriod, snapData, actual, request, touched, drifted>>

------------------------------------------------------------------------------
Rows(ids) == [ids -> [period : Period, amount : Amount]]

EditLedger(r) ==
  \/ \E ids \in (SUBSET Tx) \ {{}} : ValidateBatch(r, ids) \/ \E new \in Rows(ids) : InsertTransactions(r, new)
  \/ \E t \in Tx : BeginDelete(r, t) \/ \E p \in Period, a \in Amount : BeginUpdate(r, t, p, a)
  \/ UpdateTransaction(r) \/ DeleteTransaction(r)

Close(r) ==
  \/ \E p \in Period : ClosePeriod(r, p)
  \/ CountPending(r) \/ ReadValidated(r) \/ FindSnapshot(r) \/ CommitClose(r)

Scenarios == \E c \in Scenario : DeleteScenario(c) \/ \E p \in Period : UpsertScenarioSnapshot(c, p)

Next == Scenarios \/ \E r \in Request : EditLedger(r) \/ Close(r) \/ Fail(r)

Spec == Init /\ [][Next]_vars

------------------------------------------------------------------------------
(* Whatever interleaves.                                                    *)

\* A CLOSED period has a snapshot of exactly its validated transactions, and no
\* snapshot of actual data but the orphans shows anything else, unless these
\* transactions changed after a closing had read them.
ClosedIsExact ==
  \A p \in Period : periodStatus[p] = "CLOSED" /\ p \notin touched =>
    /\ \E s \in Snapshots(p) : snapData[s] = Validated(p)
    /\ \A s \in Snapshots(p) \ orphans : snapData[s] = Validated(p)

\* No snapshot and no budget line ever counts a transaction that is pending, was never validated
\* or never existed: what a late update changes or a late delete removes had
\* been validated when it was read.
OnlyValidatedCounted ==
  \A c \in UNION ({snapData[s] : s \in Row} \cup {actual[p] : p \in Period}) :
    txState[c.tx] \in {"validated", "deleted"}

\* But for the orphans, there are snapshots of actual data for CLOSED periods
\* only: a closing that fails leaves none.
SnapshotsAreClosed ==
  \A p \in Period : Snapshots(p) \ orphans # {} => periodStatus[p] = "CLOSED"

\* "Transactions en attente -> clôture bloquée": a transaction that is pending in a
\* CLOSED period came into it after the closing had counted the pending ones, by an
\* insert or by a change of its period; none that was there is passed over.
PendingCameLate == \A p \in Period : periodStatus[p] = "CLOSED" => Pending(p) \subseteq late

\* The actual amounts of the budget are those of the validated transactions, whatever
\* validations, changes and deletions overlap, but for the periods where a change or
\* a deletion has landed on a transaction validated since it was read; the next
\* validation of any batch repairs these.
ActualsFollow == \A p \in Period \ drifted : actual[p] = Validated(p)

\* "Période CLOSED : irréversible": the closing of a period reopens no other.
ClosedForever ==
  [][\A p \in Period : periodStatus[p] = "CLOSED" => periodStatus'[p] = "CLOSED"]_vars

------------------------------------------------------------------------------
(* Rules that hold when requests are served one at a time.                  *)

\* "Cannot modify a validated transaction": its period and amount stay, and so
\* does the row.
ValidatedIsFrozen ==
  [][\A t \in Tx : txState[t] = "validated" =>
       /\ txState'[t] = "validated"
       /\ txPeriod'[t] = txPeriod[t] /\ txAmount'[t] = txAmount[t]]_vars

\* No write is late then: the budget lines never drift from the ledger.
NothingDrifts == drifted = {}

\* What is reported of a period: the snapshots of actual data, but for the orphans.
Reported == [p \in Period |-> {snapData[s] : s \in Snapshots(p) \ orphans}]

Lifecycle == INSTANCE PeriodLifecycle WITH figures <- Reported

\* Each handler, for all its calls, is one operation of the documented workflow or none: a
\* closing (periods.service.ts:82-278) closes a period and reports what is validated at
\* that moment, whatever scenarios do to the table of snapshots in between.
ClosesAtOnce == Lifecycle!Spec

==============================================================================
