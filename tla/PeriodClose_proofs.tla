-------------------------- MODULE PeriodClose_proofs --------------------------
(***************************************************************************)
(* The properties of PeriodClose, for any number of periods, transactions, *)
(* snapshots, scenarios and requests.                                      *)
(*                                                                         *)
(* The first part holds whatever interleaves.  A closing writes what it    *)
(* read two calls earlier, so the invariant says of each request what it   *)
(* may still rely on (RequestJustified): what it has seen is what is       *)
(* validated, unless the period is in touched.                             *)
(* The second part assumes that requests are served one at a time; the     *)
(* handlers then implement PeriodLifecycle.                                *)
(***************************************************************************)
EXTENDS PeriodClose, TLAPS

Settled == {"validated", "deleted"}

\* What a request in progress may still rely on.
RequestJustified(q) ==
  /\ q.at \in {"count", "read", "find", "write"} => q.period \in Period
  /\ q.at \in {"find", "write"} /\ q.period \notin touched => q.seen = Validated(q.period)
  /\ \A c \in q.seen : txState[c.tx] \in Settled
  /\ q.at \in {"read", "find", "write"} => Pending(q.period) \subseteq late
  /\ q.at = "write" /\ q.row # NoRow => q.row \in Snapshots(q.period)

\* A row that was never inserted is not a snapshot of a scenario, deleted or not.
FreeRows == \A s \in Row : snapPeriod[s] = NoPeriod => snapScenario[s] = NoScenario /\ s \notin orphans

\* A transaction that was never inserted has no period.
FreeTx == \A t \in Tx : txState[t] = "unused" => txPeriod[t] = NoPeriod

\* The inductive invariant.
Inv ==
  /\ TypeOK
  /\ \A r \in Request : RequestJustified(request[r])
  /\ FreeRows
  /\ FreeTx
  /\ PendingCameLate
  /\ ActualsFollow
  /\ OnlyValidatedCounted
  /\ SnapshotsAreClosed
  /\ ClosedIsExact

(***************************************************************************)
(* What a step does to the requests and to the ledger.                     *)
(***************************************************************************)

\* A free request slot has the type of a request and relies on nothing.
LEMMA IdleJustified == Idle \in RequestState /\ RequestJustified(Idle)
BY DEF Idle, RequestState, RequestJustified, Phase

\* Finish frees one slot and leaves the other requests alone.
LEMMA FinishEffect ==
  ASSUME TypeOK, NEW r \in Request, Finish(r)
  PROVE  /\ request' \in [Request -> RequestState]
         /\ request'[r] = Idle
         /\ \A u \in Request \ {r} : request'[u] = request[u]
BY IdleJustified DEF TypeOK, Finish

\* What is counted has the type of a count.
LEMMA ValidatedType ==
  ASSUME TypeOK, NEW p PROVE Validated(p) \in SUBSET Counted
BY DEF TypeOK, Validated, Count, Counted

\* What comes into a cleared period is in late.
Accounted == \A p \in Period : Cleared(p) /\ Pending(p) \subseteq late => Pending(p)' \subseteq late'

\* Arrive records every arrival.
LEMMA ArriveAccounted ==
  ASSUME TypeOK, Arrive,
         \A t \in Tx : txState'[t] = "pending" /\ txPeriod'[t] = txPeriod[t] /\ txPeriod[t] \in Period
                        => txState[t] = "pending"
  PROVE  Accounted
BY DEF Accounted, Arrive, Pending, TypeOK

\* A step without arrivals or new rows has nothing to record.
LEMMA NoArrivalAccounted ==
  ASSUME UNCHANGED <<txPeriod, late>>,
         \A t \in Tx : txState'[t] = "pending" => txState[t] = "pending"
  PROVE  Accounted
BY DEF Accounted, Pending

\* What a step does to the ledger while closings are under way: transactions
\* that were validated or deleted remain so, and a period that a closing
\* relies on is touched or keeps its validated transactions.
Forward ==
  /\ \A t \in Tx : txState[t] \in Settled => txState'[t] \in Settled
  /\ touched \subseteq touched'
  /\ \A p \in Period : Watched(p) /\ p \notin touched' => Validated(p)' = Validated(p)
  /\ Accounted

\* Touch records every change that matters.
LEMMA TouchForward ==
  ASSUME TypeOK, Touch, Accounted, \A t \in Tx : txState[t] \in Settled => txState'[t] \in Settled
  PROVE  Forward /\ touched' \subseteq Period
BY DEF Touch, Forward, TypeOK

\* A step that leaves the ledger alone goes forward.
LEMMA SameLedgerForward ==
  ASSUME UNCHANGED <<ledger, touched>>
  PROVE  Forward /\ \A p \in Period : Validated(p)' = Validated(p)
<1>1. \A p \in Period : Validated(p)' = Validated(p)
  BY DEF ledger, Validated, Count
<1>2. Accounted
  BY DEF Accounted, Pending, ledger
<1> QED BY <1>1, <1>2 DEF Forward, ledger

\* What a request relies on stays true, if the period it closes loses no snapshot.
LEMMA StillJustified ==
  ASSUME TypeOK, Forward, NEW u \in Request, NEW q \in RequestState, request[u] = q,
         \A p \in Period : Snapshots(p) \subseteq Snapshots(p)',
         RequestJustified(q)
  PROVE  RequestJustified(q)'
<1>1. ASSUME q.at \in {"find", "write"}, q.period \notin touched'
      PROVE  q.seen = Validated(q.period)'
  <2>1. q.period \in Period /\ q.seen = Validated(q.period)
    BY <1>1 DEF RequestJustified, Forward
  <2>2. Watched(q.period)
    BY <1>1 DEF Watched
  <2> QED BY <1>1, <2>1, <2>2 DEF Forward
<1>2. \A c \in q.seen : txState'[c.tx] \in Settled
  BY DEF RequestJustified, RequestState, Counted, Forward
<1>3. q.at = "write" /\ q.row # NoRow => q.row \in Snapshots(q.period)'
  BY DEF RequestJustified
<1>4. q.at \in {"read", "find", "write"} => Pending(q.period)' \subseteq late'
  BY DEF RequestJustified, Forward, Accounted, Cleared
<1> QED BY <1>1, <1>2, <1>3, <1>4 DEF RequestJustified

\* After such a step only the request that moved is in question.
LEMMA OthersJustified ==
  ASSUME Inv, Forward, NEW r \in Request,
         \A u \in Request \ {r} : request'[u] = request[u],
         \A p \in Period : Snapshots(p) \subseteq Snapshots(p)',
         RequestJustified(request[r])'
  PROVE  \A u \in Request : RequestJustified(request[u])'
<1> SUFFICES ASSUME NEW u \in Request PROVE RequestJustified(request[u])'
  OBVIOUS
<1>1. CASE u = r
  BY <1>1
<1>2. CASE u # r
  <2>1. PICK q \in RequestState : request[u] = q
    BY DEF Inv, TypeOK
  <2>2. RequestJustified(q)
    BY <2>1 DEF Inv
  <2>3. RequestJustified(q)'
    BY <2>1, <2>2, StillJustified DEF Inv
  <2>4. request'[u] = q
    BY <1>2, <2>1
  <2> QED BY <2>3, <2>4 DEF RequestJustified
<1> QED BY <1>1, <1>2

\* A request that is over relies on nothing.
LEMMA FinishedJustified ==
  ASSUME Inv, Forward, NEW r \in Request, Finish(r),
         \A p \in Period : Snapshots(p) \subseteq Snapshots(p)'
  PROVE  \A u \in Request : RequestJustified(request[u])'
<1>1. request'[r] = Idle /\ \A u \in Request \ {r} : request'[u] = request[u]
  BY FinishEffect DEF Inv
<1>2. RequestJustified(request[r])'
  BY <1>1 DEF RequestJustified, Idle
<1> QED BY <1>1, <1>2, OthersJustified

\* The same when no request moved.
LEMMA AllJustified ==
  ASSUME Inv, Forward, UNCHANGED request,
         \A p \in Period : Snapshots(p) \subseteq Snapshots(p)'
  PROVE  \A u \in Request : RequestJustified(request[u])'
<1> SUFFICES ASSUME NEW u \in Request PROVE RequestJustified(request[u])'
  OBVIOUS
<1>1. PICK q \in RequestState : request[u] = q
  BY DEF Inv, TypeOK
<1>2. RequestJustified(q)
  BY <1>1 DEF Inv
<1>3. RequestJustified(q)'
  BY <1>1, <1>2, StillJustified DEF Inv
<1> QED BY <1>1, <1>3 DEF RequestJustified

(***************************************************************************)
(* The three kinds of steps preserve Inv: those that change the ledger,    *)
(* those that only move a request, and those that change the snapshots.    *)
(***************************************************************************)

\* A change of transactions, recorded by Touch.
LEMMA LedgerStep ==
  ASSUME Inv, TypeOK', Touch, Accounted, FreeTx', ActualsFollow', NEW r \in Request, Finish(r) \/ UNCHANGED request,
         \A t \in Tx : txState[t] \in Settled => txState'[t] \in Settled,
         \A p \in Period : \A c \in actual'[p] : txState'[c.tx] \in Settled,
         UNCHANGED <<periodStatus, snapshots>>
  PROVE  Inv'
<1>1. Forward
  BY TouchForward DEF Inv
<1>2. \A p \in Period : Snapshots(p)' = Snapshots(p)
  BY DEF Snapshots, snapshots
<1>3. \A u \in Request : RequestJustified(request[u])'
  BY <1>1, <1>2, FinishedJustified, AllJustified
<1>4. FreeRows'
  BY DEF Inv, FreeRows, snapshots
<1>5. OnlyValidatedCounted'
  <2>1. \A s \in Row : \A c \in snapData[s] : txState'[c.tx] \in Settled
    <3> TAKE s \in Row
    <3> TAKE c \in snapData[s]
    <3>1. txState[c.tx] \in Settled
      BY DEF Inv, OnlyValidatedCounted, Settled
    <3>2. c.tx \in Tx
      BY DEF Inv, TypeOK, Counted
    <3> QED BY <3>1, <3>2, <1>1 DEF Forward
  <2> QED BY <2>1 DEF OnlyValidatedCounted, Settled, snapshots
<1>6. SnapshotsAreClosed'
  BY <1>2 DEF Inv, SnapshotsAreClosed, snapshots
<1>7. ClosedIsExact'
  <2> SUFFICES ASSUME NEW p \in Period, periodStatus[p] = "CLOSED", p \notin touched'
               PROVE  /\ \E s \in Snapshots(p) : snapData[s] = Validated(p)'
                      /\ \A s \in Snapshots(p) \ orphans : snapData[s] = Validated(p)'
    BY <1>2 DEF ClosedIsExact, snapshots
  <2>1. Validated(p)' = Validated(p) /\ p \notin touched
    BY <1>1 DEF Forward, Watched
  <2> QED BY <2>1 DEF Inv, ClosedIsExact
<1>8. PendingCameLate'
  BY <1>1 DEF Inv, PendingCameLate, Forward, Accounted, Cleared
<1> QED BY <1>3, <1>4, <1>5, <1>6, <1>7, <1>8 DEF Inv

\* A step of one request that writes nothing.
LEMMA RequestStep ==
  ASSUME Inv, NEW r \in Request, request' \in [Request -> RequestState],
         \A u \in Request \ {r} : request'[u] = request[u],
         RequestJustified(request[r])',
         UNCHANGED <<periodStatus, ledger, snapshots, actual, touched, drifted>>
  PROVE  Inv'
<1> USE DEF ledger, snapshots
<1>1. Forward /\ \A p \in Period : Validated(p)' = Validated(p)
  BY SameLedgerForward
<1>2. \A p \in Period : Snapshots(p)' = Snapshots(p)
  BY DEF Snapshots
<1>3. \A u \in Request : RequestJustified(request[u])'
  BY <1>1, <1>2, OthersJustified
<1>4. TypeOK' /\ FreeRows' /\ OnlyValidatedCounted' /\ FreeTx' /\ PendingCameLate'
  BY DEF Inv, TypeOK, FreeRows, OnlyValidatedCounted, FreeTx, PendingCameLate, Pending
<1>5. SnapshotsAreClosed' /\ ClosedIsExact' /\ ActualsFollow'
  BY <1>1, <1>2 DEF Inv, SnapshotsAreClosed, ClosedIsExact, ActualsFollow
<1> QED BY <1>3, <1>4, <1>5 DEF Inv

(***************************************************************************)
(* TransactionsService.                                                    *)
(***************************************************************************)

\* What the budget lines count stays settled when they are not rewritten.
LEMMA ActualSettled ==
  ASSUME Inv, UNCHANGED actual,
         \A t \in Tx : txState[t] \in Settled => txState'[t] \in Settled
  PROVE  \A p \in Period : \A c \in actual'[p] : txState'[c.tx] \in Settled
<1> TAKE p \in Period
<1> TAKE c \in actual'[p]
<1>1. txState[c.tx] \in Settled
  BY DEF Inv, OnlyValidatedCounted, Settled
<1>2. c.tx \in Tx
  BY DEF Inv, TypeOK, Counted
<1> QED BY <1>1, <1>2

\* New rows are pending: nothing that counts changes.
LEMMA InsertTransactionsInv ==
  ASSUME Inv, NEW r \in Request, NEW ids \in SUBSET Tx, NEW new \in Rows(ids),
         InsertTransactions(r, new)
  PROVE  Inv'
<1> USE DEF InsertTransactions, Rows, snapshots
<1>1. \A t \in Tx : txState[t] \in Settled => txState'[t] \in Settled
  BY DEF Inv, TypeOK, Settled
<1>2. TypeOK'
  <2>1. touched' \subseteq Period
    BY DEF Inv, TypeOK, Touch
  <2>2. txState' \in [Tx -> TxState]
    BY DEF Inv, TypeOK, TxState
  <2>3. txPeriod' \in [Tx -> Period \cup {NoPeriod}] /\ txAmount' \in [Tx -> Amount \cup {NoAmount}]
    BY DEF Inv, TypeOK
  <2>4. late' \subseteq Tx
    BY DEF Arrive
  <2> QED BY <2>1, <2>2, <2>3, <2>4 DEF Inv, TypeOK
<1>3. Accounted
  <2> SUFFICES ASSUME NEW t \in Tx, txState'[t] = "pending", txPeriod'[t] = txPeriod[t], txPeriod[t] \in Period
               PROVE  txState[t] = "pending"
    BY ArriveAccounted DEF Inv
  <2>1. txState[t] # "unused"
    BY PeriodAssumption DEF Inv, FreeTx
  <2> QED BY <2>1 DEF Inv, TypeOK
<1>4. FreeTx'
  BY <1>2 DEF Inv, TypeOK, FreeTx
<1>5. ActualsFollow'
  <2>1. \A p \in Period : Validated(p)' = Validated(p)
    BY DEF Inv, TypeOK, Validated, Count
  <2> QED BY <2>1 DEF Inv, ActualsFollow
<1> QED BY <1>1, <1>2, <1>3, <1>4, <1>5, ActualSettled, LedgerStep

\* The lines are rebuilt from the validated transactions of the new state.
LEMMA ValidateBatchInv ==
  ASSUME Inv, NEW r \in Request, NEW ids \in SUBSET Tx, ValidateBatch(r, ids)
  PROVE  Inv'
<1> USE DEF ValidateBatch, snapshots
<1>1. \A t \in Tx : txState[t] \in Settled => txState'[t] \in Settled
  BY DEF Inv, TypeOK, Settled
<1>2. TypeOK'
  <2>1. touched' \subseteq Period /\ txState' \in [Tx -> TxState]
    BY DEF Inv, TypeOK, TxState, Touch
  <2>2. \A p \in Period : Validated(p)' \in SUBSET Counted
    BY <2>1 DEF Inv, TypeOK, Validated, Count, Counted
  <2>3. actual' \in [Period -> SUBSET Counted] /\ drifted' \subseteq Period
    BY <2>2 DEF Inv, TypeOK, Synced
  <2> QED BY <2>1, <2>3 DEF Inv, TypeOK
<1>3. \A p \in Period : \A c \in actual'[p] : txState'[c.tx] \in Settled
  <2>1. CASE actual' = actual
    BY <1>1, <2>1, ActualSettled
  <2>2. CASE actual' = [p \in Period |-> Validated(p)']
    BY <2>2 DEF Validated, Count, Settled
  <2> QED BY <2>1, <2>2 DEF Synced
<1>4. Accounted
  BY NoArrivalAccounted DEF Inv, TypeOK
<1>5. FreeTx'
  BY DEF Inv, TypeOK, FreeTx, Exists
<1>6. ActualsFollow'
  <2>1. CASE \E t \in ids : Exists(t)
    <3>1. actual' = [p \in Period |-> Validated(p)']
      BY <2>1 DEF Synced
    <3>2. \A p \in Period : actual'[p] = Validated(p)'
      BY <3>1
    <3> QED BY <3>2 DEF ActualsFollow
  <2>2. CASE ~\E t \in ids : Exists(t)
    <3>1. actual' = actual /\ drifted' = drifted /\ \A t \in Tx : txState'[t] = txState[t]
      BY <2>2 DEF Synced, Inv, TypeOK
    <3>2. \A p \in Period : Validated(p)' = Validated(p)
      BY <3>1 DEF Validated, Count
    <3> QED BY <3>1, <3>2 DEF Inv, ActualsFollow
  <2> QED BY <2>1, <2>2
<1> QED BY <1>1, <1>2, <1>3, <1>4, <1>5, <1>6, LedgerStep

\* Drift records every change that the budget lines do not follow.
LEMMA DriftRecorded ==
  ASSUME ActualsFollow, Drift, UNCHANGED actual PROVE ActualsFollow'
BY DEF ActualsFollow, Drift

\* The late update of a transaction that has been validated is recorded in touched.
LEMMA UpdateTransactionInv ==
  ASSUME Inv, NEW r \in Request, UpdateTransaction(r) PROVE Inv'
<1> USE DEF UpdateTransaction, snapshots
<1>1. request[r] \in RequestState
  BY DEF Inv, TypeOK
<1>2. TypeOK'
  <2>1. touched' \subseteq Period /\ request' \in [Request -> RequestState]
    BY FinishEffect DEF Inv, TypeOK, Touch
  <2>2. txPeriod' \in [Tx -> Period \cup {NoPeriod}] /\ txAmount' \in [Tx -> Amount \cup {NoAmount}]
    BY <1>1 DEF Inv, TypeOK, RequestState
  <2>3. late' \subseteq Tx /\ drifted' \subseteq Period
    BY DEF Arrive, Drift, Inv, TypeOK
  <2> QED BY <2>1, <2>2, <2>3 DEF Inv, TypeOK
<1>3. Accounted
  BY ArriveAccounted DEF Inv
<1>4. FreeTx'
  BY DEF Inv, TypeOK, FreeTx, Exists
<1>5. ActualsFollow'
  BY DriftRecorded DEF Inv
<1> QED BY <1>2, <1>3, <1>4, <1>5, ActualSettled, LedgerStep

\* So is the late delete.
LEMMA DeleteTransactionInv ==
  ASSUME Inv, NEW r \in Request, DeleteTransaction(r) PROVE Inv'
<1> USE DEF DeleteTransaction, snapshots
<1>1. \A t \in Tx : txState[t] \in Settled => txState'[t] \in Settled
  BY DEF Inv, TypeOK, Settled
<1>2. TypeOK'
  <2>1. touched' \subseteq Period /\ request' \in [Request -> RequestState]
    BY FinishEffect DEF Inv, TypeOK, Touch
  <2>2. txState' \in [Tx -> TxState]
    BY DEF Inv, TypeOK, TxState
  <2>3. drifted' \subseteq Period
    BY DEF Drift, Inv, TypeOK
  <2> QED BY <2>1, <2>2, <2>3 DEF Inv, TypeOK
<1>3. Accounted
  BY NoArrivalAccounted DEF Inv, TypeOK
<1>4. FreeTx'
  BY DEF Inv, TypeOK, FreeTx, Exists
<1>5. ActualsFollow'
  BY DriftRecorded DEF Inv
<1> QED BY <1>1, <1>2, <1>3, <1>4, <1>5, ActualSettled, LedgerStep

\* A step that only lets a request remember q.
LEMMA MoveStep ==
  ASSUME Inv, NEW r \in Request, NEW q \in RequestState, RequestJustified(q),
         request' = [request EXCEPT ![r] = q],
         UNCHANGED <<periodStatus, ledger, snapshots, actual, touched, drifted>>
  PROVE  Inv'
<1>1. RequestJustified(q)'
  BY DEF RequestJustified, ledger, snapshots, Validated, Count, Snapshots, Pending
<1>2. request' \in [Request -> RequestState] /\ request'[r] = q
  BY DEF Inv, TypeOK
<1>3. \A u \in Request \ {r} : request'[u] = request[u]
  BY DEF Inv, TypeOK
<1>4. RequestJustified(request[r])'
  BY <1>1, <1>2 DEF RequestJustified
<1> QED BY <1>2, <1>3, <1>4, RequestStep

\* The checks before a late write only remember what the request asked for.
LEMMA BeginUpdateInv ==
  ASSUME Inv, NEW r \in Request, NEW t \in Tx, NEW p \in Period, NEW a \in Amount,
         BeginUpdate(r, t, p, a)
  PROVE  Inv'
<1> DEFINE q == [Idle EXCEPT !.at = "update", !.tx = t, !.period = p, !.amount = a]
<1>1. q \in RequestState /\ RequestJustified(q)
  BY DEF Idle, RequestState, RequestJustified, Phase
<1>2. request' = [request EXCEPT ![r] = q]
  BY DEF BeginUpdate
<1> HIDE DEF q
<1> QED BY <1>1, <1>2, MoveStep DEF BeginUpdate

LEMMA BeginDeleteInv ==
  ASSUME Inv, NEW r \in Request, NEW t \in Tx, BeginDelete(r, t) PROVE Inv'
<1> DEFINE q == [Idle EXCEPT !.at = "delete", !.tx = t]
<1>1. q \in RequestState /\ RequestJustified(q)
  BY DEF Idle, RequestState, RequestJustified, Phase
<1>2. request' = [request EXCEPT ![r] = q]
  BY DEF BeginDelete
<1> HIDE DEF q
<1> QED BY <1>1, <1>2, MoveStep DEF BeginDelete

(***************************************************************************)
(* PeriodsService.closePeriod.                                             *)
(***************************************************************************)

LEMMA FailInv ==
  ASSUME Inv, NEW r \in Request, Fail(r) PROVE Inv'
BY IdleJustified, MoveStep DEF Fail, Finish

LEMMA ClosePeriodInv ==
  ASSUME Inv, NEW r \in Request, NEW p \in Period, ClosePeriod(r, p) PROVE Inv'
<1> DEFINE q == [Idle EXCEPT !.at = "count", !.period = p]
<1>1. q \in RequestState /\ RequestJustified(q)
  BY DEF Idle, RequestState, RequestJustified, Phase
<1>2. request' = [request EXCEPT ![r] = q]
  BY DEF ClosePeriod
<1> HIDE DEF q
<1> QED BY <1>1, <1>2, MoveStep DEF ClosePeriod

LEMMA CountPendingInv ==
  ASSUME Inv, NEW r \in Request, CountPending(r) PROVE Inv'
<1>1. CASE ~MayClose(request[r].period)
  BY <1>1, IdleJustified, MoveStep DEF CountPending, Finish
<1>2. CASE MayClose(request[r].period)
  <2> DEFINE q == [request[r] EXCEPT !.at = "read"]
  <2>1. q \in RequestState /\ RequestJustified(q)
    BY <1>2 DEF CountPending, MayClose, Inv, TypeOK, RequestState, RequestJustified, Phase
  <2>2. request' = [request EXCEPT ![r] = q]
    BY <1>2 DEF CountPending, Goto
  <2> HIDE DEF q
  <2> QED BY <2>1, <2>2, MoveStep DEF CountPending
<1> QED BY <1>1, <1>2 DEF CountPending

\* The closing now knows the validated transactions.
LEMMA ReadValidatedInv ==
  ASSUME Inv, NEW r \in Request, ReadValidated(r) PROVE Inv'
<1> DEFINE q == [request[r] EXCEPT !.at = "find", !.seen = Validated(request[r].period)]
<1>1. request[r] \in RequestState /\ request[r].period \in Period
  BY DEF ReadValidated, Inv, TypeOK, RequestJustified
<1>2. Validated(request[r].period) \in SUBSET Counted
  BY ValidatedType DEF Inv
<1>3. \A c \in Validated(request[r].period) : txState[c.tx] \in Settled
  BY DEF Validated, Count, Settled
<1>4. q \in RequestState
  BY <1>1, <1>2 DEF RequestState, Phase
<1>5. RequestJustified(q)
  <2>1. Pending(request[r].period) \subseteq late
    BY DEF ReadValidated, Inv, RequestJustified
  <2> QED BY <1>1, <1>3, <2>1 DEF RequestJustified, RequestState
<1>6. request' = [request EXCEPT ![r] = q]
  BY DEF ReadValidated
<1> HIDE DEF q
<1> QED BY <1>4, <1>5, <1>6, MoveStep DEF ReadValidated

\* The row found belongs to the period.
LEMMA FindSnapshotInv ==
  ASSUME Inv, NEW r \in Request, FindSnapshot(r) PROVE Inv'
<1>1. PICK s \in Found(request[r].period) :
        request' = [request EXCEPT ![r].at = "write", ![r].row = s]
  BY DEF FindSnapshot
<1> DEFINE q == [request[r] EXCEPT !.at = "write", !.row = s]
<1>2. request[r] \in RequestState /\ RequestJustified(request[r]) /\ request[r].at = "find"
  BY DEF FindSnapshot, Inv, TypeOK
<1>3. s \in Row \cup {NoRow} /\ (s # NoRow => s \in Snapshots(request[r].period))
  BY DEF Found, Snapshots
<1>4. q \in RequestState
  BY <1>2, <1>3 DEF RequestState, Phase
<1>5. RequestJustified(q)
  BY <1>2, <1>3 DEF RequestJustified, RequestState
<1>6. request' = [request EXCEPT ![r] = q]
  BY <1>1
<1> HIDE DEF q
<1> QED BY <1>4, <1>5, <1>6, MoveStep DEF FindSnapshot

\* The commit: the row it writes shows what was read, and is the only snapshot
\* that changes.
LEMMA CommitCloseInv ==
  ASSUME Inv, NEW r \in Request, CommitClose(r) PROVE Inv'
<1> USE DEF CommitClose
<1>0. PICK q \in RequestState : q = request[r]
  BY DEF Inv, TypeOK
<1> DEFINE p == q.period
           seen == q.seen
<1>1. q.at = "write" /\ RequestJustified(q) /\ p \in Period
  BY <1>0 DEF Inv, RequestJustified
<1>2. PICK s \in Row :
        /\ IF q.row = NoRow THEN snapPeriod[s] = NoPeriod ELSE s = q.row
        /\ snapPeriod' = [snapPeriod EXCEPT ![s] = p]
        /\ snapData'   = [snapData EXCEPT ![s] = seen]
        /\ orphans'    = orphans \ {s}
  BY <1>0
<1>3. snapScenario[s] = NoScenario /\ snapPeriod[s] \in {NoPeriod, p}
  BY <1>1, <1>2 DEF Inv, FreeRows, RequestJustified, Snapshots
<1>4. Forward /\ \A k \in Period : Validated(k)' = Validated(k)
  BY SameLedgerForward
<1>5. Snapshots(p)' = Snapshots(p) \cup {s}
  BY <1>1, <1>2, <1>3 DEF Inv, TypeOK, Snapshots
<1>6. \A k \in Period \ {p} : Snapshots(k)' = Snapshots(k) /\ s \notin Snapshots(k)
  BY <1>1, <1>2, <1>3, PeriodAssumption DEF Inv, TypeOK, Snapshots
<1>7. /\ periodStatus'[p] = "CLOSED"
      /\ \A k \in Period \ {p} : periodStatus'[k] = periodStatus[k]
      /\ periodStatus' \in [Period -> {"OPEN", "CLOSED"}]
  BY <1>0, <1>1 DEF AfterClose, Inv, TypeOK
<1>8. /\ snapData'[s] = seen
      /\ \A t \in Row \ {s} : snapData'[t] = snapData[t]
      /\ seen \in SUBSET Counted
      /\ snapData' \in [Row -> SUBSET Counted]
  BY <1>1, <1>2 DEF Inv, TypeOK, RequestState
<1>9. \A u \in Request : RequestJustified(request[u])'
  BY <1>4, <1>5, <1>6, FinishedJustified
<1>10. TypeOK'
  <2>1. snapPeriod' \in [Row -> Period \cup {NoPeriod}] /\ orphans' \subseteq Row
    BY <1>1, <1>2 DEF Inv, TypeOK
  <2>2. request' \in [Request -> RequestState]
    BY FinishEffect DEF Inv
  <2> QED BY <1>7, <1>8, <2>1, <2>2 DEF Inv, TypeOK, ledger
<1>11. FreeRows'
  BY <1>1, <1>2, PeriodAssumption DEF Inv, TypeOK, FreeRows
<1>12. OnlyValidatedCounted'
  <2> SUFFICES ASSUME NEW c \in UNION ({snapData'[t] : t \in Row} \cup {actual[k] : k \in Period})
               PROVE  txState[c.tx] \in Settled
    BY DEF OnlyValidatedCounted, ledger, Settled
  <2>1. CASE c \in seen
    BY <1>1, <2>1 DEF RequestJustified
  <2>2. CASE c \notin seen
    <3>1. c \in UNION ({snapData[t] : t \in Row} \cup {actual[k] : k \in Period})
      BY <1>8, <2>2
    <3> QED BY <3>1 DEF Inv, OnlyValidatedCounted, Settled
  <2> QED BY <2>1, <2>2
<1>13. SnapshotsAreClosed'
  BY <1>2, <1>6, <1>7 DEF Inv, SnapshotsAreClosed
<1>14. ClosedIsExact'
  <2> SUFFICES ASSUME NEW k \in Period, periodStatus'[k] = "CLOSED", k \notin touched
               PROVE  /\ \E t \in Snapshots(k)' : snapData'[t] = Validated(k)
                      /\ \A t \in Snapshots(k)' \ orphans' : snapData'[t] = Validated(k)
    BY <1>4 DEF ClosedIsExact
  <2>1. CASE k = p
    <3>1. seen = Validated(p)
      BY <1>1, <2>1 DEF RequestJustified
    <3>2. \A t \in Snapshots(p) \ orphans : snapData[t] = Validated(p)
      BY <1>1, <2>1 DEF Inv, TypeOK, SnapshotsAreClosed, ClosedIsExact
    <3>3. Snapshots(p) \subseteq Row
      BY DEF Snapshots
    <3> QED BY <1>2, <1>5, <1>8, <2>1, <3>1, <3>2, <3>3
  <2>2. CASE k # p
    <3>1. periodStatus[k] = "CLOSED" /\ Snapshots(k)' = Snapshots(k) /\ s \notin Snapshots(k)
      BY <1>6, <1>7, <2>2
    <3>2. \A t \in Snapshots(k) : snapData'[t] = snapData[t]
      BY <1>8, <3>1 DEF Snapshots
    <3> QED BY <1>2, <3>1, <3>2 DEF Inv, ClosedIsExact
  <2> QED BY <2>1, <2>2
<1>15. PendingCameLate'
  <2> SUFFICES ASSUME NEW k \in Period, periodStatus'[k] = "CLOSED" PROVE Pending(k) \subseteq late
    BY DEF PendingCameLate, Pending, ledger
  <2>1. CASE k = p
    BY <1>1, <2>1 DEF RequestJustified
  <2>2. CASE k # p
    BY <1>7, <2>2 DEF Inv, PendingCameLate
  <2> QED BY <2>1, <2>2
<1>16. FreeTx' /\ ActualsFollow'
  BY <1>4 DEF Inv, FreeTx, ActualsFollow, ledger
<1> QED BY <1>9, <1>10, <1>11, <1>12, <1>13, <1>14, <1>15, <1>16 DEF Inv

(***************************************************************************)
(* ScenariosService.                                                       *)
(***************************************************************************)

\* A projection is not a snapshot of actual data.
LEMMA UpsertScenarioSnapshotInv ==
  ASSUME Inv, NEW c \in Scenario, NEW p \in Period, UpsertScenarioSnapshot(c, p)
  PROVE  Inv'
<1> USE DEF UpsertScenarioSnapshot
<1>1. PICK s \in Row :
        /\ snapPeriod[s] = NoPeriod
        /\ snapPeriod'   = [snapPeriod EXCEPT ![s] = p]
        /\ snapScenario' = [snapScenario EXCEPT ![s] = c]
  OBVIOUS
<1>2. Forward /\ \A k \in Period : Validated(k)' = Validated(k)
  BY SameLedgerForward
<1>3. \A k \in Period : Snapshots(k)' = Snapshots(k)
  BY <1>1, PeriodAssumption, AbsentAssumption DEF Inv, TypeOK, Snapshots
<1>4. \A u \in Request : RequestJustified(request[u])'
  BY <1>2, <1>3, AllJustified
<1>5. TypeOK' /\ FreeRows'
  BY <1>1, PeriodAssumption DEF Inv, TypeOK, FreeRows, ledger
<1>6. OnlyValidatedCounted' /\ SnapshotsAreClosed' /\ ClosedIsExact'
  BY <1>2, <1>3 DEF Inv, OnlyValidatedCounted, SnapshotsAreClosed, ClosedIsExact, ledger
<1>7. FreeTx' /\ PendingCameLate' /\ ActualsFollow'
  BY <1>2 DEF Inv, FreeTx, PendingCameLate, Pending, ActualsFollow, ledger
<1> QED BY <1>4, <1>5, <1>6, <1>7 DEF Inv

\* What deleting a scenario adds to the snapshots of actual data are orphans.
LEMMA DeleteScenarioInv ==
  ASSUME Inv, NEW c \in Scenario, DeleteScenario(c) PROVE Inv'
<1> USE DEF DeleteScenario
<1>1. Forward /\ \A k \in Period : Validated(k)' = Validated(k)
  BY SameLedgerForward
<1>2. \A k \in Period : /\ Snapshots(k) \subseteq Snapshots(k)'
                        /\ Snapshots(k)' \ orphans' \subseteq Snapshots(k) \ orphans
  BY DEF Inv, TypeOK, Snapshots
<1>3. \A u \in Request : RequestJustified(request[u])'
  BY <1>1, <1>2, AllJustified
<1>4. TypeOK'
  BY DEF Inv, TypeOK, ledger
<1>5. FreeRows'
  BY AbsentAssumption DEF Inv, TypeOK, FreeRows
<1>6. OnlyValidatedCounted'
  BY DEF Inv, OnlyValidatedCounted, ledger
<1>7. SnapshotsAreClosed' /\ ClosedIsExact'
  BY <1>1, <1>2 DEF Inv, SnapshotsAreClosed, ClosedIsExact
<1>8. FreeTx' /\ PendingCameLate' /\ ActualsFollow'
  BY <1>1 DEF Inv, FreeTx, PendingCameLate, Pending, ActualsFollow, ledger
<1> QED BY <1>3, <1>4, <1>5, <1>6, <1>7, <1>8 DEF Inv

(***************************************************************************)
(* The theorems.                                                           *)
(***************************************************************************)

LEMMA InitInv ==
  ASSUME Init PROVE Inv
<1>1. TypeOK
  BY IdleJustified DEF Init, TypeOK, TxState
<1>2. \A r \in Request : RequestJustified(request[r])
  BY IdleJustified DEF Init
<1>3. \A p \in Period : Snapshots(p) = {}
  BY PeriodAssumption DEF Init, Snapshots
<1>4. FreeRows /\ OnlyValidatedCounted
  BY DEF Init, FreeRows, OnlyValidatedCounted
<1>5. SnapshotsAreClosed /\ ClosedIsExact
  BY <1>3 DEF Init, SnapshotsAreClosed, ClosedIsExact
<1>6. FreeTx /\ PendingCameLate /\ ActualsFollow
  BY DEF Init, FreeTx, PendingCameLate, Pending, ActualsFollow, Validated, Count
<1> QED BY <1>1, <1>2, <1>4, <1>5, <1>6 DEF Inv

LEMMA StutterInv ==
  ASSUME Inv, UNCHANGED vars PROVE Inv'
BY DEF vars, Inv, TypeOK, RequestJustified, Validated, Count, Snapshots, FreeRows,
       OnlyValidatedCounted, SnapshotsAreClosed, ClosedIsExact, FreeTx, PendingCameLate, Pending,
       ActualsFollow

\* One case per action.
LEMMA NextInv ==
  ASSUME Inv, Next PROVE Inv'
<1>1. ASSUME NEW r \in Request, EditLedger(r) PROVE Inv'
  BY <1>1, InsertTransactionsInv, ValidateBatchInv, UpdateTransactionInv, DeleteTransactionInv,
     BeginUpdateInv, BeginDeleteInv DEF EditLedger
<1>2. ASSUME NEW r \in Request, Close(r) PROVE Inv'
  BY <1>2, ClosePeriodInv, CountPendingInv, ReadValidatedInv, FindSnapshotInv, CommitCloseInv DEF Close
<1>3. ASSUME Scenarios PROVE Inv'
  BY <1>3, UpsertScenarioSnapshotInv, DeleteScenarioInv DEF Scenarios
<1> QED BY <1>1, <1>2, <1>3, FailInv DEF Next

LEMMA Invariance == Spec => []Inv
BY InitInv, NextInv, StutterInv, PTL DEF Spec

\* Every variable keeps its type.
THEOREM TypeCorrect == Spec => []TypeOK
<1>1. Inv => TypeOK
  BY DEF Inv
<1> QED BY <1>1, Invariance, PTL

\* No snapshot and no budget line counts a transaction that was not validated.
THEOREM CountsAreValidated == Spec => []OnlyValidatedCounted
<1>1. Inv => OnlyValidatedCounted
  BY DEF Inv
<1> QED BY <1>1, Invariance, PTL

\* A closed period shows exactly its validated transactions, but for the changes
\* in touched and the snapshots of deleted scenarios.
THEOREM ClosingIsExact == Spec => []ClosedIsExact
<1>1. Inv => ClosedIsExact
  BY DEF Inv
<1> QED BY <1>1, Invariance, PTL

\* A closing that fails leaves no snapshot.
THEOREM NoPartialClosing == Spec => []SnapshotsAreClosed
<1>1. Inv => SnapshotsAreClosed
  BY DEF Inv
<1> QED BY <1>1, Invariance, PTL

\* What is pending in a closed period came into it after its closing had counted.
THEOREM LatePending == Spec => []PendingCameLate
<1>1. Inv => PendingCameLate
  BY DEF Inv
<1> QED BY <1>1, Invariance, PTL

\* The actual amounts of the budget follow the ledger, but where a late write has
\* landed on a validated transaction since the last validation.
THEOREM ActualsKeepUp == Spec => []ActualsFollow
<1>1. Inv => ActualsFollow
  BY DEF Inv
<1> QED BY <1>1, Invariance, PTL

\* A closed period stays closed.
THEOREM ClosingIsIrreversible == Spec => ClosedForever
<1>1. ASSUME Inv, Next, NEW p \in Period, periodStatus[p] = "CLOSED"
      PROVE  periodStatus'[p] = "CLOSED"
  <2>1. periodStatus' = periodStatus \/ \E k : periodStatus' = AfterClose(k)
    BY <1>1 DEF Next, EditLedger, Close, Scenarios, InsertTransactions, ValidateBatch, BeginUpdate,
       BeginDelete, UpdateTransaction, DeleteTransaction, ClosePeriod, CountPending, ReadValidated,
       FindSnapshot, CommitClose, Fail, UpsertScenarioSnapshot, DeleteScenario
  <2> QED BY <1>1, <2>1 DEF AfterClose
<1>2. Inv /\ [Next]_vars => [\A p \in Period : periodStatus[p] = "CLOSED" => periodStatus'[p] = "CLOSED"]_vars
  BY <1>1
<1> QED BY <1>2, Invariance, PTL DEF Spec, ClosedForever

(***************************************************************************)
(* Requests served one at a time.  What a request has checked is then      *)
(* still true when it writes, and the rules that races break hold.         *)
(***************************************************************************)
Serial == \A r, u \in Request : r = u

\* What the only request has checked.
ChecksHold(q) ==
  /\ q.at \in {"update", "delete"} => q.tx \in Tx /\ txState[q.tx] = "pending"
  /\ q.at = "update" => q.period \in Period /\ q.amount \in Amount
  /\ q.at \in {"count", "read", "find", "write"} => q.period \in Period /\ periodStatus[q.period] = "OPEN"
  /\ q.at \in {"read", "find", "write"} => Pending(q.period) = {}
  /\ q.at \in {"find", "write"} => q.seen = Validated(q.period)

SerialInv ==
  /\ Inv
  /\ NothingDrifts
  /\ \A r \in Request : ChecksHold(request[r])

\* The rules, of one step.
Frozen ==
  \A t \in Tx : txState[t] = "validated" =>
    /\ txState'[t] = "validated"
    /\ txPeriod'[t] = txPeriod[t] /\ txAmount'[t] = txAmount[t]

\* No transaction becomes validated or changes after it: the sums stay.
LEMMA SameSums ==
  ASSUME Frozen, \A t \in Tx : txState'[t] = "validated" => txState[t] = "validated"
  PROVE  \A p \in Period : Validated(p)' = Validated(p)
BY DEF Frozen, Validated, Count

\* A request that has nothing left to write relies on no check.
LEMMA NothingChecked ==
  ASSUME Serial, NEW r \in Request, request'[r] = Idle
  PROVE  \A u \in Request : ChecksHold(request[u])'
BY DEF Serial, ChecksHold, Idle

\* The steps that change the ledger.
LEMMA SerialLedger ==
  ASSUME Serial, SerialInv, NEW r \in Request,
         \/ \E ids \in SUBSET Tx : ValidateBatch(r, ids) \/ \E new \in Rows(ids) : InsertTransactions(r, new)
         \/ UpdateTransaction(r) \/ DeleteTransaction(r)
  PROVE  Frozen /\ NothingDrifts' /\ (\A u \in Request : ChecksHold(request[u])')
<1> USE DEF SerialInv, Inv
<1>1. ASSUME NEW ids \in SUBSET Tx, ValidateBatch(r, ids)
      PROVE  Frozen /\ NothingDrifts' /\ request'[r] = Idle
  BY <1>1 DEF ValidateBatch, Frozen, NothingDrifts, TypeOK
<1>2. ASSUME NEW ids \in SUBSET Tx, NEW new \in Rows(ids), InsertTransactions(r, new)
      PROVE  Frozen /\ NothingDrifts' /\ request'[r] = Idle
  BY <1>2 DEF InsertTransactions, Rows, Frozen, NothingDrifts, TypeOK
<1>3. ASSUME UpdateTransaction(r) \/ DeleteTransaction(r)
      PROVE  Frozen /\ NothingDrifts' /\ request'[r] = Idle
  <2>1. request[r].tx \in Tx /\ txState[request[r].tx] = "pending"
    BY <1>3 DEF UpdateTransaction, DeleteTransaction, ChecksHold
  <2>2. request'[r] = Idle
    BY <1>3, FinishEffect DEF UpdateTransaction, DeleteTransaction
  <2>3. Frozen /\ \A t \in Tx : txState'[t] = "validated" => txState[t] = "validated"
    BY <1>3, <2>1 DEF UpdateTransaction, DeleteTransaction, Frozen, TypeOK
  <2>4. \A p \in Period : Validated(p)' = Validated(p)
    BY <2>3, SameSums
  <2> QED BY <1>3, <2>2, <2>3, <2>4 DEF UpdateTransaction, DeleteTransaction, Drift, NothingDrifts
<1> QED BY <1>1, <1>2, <1>3, NothingChecked

\* The steps by which a request checks and remembers.
LEMMA SerialCheck ==
  ASSUME Serial, SerialInv, NEW r \in Request,
         \/ \E t \in Tx : BeginDelete(r, t) \/ \E p \in Period, a \in Amount : BeginUpdate(r, t, p, a)
         \/ \E p \in Period : ClosePeriod(r, p)
         \/ CountPending(r) \/ ReadValidated(r) \/ FindSnapshot(r) \/ CommitClose(r) \/ Fail(r)
  PROVE  \A u \in Request : ChecksHold(request[u])'
<1> USE DEF SerialInv, Inv
<1>0. ASSUME ChecksHold(request[r])' PROVE \A u \in Request : ChecksHold(request[u])'
  BY <1>0 DEF Serial
<1>1. ASSUME NEW t \in Tx, BeginDelete(r, t) \/ \E p \in Period, a \in Amount : BeginUpdate(r, t, p, a)
      PROVE  ChecksHold(request[r])'
  <2>1. /\ request'[r].at \in {"update", "delete"}
        /\ request'[r].tx = t
        /\ request'[r].at = "update" => request'[r].period \in Period /\ request'[r].amount \in Amount
    BY <1>1 DEF BeginDelete, BeginUpdate, Idle, TypeOK
  <2>2. txState'[t] = "pending"
    BY <1>1 DEF BeginDelete, BeginUpdate, Editable, ledger
  <2> QED BY <2>1, <2>2 DEF ChecksHold
<1>2. ASSUME NEW p \in Period, ClosePeriod(r, p)
      PROVE  ChecksHold(request[r])'
  BY <1>2 DEF ClosePeriod, Idle, ChecksHold, TypeOK
<1>3. ASSUME CountPending(r)
      PROVE  ChecksHold(request[r])'
  <2>1. request[r] \in RequestState
    BY DEF TypeOK
  <2> QED BY <1>3, <2>1 DEF CountPending, MayClose, Goto, Finish, Idle, ChecksHold, TypeOK,
                            RequestState, Pending, ledger
<1>4. ASSUME ReadValidated(r) \/ FindSnapshot(r)
      PROVE  ChecksHold(request[r])'
  <2>1. /\ request'[r].at \in {"find", "write"}
        /\ request'[r].period = request[r].period
        /\ request[r].at \in {"read", "find"}
    BY <1>4 DEF ReadValidated, FindSnapshot, TypeOK, RequestState
  <2>2. UNCHANGED <<periodStatus, ledger>>
    BY <1>4 DEF ReadValidated, FindSnapshot
  <2>3. PICK p \in Period : p = request[r].period /\ periodStatus[p] = "OPEN" /\ Pending(p) = {}
    BY <2>1 DEF ChecksHold
  <2>4. request'[r].seen = Validated(p)
    <3>1. CASE ReadValidated(r)
      BY <2>3, <3>1 DEF ReadValidated, TypeOK, RequestState
    <3>2. CASE FindSnapshot(r)
      <4>1. request[r].at = "find" /\ request'[r].seen = request[r].seen
        BY <3>2 DEF FindSnapshot, TypeOK, RequestState
      <4> QED BY <2>3, <4>1 DEF ChecksHold
    <3> QED BY <1>4, <3>1, <3>2
  <2>5. Pending(p)' = {} /\ request'[r].seen = Validated(p)'
    BY <2>2, <2>3, <2>4 DEF Pending, Validated, Count, ledger
  <2> QED BY <2>1, <2>2, <2>3, <2>5 DEF ChecksHold
<1>5. ASSUME CommitClose(r) \/ Fail(r)
      PROVE  \A u \in Request : ChecksHold(request[u])'
  BY <1>5, FinishEffect, NothingChecked DEF CommitClose, Fail
<1> QED BY <1>0, <1>1, <1>2, <1>3, <1>4, <1>5

\* Every step keeps the rules.
LEMMA SerialNext ==
  ASSUME Serial, SerialInv, Next PROVE SerialInv' /\ Frozen
<1>0. Inv'
  BY NextInv DEF SerialInv
<1>1. ASSUME NEW r \in Request,
             \/ \E ids \in SUBSET Tx : ValidateBatch(r, ids) \/ \E new \in Rows(ids) : InsertTransactions(r, new)
             \/ UpdateTransaction(r) \/ DeleteTransaction(r)
      PROVE  SerialInv' /\ Frozen
  BY <1>0, <1>1, SerialLedger DEF SerialInv
<1>2. ASSUME NEW r \in Request,
             \/ \E t \in Tx : BeginDelete(r, t) \/ \E p \in Period, a \in Amount : BeginUpdate(r, t, p, a)
             \/ \E p \in Period : ClosePeriod(r, p)
             \/ CountPending(r) \/ ReadValidated(r) \/ FindSnapshot(r) \/ CommitClose(r) \/ Fail(r)
      PROVE  SerialInv' /\ Frozen
  <2>1. \A u \in Request : ChecksHold(request[u])'
    BY <1>2, SerialCheck
  <2>2. UNCHANGED <<ledger, drifted>>
    BY <1>2 DEF BeginDelete, BeginUpdate, ClosePeriod, CountPending, ReadValidated, FindSnapshot,
                CommitClose, Fail
  <2>3. Frozen /\ NothingDrifts'
    BY <2>2 DEF Frozen, ledger, NothingDrifts, SerialInv
  <2> QED BY <1>0, <2>1, <2>3 DEF SerialInv
<1>3. ASSUME Scenarios
      PROVE  SerialInv' /\ Frozen
  <2>1. UNCHANGED <<ledger, drifted, request, periodStatus>>
    BY <1>3 DEF Scenarios, DeleteScenario, UpsertScenarioSnapshot
  <2>2. Frozen /\ NothingDrifts'
    BY <2>1 DEF Frozen, ledger, NothingDrifts, SerialInv
  <2>3. \A u \in Request : ChecksHold(request[u])'
    <3>1. ASSUME NEW u \in Request PROVE ChecksHold(request[u])' <=> ChecksHold(request[u])
      BY <2>1 DEF ChecksHold, Pending, Validated, Count, ledger
    <3> QED BY <3>1 DEF SerialInv
  <2> QED BY <1>0, <2>2, <2>3 DEF SerialInv
<1> QED BY <1>1, <1>2, <1>3 DEF Next, EditLedger, Close

LEMMA SerialInvariance ==
  ASSUME Serial PROVE Spec => []SerialInv
<1>1. Init => SerialInv
  <2>1. ASSUME Init PROVE NothingDrifts /\ \A r \in Request : ChecksHold(request[r])
    BY <2>1 DEF Init, NothingDrifts, ChecksHold, Idle
  <2> QED BY <2>1, InitInv DEF SerialInv
<1>2. SerialInv /\ [Next]_vars => SerialInv'
  <2>1. ASSUME SerialInv, UNCHANGED vars PROVE SerialInv'
    BY <2>1, StutterInv DEF SerialInv, vars, NothingDrifts, Validated, Count, ChecksHold, Pending
  <2> QED BY <2>1, SerialNext
<1> QED BY <1>1, <1>2, PTL DEF Spec

\* One at a time, the actual amounts of the budget are those of the validated
\* transactions of every period: no write is late.
THEOREM SerialActuals ==
  ASSUME Serial PROVE Spec => [](NothingDrifts /\ ActualsFollow)
<1>1. SerialInv => NothingDrifts /\ ActualsFollow
  BY DEF SerialInv, Inv
<1> QED BY <1>1, SerialInvariance, PTL

\* One at a time, a validated transaction is frozen.
THEOREM SerialFrozen ==
  ASSUME Serial PROVE Spec => ValidatedIsFrozen
<1>1. SerialInv /\ [Next]_vars =>
        [\A t \in Tx : txState[t] = "validated" =>
           /\ txState'[t] = "validated"
           /\ txPeriod'[t] = txPeriod[t] /\ txAmount'[t] = txAmount[t]]_vars
  BY SerialNext DEF Frozen
<1> QED BY <1>1, SerialInvariance, PTL DEF Spec, ValidatedIsFrozen

(***************************************************************************)
(* The refinement: with one request at a time each handler is one          *)
(* operation of PeriodLifecycle, at the step that writes.                  *)
(***************************************************************************)

\* A step that leaves the table of snapshots alone reports nothing new.
LEMMA SameReports ==
  ASSUME UNCHANGED <<snapPeriod, snapScenario, snapData, orphans>> PROVE Reported' = Reported
BY DEF Reported, Snapshots

\* The steps that change the ledger: transactions are entered, validated, changed or deleted.
LEMMA LedgerAtOnce ==
  ASSUME SerialInv, NEW r \in Request,
         \/ \E ids \in SUBSET Tx : ValidateBatch(r, ids) \/ \E new \in Rows(ids) : InsertTransactions(r, new)
         \/ UpdateTransaction(r) \/ DeleteTransaction(r)
  PROVE  Lifecycle!Next
<1> USE DEF SerialInv, Inv, TypeOK
<1>1. UNCHANGED <<periodStatus, Reported>>
  BY SameReports DEF ValidateBatch, InsertTransactions, UpdateTransaction, DeleteTransaction, snapshots
<1>2. ASSUME NEW ids \in SUBSET Tx, ValidateBatch(r, ids) PROVE Lifecycle!Next
  <2>1. txState' = [t \in Tx |-> IF t \in ids /\ txState[t] = "pending" THEN "validated" ELSE txState[t]]
    BY <1>2 DEF ValidateBatch, Exists
  <2>2. Lifecycle!Validate(ids)
    BY <1>1, <1>2, <2>1 DEF ValidateBatch, Lifecycle!Validate
  <2> QED BY <2>2 DEF Lifecycle!Next
<1>3. ASSUME NEW ids \in SUBSET Tx, NEW new \in Rows(ids), InsertTransactions(r, new) PROVE Lifecycle!Next
  <2>1. Lifecycle!Enter(new)
    BY <1>1, <1>3 DEF InsertTransactions, Lifecycle!Enter
  <2>2. new \in [ids -> [period : Period, amount : Amount]]
    BY DEF Rows
  <2> QED BY <2>1, <2>2 DEF Lifecycle!Next
<1>4. CASE UpdateTransaction(r)
  <2> DEFINE q == request[r]
  <2>1. q.tx \in Tx /\ txState[q.tx] = "pending" /\ q.period \in Period /\ q.amount \in Amount
    BY <1>4 DEF UpdateTransaction, ChecksHold
  <2>2. Lifecycle!Change(q.tx, q.period, q.amount)
    BY <1>1, <1>4, <2>1 DEF UpdateTransaction, Lifecycle!Change
  <2> QED BY <2>1, <2>2 DEF Lifecycle!Next
<1>5. CASE DeleteTransaction(r)
  <2>1. request[r].tx \in Tx /\ txState[request[r].tx] = "pending"
    BY <1>5 DEF DeleteTransaction, ChecksHold
  <2>2. Lifecycle!Delete(request[r].tx)
    BY <1>1, <1>5, <2>1 DEF DeleteTransaction, Lifecycle!Delete
  <2> QED BY <2>1, <2>2 DEF Lifecycle!Next
<1> QED BY <1>2, <1>3, <1>4, <1>5

\* The commit of a closing: what it reports was read two calls before, and is what is
\* validated now; nothing else is reported of an OPEN period, and nothing of another changes.
LEMMA CommitAtOnce ==
  ASSUME SerialInv, NEW r \in Request, CommitClose(r) PROVE Lifecycle!Next
<1> USE DEF SerialInv, Inv, TypeOK
<1> DEFINE q == request[r]
<1>1. PICK p \in Period : p = q.period /\ periodStatus[p] = "OPEN" /\ Pending(p) = {} /\ q.seen = Validated(p)
  BY DEF CommitClose, ChecksHold
<1>2. PICK s \in Row :
        /\ IF q.row = NoRow THEN snapPeriod[s] = NoPeriod ELSE s = q.row
        /\ snapPeriod' = [snapPeriod EXCEPT ![s] = p]
        /\ snapData'   = [snapData EXCEPT ![s] = Validated(p)]
        /\ orphans'    = orphans \ {s}
  BY <1>1 DEF CommitClose
<1>3. RequestJustified(q) /\ q.at = "write" /\ UNCHANGED <<ledger, snapScenario>>
  BY DEF CommitClose
<1>4. snapScenario[s] = NoScenario /\ snapPeriod[s] \in {NoPeriod, p}
  BY <1>1, <1>2, <1>3 DEF FreeRows, RequestJustified, Snapshots
<1>5. Snapshots(p)' \ orphans' = {s}
  <2>1. Snapshots(p) \ orphans = {}
    BY <1>1 DEF SnapshotsAreClosed
  <2>2. Snapshots(p)' = Snapshots(p) \cup {s}
    BY <1>2, <1>3, <1>4 DEF Snapshots
  <2> QED BY <1>2, <2>1, <2>2
<1>6. \A k \in Period \ {p} : Snapshots(k)' \ orphans' = Snapshots(k) \ orphans /\ s \notin Snapshots(k)
  <2>1. \A k \in Period \ {p} : Snapshots(k)' = Snapshots(k) /\ s \notin Snapshots(k)
    BY <1>2, <1>3, <1>4, PeriodAssumption DEF Snapshots
  <2> QED BY <1>2, <2>1
<1>7. /\ snapData'[s] = Validated(p)
      /\ \A t \in Row \ {s} : snapData'[t] = snapData[t]
  BY <1>2
<1>8. Reported' = [Reported EXCEPT ![p] = {Validated(p)}]
  <2>1. {snapData'[t] : t \in Snapshots(p)' \ orphans'} = {Validated(p)}
    BY <1>5, <1>7
  <2>2. ASSUME NEW k \in Period \ {p}
        PROVE  {snapData'[t] : t \in Snapshots(k)' \ orphans'} = {snapData[t] : t \in Snapshots(k) \ orphans}
    <3>1. \A t \in Snapshots(k) \ orphans : snapData'[t] = snapData[t]
      BY <1>6, <1>7 DEF Snapshots
    <3> QED BY <1>6, <3>1
  <2>3. Reported' = [k \in Period |-> {snapData'[t] : t \in Snapshots(k)' \ orphans'}]
    BY DEF Reported
  <2>4. Reported = [k \in Period |-> {snapData[t] : t \in Snapshots(k) \ orphans}]
    BY DEF Reported
  <2> QED BY <2>1, <2>2, <2>3, <2>4
<1>9. periodStatus' = [periodStatus EXCEPT ![p] = "CLOSED"]
  BY <1>1 DEF CommitClose, AfterClose
<1>10. Lifecycle!Pending(p) = {} /\ Lifecycle!Validated(p) = Validated(p)
  BY <1>1 DEF Lifecycle!Pending, Pending, Lifecycle!Validated, Validated, Count
<1>11. Lifecycle!Close(p)
  BY <1>1, <1>3, <1>8, <1>9, <1>10 DEF Lifecycle!Close, Lifecycle!ledger, ledger
<1> QED BY <1>11 DEF Lifecycle!Next

\* What scenarios do to the table of snapshots is not reported: projections belong to a
\* scenario, and what is left of a deleted one is an orphan.
LEMMA ScenariosUnreported ==
  ASSUME Inv, Scenarios PROVE UNCHANGED <<periodStatus, txState, txPeriod, txAmount, Reported>>
<1> USE DEF Inv, TypeOK
<1>1. ASSUME NEW c \in Scenario, NEW p \in Period, UpsertScenarioSnapshot(c, p) PROVE Reported' = Reported
  <2>1. \A k \in Period : Snapshots(k)' = Snapshots(k)
    BY <1>1, PeriodAssumption, AbsentAssumption DEF UpsertScenarioSnapshot, Snapshots
  <2> QED BY <1>1, <2>1 DEF UpsertScenarioSnapshot, Reported
<1>2. ASSUME NEW c \in Scenario, DeleteScenario(c) PROVE Reported' = Reported
  <2>1. \A k \in Period : Snapshots(k)' \ orphans' = Snapshots(k) \ orphans
    BY <1>2, AbsentAssumption DEF DeleteScenario, Snapshots
  <2> QED BY <1>2, <2>1 DEF DeleteScenario, Reported
<1> QED BY <1>1, <1>2 DEF Scenarios, UpsertScenarioSnapshot, DeleteScenario, ledger

LEMMA StepAtOnce ==
  ASSUME SerialInv, [Next]_vars PROVE [Lifecycle!Next]_(Lifecycle!vars)
<1>1. ASSUME NEW r \in Request,
             \/ \E t \in Tx : BeginDelete(r, t) \/ \E p \in Period, a \in Amount : BeginUpdate(r, t, p, a)
             \/ \E p \in Period : ClosePeriod(r, p)
             \/ CountPending(r) \/ ReadValidated(r) \/ FindSnapshot(r) \/ Fail(r)
      PROVE  UNCHANGED <<periodStatus, txState, txPeriod, txAmount, Reported>>
  BY <1>1, SameReports DEF BeginDelete, BeginUpdate, ClosePeriod, CountPending, ReadValidated, FindSnapshot,
                           Fail, ledger, snapshots
<1>2. CASE UNCHANGED vars
  BY <1>2, SameReports DEF vars, Lifecycle!vars
<1> QED BY <1>1, <1>2, LedgerAtOnce, CommitAtOnce, ScenariosUnreported
        DEF Next, EditLedger, Close, Lifecycle!vars, SerialInv

\* Before the first request nothing is reported.
LEMMA InitAtOnce == Init => Lifecycle!Init
<1> SUFFICES ASSUME Init PROVE Lifecycle!Init
  OBVIOUS
<1>1. \A p \in Period : Snapshots(p) = {}
  BY PeriodAssumption DEF Init, Snapshots
<1> QED BY <1>1 DEF Init, Lifecycle!Init, Reported

\* Served one at a time, a closing and the edits of the ledger act at once: the handlers
\* of TransactionsService, ImportsService and PeriodsService implement the documented
\* workflow, failures and deleted scenarios included.
THEOREM HandlersActAtOnce ==
  ASSUME Serial PROVE Spec => ClosesAtOnce
<1>1. SerialInv /\ [Next]_vars => [Lifecycle!Next]_(Lifecycle!vars)
  BY StepAtOnce
<1> QED BY <1>1, InitAtOnce, SerialInvariance, PTL DEF Spec, ClosesAtOnce, Lifecycle!Spec
==============================================================================
