--------------------------- MODULE PeriodLifecycle ---------------------------
(***************************************************************************)
(* Transactions and the closing of periods as the product documents them   *)
(* (Me/copilot-instructions.md, rule 4), each operation at once: a         *)
(* transaction is pending until it is validated and frozen from then on,   *)
(* and a period without pending transactions closes, for good, on figures  *)
(* that count exactly its validated transactions.  Nothing keeps late      *)
(* transactions out of a period that is CLOSED; its figures do not follow  *)
(* them.  PeriodClose is the implementation, whose handlers read, check    *)
(* and write in separate database calls.                                   *)
(***************************************************************************)
EXTENDS Integers

CONSTANTS
  Period,   \* periods
  Tx,       \* transaction identifiers
  Amount,   \* amounts of transactions
  NoPeriod, \* the period of a transaction that was never entered
  NoAmount  \* its amount

VARIABLES
  periodStatus, \* periods.status
  txState,      \* whether a transaction exists and is validated
  txPeriod,     \* its period
  txAmount,     \* its amount
  figures       \* figures[p]: what is reported of a period, at most one result

ledger == <<txState, txPeriod, txAmount>>
vars   == <<periodStatus, txState, txPeriod, txAmount, figures>>

Pending(p)   == {t \in Tx : txState[t] = "pending" /\ txPeriod[t] = p}
Validated(p) == {[tx |-> t, amount |-> txAmount[t]] : t \in {u \in Tx : txState[u] = "validated" /\ txPeriod[u] = p}}

------------------------------------------------------------------------------
Init ==
  /\ periodStatus = [p \in Period |-> "OPEN"]
  /\ txState      = [t \in Tx |-> "unused"]
  /\ txPeriod     = [t \in Tx |-> NoPeriod]
  /\ txAmount     = [t \in Tx |-> NoAmount]
  /\ figures      = [p \in Period |-> {}]

Enter(new) ==
  /\ \A t \in DOMAIN new : txState[t] = "unused"
  /\ txState'  = [t \in Tx |-> IF t \in DOMAIN new THEN "pending" ELSE txState[t]]
  /\ txPeriod' = [t \in Tx |-> IF t \in DOMAIN new THEN new[t].period ELSE txPeriod[t]]
  /\ txAmount' = [t \in Tx |-> IF t \in DOMAIN new THEN new[t].amount ELSE txAmount[t]]
  /\ UNCHANGED <<periodStatus, figures>>

Validate(ids) ==
  /\ txState' = [t \in Tx |-> IF t \in ids /\ txState[t] = "pending" THEN "validated" ELSE txState[t]]
  /\ UNCHANGED <<periodStatus, txPeriod, txAmount, figures>>

Change(t, p, a) ==
  /\ txState[t] = "pending"
  /\ txPeriod' = [txPeriod EXCEPT ![t] = p]
  /\ txAmount' = [txAmount EXCEPT ![t] = a]
  /\ UNCHANGED <<periodStatus, txState, figures>>

Delete(t) ==
  /\ txState[t] = "pending"
  /\ txState' = [txState EXCEPT ![t] = "deleted"]
  /\ UNCHANGED <<periodStatus, txPeriod, txAmount, figures>>

Close(p) ==
  /\ periodStatus[p] = "OPEN"
  /\ Pending(p) = {}
  /\ periodStatus' = [periodStatus EXCEPT ![p] = "CLOSED"]
  /\ figures'      = [figures EXCEPT ![p] = {Validated(p)}]
  /\ UNCHANGED ledger

Next ==
  \/ \E ids \in SUBSET Tx :
       Validate(ids) \/ \E new \in [ids -> [period : Period, amount : Amount]] : Enter(new)
  \/ \E t \in Tx : Delete(t) \/ \E p \in Period, a \in Amount : Change(t, p, a)
  \/ \E p \in Period : Close(p)

Spec == Init /\ [][Next]_vars
==============================================================================
