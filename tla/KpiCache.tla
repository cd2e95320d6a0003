------------------------------ MODULE KpiCache ------------------------------
(***************************************************************************)
(* The KPI values and alerts of one period, the two Redis entries built    *)
(* from them, and the requests that race on both.                          *)
(*                                                                         *)
(* POST /kpis/calculate (kpis.service.ts) replaces, KPI after KPI, the     *)
(* value and the alert of the period, each by a deleteMany and a create of *)
(* its own: no transaction holds the loop together.  It then deletes the   *)
(* cache entry of the period.  GET /kpis/values and GET /dashboard read    *)
(* through an entry each, with a time to live of CACHE_TTL_KPI seconds;    *)
(* nothing deletes the entry of the dashboard (the four invalidate...      *)
(* methods of dashboard.service.ts have no caller).                        *)
(*                                                                         *)
(* The number a formula gives is abstracted to the version of the inputs   *)
(* it was computed from (transactions, budget lines, plans, and whether    *)
(* the engine answered), chosen when a calculation reads them; Kpis.tla    *)
(* models the formulas and the thresholds.                                 *)
(***************************************************************************)
EXTENDS Naturals, FiniteSets, Sequences

CONSTANTS
    KpiOrder,    \* the active KPI definitions, in the order findMany gives them
    Calcs,       \* the calculations that may be asked for, each run once
    Readers,     \* the GET requests in flight at the same time
    Inputs,      \* what the formulas can be computed from
    SeverityOf   \* [Kpis \X Inputs -> Severities]

Severities == {"INFO", "WARN", "CRITICAL"}

Kpis == {KpiOrder[i] : i \in DOMAIN KpiOrder}

ASSUME KpiCacheAssumption ==
    /\ KpiOrder \in Seq(Kpis) \ {<<>>}
    /\ Inputs # {}
    /\ SeverityOf \in [Kpis \X Inputs -> Severities]

Keys == {"kpis", "dashboard"}
NoEntry == [kind |-> "none"]

VARIABLES
    values,    \* rows of kpi_values for the period, scenario_id null
    alerts,    \* rows of alerts for the period
    cache,     \* the two Redis entries
    calc,      \* the calculations
    reader,    \* the GET requests
    settled,   \* history: the last calculation to end ran alone, none broke since
    excused    \* history: the KPI entry comes from an old read or outlived a failure

tables == <<values, alerts>>
history == <<settled, excused>>
vars == <<values, alerts, cache, calc, reader, settled, excused>>

-----------------------------------------------------------------------------
(* What the rows and the entries hold.                                     *)

ValueRow == [kpi : Kpis, calc : Calcs, input : Inputs]
AlertRow == [kpi : Kpis, calc : Calcs, severity : Severities, read : BOOLEAN]

\* computeKpiSeverity on the value a calculation found for a KPI.
Severity(k, c) == SeverityOf[<<k, calc[c].input>>]

Unread == {a \in alerts : ~a.read}

\* What a request reads from the database to build the entry of its key.  The
\* dashboard also takes a summary and alerts, read at the same time.
Payload(key) == [kind |-> key, values |-> values]

Idle == [pc |-> "idle", input |-> CHOOSE i \in Inputs : TRUE, at |-> 1, alone |-> TRUE]

\* The definition the loop of a calculation is at.
Kpi(c) == KpiOrder[calc[c].at]

Active == {c \in Calcs : calc[c].pc \notin {"idle", "done", "failed"}}

TypeOK ==
    /\ values \subseteq ValueRow
    /\ alerts \subseteq AlertRow
    /\ \A key \in Keys : cache[key] = NoEntry \/ cache[key].kind = key
    /\ calc \in [Calcs -> [pc : {"idle", "next", "newValue", "delAlert",
                                 "newAlert", "invalidate", "done", "failed"},
                           input : Inputs, at : DOMAIN KpiOrder, alone : BOOLEAN]]
    /\ \A r \in Readers : /\ reader[r].pc \in {"idle", "missed", "fill"}
                          /\ reader[r].key \in Keys
    /\ settled \in BOOLEAN
    /\ excused \in BOOLEAN

Init ==
    /\ values = {}
    /\ alerts = {}
    /\ cache = [key \in Keys |-> NoEntry]
    /\ calc = [c \in Calcs |-> Idle]
    /\ reader = [r \in Readers |->
                   [pc |-> "idle", key |-> "kpis", got |-> NoEntry]]
    /\ settled = FALSE
    /\ excused = FALSE

-----------------------------------------------------------------------------
(* The calculation, one step per call to the database.                     *)

\* The period is found and the default definitions are upserted, which never
\* deactivates one: the loop will run over every active KPI.  Transactions,
\* budget lines and plans are then read together, the engine is asked, and every
\* formula is evaluated before the first row is written.
StartCalc(c) ==
    /\ calc[c].pc = "idle"
    /\ \E input \in Inputs :
         calc' = [d \in Calcs |->
                    IF d = c THEN [pc |-> "next", input |-> input, at |-> 1,
                                   alone |-> Active = {}]
                    ELSE IF d \in Active THEN [calc[d] EXCEPT !.alone = FALSE]
                    ELSE calc[d]]
    /\ settled' = FALSE
    /\ UNCHANGED <<tables, cache, reader, excused>>

BadDeleteValues(c) ==
    /\ calc[c].pc = "next"
    /\ calc' = [calc EXCEPT ![c].pc = "newValue"]
    /\ UNCHANGED <<tables, cache, reader, history>>

\* kpiValue.deleteMany for the next definition of the loop.
DeleteValues(c) ==
    /\ calc[c].pc = "next"
    /\ calc' = [calc EXCEPT ![c].pc = "newValue"]
    /\ values' = {v \in values : v.kpi # Kpi(c)}
    /\ UNCHANGED <<alerts, cache, reader, history>>

CreateValue(c) ==
    /\ calc[c].pc = "newValue"
    /\ values' = values \cup {[kpi |-> Kpi(c), calc |-> c,
                               input |-> calc[c].input]}
    /\ calc' = [calc EXCEPT ![c].pc = "delAlert"]
    /\ UNCHANGED <<alerts, cache, reader, history>>

\* The loop goes on with the definitions that remain, or ends.
Continue(c) ==
    IF calc[c].at = Len(KpiOrder)
      THEN calc' = [calc EXCEPT ![c].pc = "invalidate"]
      ELSE calc' = [calc EXCEPT ![c].pc = "next", ![c].at = @ + 1]

\* alert.deleteMany; a value back at INFO leaves the KPI without an alert.
DeleteAlerts(c) ==
    /\ calc[c].pc = "delAlert"
    /\ alerts' = {a \in alerts : a.kpi # Kpi(c)}
    /\ IF Severity(Kpi(c), c) = "INFO"
         THEN Continue(c)
         ELSE calc' = [calc EXCEPT ![c].pc = "newAlert"]
    /\ UNCHANGED <<values, cache, reader, history>>

\* A new alert is unread, whatever became of the one it replaces.
CreateAlert(c) ==
    /\ calc[c].pc = "newAlert"
    /\ alerts' = alerts \cup {[kpi |-> Kpi(c), calc |-> c, read |-> FALSE,
                               severity |-> Severity(Kpi(c), c)]}
    /\ Continue(c)
    /\ UNCHANGED <<values, cache, reader, history>>

BadInvalidate(c) ==
    /\ calc[c].pc = "invalidate"
    /\ calc' = [calc EXCEPT ![c] = [Idle EXCEPT !.pc = "done"]]
    /\ settled' = calc[c].alone
    /\ UNCHANGED <<tables, cache, reader, excused>>

\* invalidateCacheForPeriod deletes the entry without a scenario, after which
\* the request answers.
Invalidate(c) ==
    /\ calc[c].pc = "invalidate"
    /\ cache' = [cache EXCEPT !["kpis"] = NoEntry]
    /\ calc' = [calc EXCEPT ![c] = [Idle EXCEPT !.pc = "done"]]
    /\ settled' = calc[c].alone
    /\ excused' = FALSE
    /\ UNCHANGED <<tables, reader>>

\* A query, or the deletion of the entry, raises (or the process stops): what
\* was written stays, and the entry is not deleted.
FailCalc(c) ==
    /\ c \in Active
    /\ calc' = [calc EXCEPT ![c] = [Idle EXCEPT !.pc = "failed"]]
    /\ settled' = FALSE
    /\ excused' = TRUE
    /\ UNCHANGED <<tables, cache, reader>>

-----------------------------------------------------------------------------
(* The reads.                                                              *)

\* The entry is looked up; a hit answers at once.
Lookup(r, key) ==
    /\ reader[r].pc = "idle"
    /\ cache[key] = NoEntry
    /\ reader' = [reader EXCEPT ![r] = [pc |-> "missed", key |-> key, got |-> NoEntry]]
    /\ UNCHANGED <<tables, cache, calc, history>>

ReadRows(r) ==
    /\ reader[r].pc = "missed"
    /\ reader' = [reader EXCEPT ![r].pc = "fill", ![r].got = Payload(reader[r].key)]
    /\ UNCHANGED <<tables, cache, calc, history>>

\* The entry is written from what was read, whatever happened since.
Fill(r) ==
    LET key == reader[r].key
    IN  /\ reader[r].pc = "fill"
        /\ cache' = [cache EXCEPT ![key] = reader[r].got]
        /\ excused' = IF key = "kpis" THEN reader[r].got # Payload(key) ELSE excused
        /\ reader' = [reader EXCEPT ![r].pc = "idle", ![r].got = NoEntry]
        /\ UNCHANGED <<tables, calc, settled>>

BadExpire(key) ==
    /\ key = "kpis"
    /\ cache[key] # NoEntry
    /\ cache' = [cache EXCEPT ![key] = NoEntry]
    /\ excused' = (excused /\ key # "kpis")
    /\ UNCHANGED <<tables, calc, reader, settled>>

\* Both entries are set with EX: Redis drops them when their time is over.
Expire(key) ==
    /\ cache[key] # NoEntry
    /\ cache' = [cache EXCEPT ![key] = NoEntry]
    /\ excused' = (excused /\ key # "kpis")
    /\ UNCHANGED <<tables, calc, reader, settled>>

-----------------------------------------------------------------------------
(* The rest of the system.                                                 *)

\* PATCH /alerts/:id/read on an alert still there (404 otherwise).
MarkAsRead(a) ==
    /\ alerts' = (alerts \ {a}) \cup {[a EXCEPT !.read = TRUE]}
    /\ alerts' # alerts
    /\ UNCHANGED <<values, cache, calc, reader, history>>

\* PATCH /alerts/read-all: every alert, those of no screen included.
MarkAllAsRead ==
    /\ Unread # {}
    /\ alerts' = {[a EXCEPT !.read = TRUE] : a \in alerts}
    /\ UNCHANGED <<values, cache, calc, reader, history>>

CalcStep(c) ==
    \/ DeleteValues(c) \/ CreateValue(c)
    \/ DeleteAlerts(c) \/ CreateAlert(c) \/ Invalidate(c)

ReaderStep(r) == ReadRows(r) \/ Fill(r)

Next ==
    \/ \E c \in Calcs : StartCalc(c) \/ CalcStep(c) \/ FailCalc(c)
    \/ \E r \in Readers, key \in Keys : Lookup(r, key)
    \/ \E r \in Readers : ReaderStep(r)
    \/ \E key \in Keys : Expire(key)
    \/ \E a \in alerts : MarkAsRead(a)
    \/ MarkAllAsRead

\* A request that is running goes on to its end, and Redis expires entries.
Fairness ==
    /\ \A c \in Calcs : WF_vars(CalcStep(c))
    /\ \A r \in Readers : WF_vars(ReaderStep(r))
    /\ \A key \in Keys : WF_vars(Expire(key))

Spec == Init /\ [][Next]_vars
FairSpec == Spec /\ Fairness

-----------------------------------------------------------------------------
(* Properties.                                                             *)

\* After a calculation that ran alone and to its end, every KPI has one value,
\* all of them from that calculation, and the alerts are those these values call
\* for, none more and none less: what an earlier calculation that overlapped
\* another one or broke in the middle had left is gone (kpis.service.ts:338-370).
Settled ==
    settled =>
      /\ \A k \in Kpis : Cardinality({v \in values : v.kpi = k}) = 1
      /\ \A v, w \in values : v.calc = w.calc
      /\ {<<a.kpi, a.severity>> : a \in alerts} =
           {<<v.kpi, SeverityOf[<<v.kpi, v.input>>]>> :
               v \in {w \in values : SeverityOf[<<w.kpi, w.input>>] # "INFO"}}

\* When no calculation is running, the entry of GET /kpis/values holds the rows
\* of the table, unless a request filled it from rows it had read before they
\* changed or a calculation broke off before it could delete it.
CacheIsCurrent ==
    Active = {} /\ cache["kpis"] # NoEntry /\ ~excused
      => cache["kpis"].values = values

\* Whatever raced, the two screens come back to the values of the table and stay
\* with them: an entry that is stale is dropped when its time is over, and no
\* request in flight can bring it back for ever.
CachesCatchUp ==
    <>[](\A key \in Keys : cache[key] = NoEntry \/ cache[key].values = values)
=============================================================================
