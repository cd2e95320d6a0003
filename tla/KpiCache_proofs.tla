-------------------------- MODULE KpiCache_proofs --------------------------
(***************************************************************************)
(* The invariants of KpiCache, for any list of KPI definitions, any number *)
(* of calculations and readers and any thresholds.  Nothing holds the      *)
(* writes of a calculation together, so what one has written is stated KPI *)
(* after KPI, for a calculation no other one overlaps: the rows before its *)
(* place in the loop are its own, the rows from there on are anyone's.     *)
(***************************************************************************)
EXTENDS KpiCache, FiniteSetTheorems, TLAPS

CalcState == [pc : {"idle", "next", "newValue", "delAlert", "newAlert", "invalidate", "done", "failed"},
              input : Inputs, at : DOMAIN KpiOrder, alone : BOOLEAN]

Entry == [kind : Keys, values : SUBSET ValueRow]

ReaderState == [pc : {"idle", "missed", "fill"}, key : Keys, got : {NoEntry} \cup Entry]

\* The types; what a reader is about to store is an entry of its own key.
Typed ==
  /\ values \subseteq ValueRow
  /\ alerts \subseteq AlertRow
  /\ cache \in [Keys -> {NoEntry} \cup Entry]
  /\ \A key \in Keys : cache[key] = NoEntry \/ cache[key].kind = key
  /\ calc \in [Calcs -> CalcState]
  /\ reader \in [Readers -> ReaderState]
  /\ \A r \in Readers : reader[r].pc = "fill" => reader[r].got \in Entry /\ reader[r].got.kind = reader[r].key
  /\ settled \in BOOLEAN
  /\ excused \in BOOLEAN

\* A calculation that is said to run alone is the only one running, and none is once the
\* tables are settled.
AloneKept ==
  /\ \A c, d \in Active : calc[c].alone => c = d
  /\ settled => Active = {}

\* The definitions of the loop before the one a calculation is at.
Before(c) == {KpiOrder[i] : i \in 1..(calc[c].at - 1)}

\* The KPIs whose value, and whose alert, a calculation has written.
ValuesOf(c) ==
  CASE calc[c].pc = "next"     -> Before(c)
    [] calc[c].pc = "newValue" -> Before(c) \ {Kpi(c)}
    [] OTHER                   -> Before(c) \cup {Kpi(c)}

AlertsOf(c) ==
  CASE calc[c].pc = "newAlert"   -> Before(c) \ {Kpi(c)}
    [] calc[c].pc = "invalidate" -> Before(c) \cup {Kpi(c)}
    [] OTHER                     -> Before(c)

Row(k, c) == [kpi |-> k, calc |-> c, input |-> calc[c].input]

\* The rows of a KPI are the ones a calculation gave it.
ValueWritten(k, c) ==
  /\ Row(k, c) \in values
  /\ \A v \in values : v.kpi = k => v = Row(k, c)

AlertWritten(k, c) ==
  /\ \A a \in alerts : a.kpi = k => a.severity = Severity(k, c) /\ Severity(k, c) # "INFO"
  /\ Severity(k, c) # "INFO" => \E a \in alerts : a.kpi = k

\* What a calculation that runs alone has written is still there, and what it has deleted
\* is not.
Written ==
  \A c \in Active : calc[c].alone =>
    /\ calc[c].pc = "invalidate" => calc[c].at = Len(KpiOrder)
    /\ calc[c].pc = "newValue" => \A v \in values : v.kpi # Kpi(c)
    /\ calc[c].pc = "newAlert" => /\ Severity(Kpi(c), c) # "INFO"
                                 /\ \A a \in alerts : a.kpi # Kpi(c)
    /\ \A k \in ValuesOf(c) : ValueWritten(k, c)
    /\ \A k \in AlertsOf(c) : AlertWritten(k, c)

\* The inductive invariant.
Inv == Typed /\ AloneKept /\ Written /\ Settled /\ CacheIsCurrent

(***************************************************************************)
(* What a step does to the calculations.                                   *)
(***************************************************************************)

\* The loop has a definition to begin with, and each of them is a KPI.
LEMMA Loop ==
  /\ Len(KpiOrder) \in Nat \ {0}
  /\ DOMAIN KpiOrder = 1..Len(KpiOrder)
  /\ \A i \in DOMAIN KpiOrder : KpiOrder[i] \in Kpis
BY KpiCacheAssumption DEF Kpis

\* A calculation that is not running has the type of a calculation.
LEMMA IdleType == Idle \in CalcState
<1>1. (CHOOSE i \in Inputs : TRUE) \in Inputs
  BY KpiCacheAssumption
<1>2. 1 \in DOMAIN KpiOrder
  BY Loop
<1> QED BY <1>1, <1>2 DEF Idle, CalcState

Running == {"next", "newValue", "delAlert", "newAlert", "invalidate"}

LEMMA ActiveRuns == Typed => Active = {c \in Calcs : calc[c].pc \in Running}
BY DEF Typed, CalcState, Active, Running

\* A calculation goes on to its next call.
LEMMA GotoEffect ==
  ASSUME Typed, NEW c \in Calcs, NEW p \in Running, calc' = [calc EXCEPT ![c].pc = p]
  PROVE  /\ calc' \in [Calcs -> CalcState]
         /\ \A d \in Calcs \ {c} : calc'[d] = calc[d]
         /\ calc'[c].pc = p
         /\ calc'[c].input = calc[c].input
         /\ calc'[c].at = calc[c].at
         /\ calc'[c].alone = calc[c].alone
BY DEF Typed, CalcState, Running

\* It goes on to the next definition, or to the deletion of the entry.
LEMMA ContinueEffect ==
  ASSUME Typed, NEW c \in Calcs, Continue(c)
  PROVE  /\ calc' \in [Calcs -> CalcState]
         /\ \A d \in Calcs \ {c} : calc'[d] = calc[d]
         /\ calc'[c].input = calc[c].input
         /\ calc'[c].alone = calc[c].alone
         /\ \/ /\ calc[c].at = Len(KpiOrder)
               /\ calc'[c].at = calc[c].at
               /\ calc'[c].pc = "invalidate"
            \/ /\ calc[c].at # Len(KpiOrder)
               /\ calc'[c].at = calc[c].at + 1
               /\ calc'[c].pc = "next"
<1>1. calc[c] \in CalcState /\ calc[c].at \in 1..Len(KpiOrder)
  BY Loop DEF Typed, CalcState
<1>2. CASE calc[c].at = Len(KpiOrder)
  <2>1. calc' = [calc EXCEPT ![c].pc = "invalidate"]
    BY <1>2 DEF Continue
  <2>2. "invalidate" \in Running
    BY DEF Running
  <2> QED BY <1>2, <2>1, <2>2, GotoEffect
<1>3. CASE calc[c].at # Len(KpiOrder)
  <2>1. calc[c].at + 1 \in DOMAIN KpiOrder
    BY <1>1, <1>3, Loop
  <2>2. calc' = [calc EXCEPT ![c].pc = "next", ![c].at = calc[c].at + 1]
    BY <1>3 DEF Continue
  <2>3. calc' = [calc EXCEPT ![c] = [calc[c] EXCEPT !.pc = "next", !.at = calc[c].at + 1]]
    BY <2>2, <1>1 DEF Typed, CalcState
  <2>4. [calc[c] EXCEPT !.pc = "next", !.at = calc[c].at + 1] \in CalcState
    BY <1>1, <2>1 DEF CalcState
  <2> QED BY <1>1, <1>3, <2>3, <2>4 DEF Typed, CalcState
<1> QED BY <1>2, <1>3

\* It ends, whole or broken.
LEMMA EndEffect ==
  ASSUME Typed, NEW c \in Calcs, NEW p \in {"done", "failed"}, calc' = [calc EXCEPT ![c] = [Idle EXCEPT !.pc = p]]
  PROVE  /\ calc' \in [Calcs -> CalcState]
         /\ Active' = Active \ {c}
         /\ \A d \in Calcs \ {c} : calc'[d] = calc[d]
<1>1. [Idle EXCEPT !.pc = p] \in CalcState /\ [Idle EXCEPT !.pc = p].pc = p
  BY IdleType DEF CalcState
<1> QED BY <1>1 DEF Typed, Active

\* While a calculation runs on, nothing is settled, the entry may be behind the table, and
\* it is the only one that may run alone.
LEMMA RunsOn ==
  ASSUME Inv, NEW c \in Active, calc' \in [Calcs -> CalcState],
         \A d \in Calcs \ {c} : calc'[d] = calc[d],
         calc'[c].pc \in Running, calc'[c].alone = calc[c].alone, settled' = settled
  PROVE  /\ AloneKept'
         /\ Settled'
         /\ CacheIsCurrent'
         /\ \A d \in Active' : calc'[d].alone => d = c /\ calc[c].alone
<1>1. Active' = Active
  BY DEF Active, Running
<1>2. ~settled'
  BY DEF Inv, AloneKept
<1>3. \A d \in Active : calc'[d].alone = calc[d].alone
  BY DEF Active
<1>4. AloneKept'
  BY <1>1, <1>2, <1>3 DEF Inv, AloneKept
<1>5. CacheIsCurrent'
  BY <1>1 DEF CacheIsCurrent
<1> QED BY <1>1, <1>2, <1>3, <1>4, <1>5 DEF Inv, AloneKept, Settled

\* A calculation that keeps its place keeps what it stands for.
LEMMA SamePlace ==
  ASSUME NEW c \in Calcs, calc'[c].at = calc[c].at
  PROVE  Kpi(c)' = Kpi(c) /\ Before(c)' = Before(c)
BY DEF Kpi, Before

LEMMA SameInput ==
  ASSUME NEW c \in Calcs, calc'[c].input = calc[c].input, NEW k
  PROVE  Row(k, c)' = Row(k, c) /\ Severity(k, c)' = Severity(k, c)
BY DEF Row, Severity

\* The definition a calculation was at is behind it when it goes on.
LEMMA ContinueSets ==
  ASSUME Typed, NEW c \in Calcs, Continue(c)
  PROVE  /\ ValuesOf(c)' = Before(c) \cup {Kpi(c)}
         /\ AlertsOf(c)' = Before(c) \cup {Kpi(c)}
         /\ calc'[c].pc = "invalidate" => calc'[c].at = Len(KpiOrder)
<1>1. calc[c].at \in 1..Len(KpiOrder) /\ Len(KpiOrder) \in Nat
  BY Loop DEF Typed, CalcState
<1>2. CASE calc'[c].pc = "invalidate"
  <2>1. calc'[c].at = calc[c].at /\ calc'[c].at = Len(KpiOrder)
    BY <1>2, ContinueEffect
  <2>2. Kpi(c)' = Kpi(c) /\ Before(c)' = Before(c)
    BY <2>1, SamePlace
  <2> QED BY <1>2, <2>1, <2>2 DEF ValuesOf, AlertsOf
<1>3. CASE calc'[c].pc = "next"
  <2>1. calc'[c].at = calc[c].at + 1
    BY <1>3, ContinueEffect
  <2>2. 1..(calc'[c].at - 1) = (1..(calc[c].at - 1)) \cup {calc[c].at}
    BY <1>1, <2>1
  <2>3. Before(c)' = Before(c) \cup {Kpi(c)}
    BY <2>2 DEF Before, Kpi
  <2> QED BY <1>3, <2>3 DEF ValuesOf, AlertsOf
<1> QED BY <1>2, <1>3, ContinueEffect

(***************************************************************************)
(* The steps of a calculation.                                             *)
(***************************************************************************)

\* Only what the calculation that takes the step has written is at stake.
LEMMA WrittenByOne ==
  ASSUME NEW c \in Active, \A d \in Active' : calc'[d].alone => d = c /\ calc[c].alone,
         calc[c].alone =>
           /\ calc'[c].pc = "invalidate" => calc'[c].at = Len(KpiOrder)
           /\ calc'[c].pc = "newValue" => \A v \in values' : v.kpi # Kpi(c)'
           /\ calc'[c].pc = "newAlert" => /\ Severity(Kpi(c), c)' # "INFO"
                                          /\ \A a \in alerts' : a.kpi # Kpi(c)'
           /\ \A k \in ValuesOf(c)' : ValueWritten(k, c)'
           /\ \A k \in AlertsOf(c)' : AlertWritten(k, c)'
  PROVE  Written'
BY DEF Written

\* The rows of the next definition are gone, and no other row.
LEMMA DeleteValuesKeeps ==
  ASSUME Inv, NEW c \in Calcs, DeleteValues(c)
  PROVE  Inv'
<1> USE DEF DeleteValues
<1>1. c \in Active
  BY DEF Active
<1>2. "newValue" \in Running
  BY DEF Running
<1>3. /\ calc' \in [Calcs -> CalcState]
      /\ \A d \in Calcs \ {c} : calc'[d] = calc[d]
      /\ calc'[c].pc = "newValue"
      /\ calc'[c].input = calc[c].input
      /\ calc'[c].at = calc[c].at
      /\ calc'[c].alone = calc[c].alone
  BY <1>2, GotoEffect DEF Inv
<1>4. Typed'
  BY <1>3 DEF Inv, Typed, history
<1>5. /\ AloneKept' /\ Settled' /\ CacheIsCurrent'
      /\ \A d \in Active' : calc'[d].alone => d = c /\ calc[c].alone
  BY <1>1, <1>2, <1>3, RunsOn DEF history
<1>6. Kpi(c)' = Kpi(c) /\ Before(c)' = Before(c)
  BY <1>3, SamePlace
<1>7. ASSUME calc[c].alone, NEW k \in ValuesOf(c)' PROVE ValueWritten(k, c)'
  <2>1. k \in ValuesOf(c) /\ k # Kpi(c)
    BY <1>3, <1>6, <1>7 DEF ValuesOf
  <2>2. ValueWritten(k, c)
    BY <1>1, <1>7, <2>1 DEF Inv, Written
  <2>3. Row(k, c)' = Row(k, c) /\ Row(k, c).kpi = k
    BY <1>3, SameInput DEF Row
  <2> QED BY <2>1, <2>2, <2>3 DEF ValueWritten
<1>8. ASSUME calc[c].alone, NEW k \in AlertsOf(c)' PROVE AlertWritten(k, c)'
  <2>1. k \in AlertsOf(c)
    BY <1>3, <1>6, <1>8 DEF AlertsOf
  <2>2. AlertWritten(k, c)
    BY <1>1, <1>8, <2>1 DEF Inv, Written
  <2> QED BY <1>3, <2>2, SameInput DEF AlertWritten
<1>9. \A v \in values' : v.kpi # Kpi(c)'
  BY <1>6
<1>10. Written'
  BY <1>1, <1>3, <1>5, <1>7, <1>8, <1>9, WrittenByOne
<1> QED BY <1>4, <1>5, <1>10 DEF Inv

\* The KPI has the one row of the calculation.
LEMMA CreateValueKeeps ==
  ASSUME Inv, NEW c \in Calcs, CreateValue(c)
  PROVE  Inv'
<1> USE DEF CreateValue
<1>1. c \in Active
  BY DEF Active
<1>2. "delAlert" \in Running
  BY DEF Running
<1>3. /\ calc' \in [Calcs -> CalcState]
      /\ \A d \in Calcs \ {c} : calc'[d] = calc[d]
      /\ calc'[c].pc = "delAlert"
      /\ calc'[c].input = calc[c].input
      /\ calc'[c].at = calc[c].at
      /\ calc'[c].alone = calc[c].alone
  BY <1>2, GotoEffect DEF Inv
<1>4. Typed'
  <2>1. Row(Kpi(c), c) \in ValueRow
    BY Loop DEF Inv, Typed, CalcState, Row, ValueRow, Kpi
  <2>2. values' \subseteq ValueRow
    BY <2>1 DEF Inv, Typed, Row
  <2> QED BY <1>3, <2>2 DEF Inv, Typed, history
<1>5. /\ AloneKept' /\ Settled' /\ CacheIsCurrent'
      /\ \A d \in Active' : calc'[d].alone => d = c /\ calc[c].alone
  BY <1>1, <1>2, <1>3, RunsOn DEF history
<1>6. Kpi(c)' = Kpi(c) /\ Before(c)' = Before(c)
  BY <1>3, SamePlace
<1>7. ASSUME calc[c].alone, NEW k \in ValuesOf(c)' PROVE ValueWritten(k, c)'
  <2>1. k = Kpi(c) \/ (k \in ValuesOf(c) /\ k # Kpi(c))
    BY <1>3, <1>6, <1>7 DEF ValuesOf
  <2>2. Row(k, c)' = Row(k, c) /\ Row(Kpi(c), c).kpi = Kpi(c)
    BY <1>3, SameInput DEF Row
  <2>3. values' = values \cup {Row(Kpi(c), c)}
    BY DEF Row
  <2>4. CASE k = Kpi(c)
    BY <1>1, <1>7, <2>2, <2>3, <2>4 DEF Inv, Written, ValueWritten
  <2>5. CASE k \in ValuesOf(c) /\ k # Kpi(c)
    <3>1. ValueWritten(k, c)
      BY <1>1, <1>7, <2>5 DEF Inv, Written
    <3> QED BY <2>2, <2>3, <2>5, <3>1 DEF ValueWritten
  <2> QED BY <2>1, <2>4, <2>5
<1>8. ASSUME calc[c].alone, NEW k \in AlertsOf(c)' PROVE AlertWritten(k, c)'
  <2>1. k \in AlertsOf(c)
    BY <1>3, <1>6, <1>8 DEF AlertsOf
  <2>2. AlertWritten(k, c)
    BY <1>1, <1>8, <2>1 DEF Inv, Written
  <2> QED BY <1>3, <2>2, SameInput DEF AlertWritten
<1>9. Written'
  BY <1>1, <1>3, <1>5, <1>7, <1>8, WrittenByOne
<1> QED BY <1>4, <1>5, <1>9 DEF Inv

\* The KPI has no alert any more; if its value is back at INFO, it needs none.
LEMMA DeleteAlertsKeeps ==
  ASSUME Inv, NEW c \in Calcs, DeleteAlerts(c)
  PROVE  Inv'
<1>1. c \in Active /\ calc[c].pc = "delAlert" /\ alerts' = {a \in alerts : a.kpi # Kpi(c)}
  BY DEF DeleteAlerts, Active
<1>2. UNCHANGED <<values, cache, reader, settled, excused>>
  BY DEF DeleteAlerts, history
<1>3. ASSUME NEW k, k # Kpi(c), AlertWritten(k, c), calc'[c].input = calc[c].input PROVE AlertWritten(k, c)'
  BY <1>1, <1>3, SameInput DEF AlertWritten
<1>4. ASSUME NEW k, calc'[c].input = calc[c].input, ValueWritten(k, c) PROVE ValueWritten(k, c)'
  BY <1>2, <1>4, SameInput DEF ValueWritten
<1>5. CASE Severity(Kpi(c), c) = "INFO"
  <2>1. Continue(c)
    BY <1>5 DEF DeleteAlerts
  <2>2. /\ calc' \in [Calcs -> CalcState]
        /\ \A d \in Calcs \ {c} : calc'[d] = calc[d]
        /\ calc'[c].input = calc[c].input
        /\ calc'[c].alone = calc[c].alone
        /\ calc'[c].pc \in {"invalidate", "next"}
    BY <2>1, ContinueEffect DEF Inv
  <2>3. Typed'
    BY <1>1, <1>2, <2>2 DEF Inv, Typed
  <2>4. /\ AloneKept' /\ Settled' /\ CacheIsCurrent'
        /\ \A d \in Active' : calc'[d].alone => d = c /\ calc[c].alone
    BY <1>1, <1>2, <2>2, RunsOn DEF Running
  <2>5. /\ ValuesOf(c)' = Before(c) \cup {Kpi(c)}
        /\ AlertsOf(c)' = Before(c) \cup {Kpi(c)}
        /\ calc'[c].pc = "invalidate" => calc'[c].at = Len(KpiOrder)
    BY <2>1, ContinueSets DEF Inv
  <2>6. ASSUME calc[c].alone, NEW k \in ValuesOf(c)' PROVE ValueWritten(k, c)'
    <3>1. k \in ValuesOf(c)
      BY <1>1, <2>5, <2>6 DEF ValuesOf
    <3> QED BY <1>1, <1>4, <2>2, <2>6, <3>1 DEF Inv, Written
  <2>7. ASSUME calc[c].alone, NEW k \in AlertsOf(c)' PROVE AlertWritten(k, c)'
    <3>1. CASE k = Kpi(c)
      <4>1. Severity(k, c)' = "INFO"
        BY <1>5, <2>2, <3>1, SameInput
      <4> QED BY <1>1, <3>1, <4>1 DEF AlertWritten
    <3>2. CASE k # Kpi(c)
      <4>1. k \in AlertsOf(c)
        BY <1>1, <2>5, <2>7, <3>2 DEF AlertsOf
      <4> QED BY <1>1, <1>3, <2>2, <2>7, <3>2, <4>1 DEF Inv, Written
    <3> QED BY <3>1, <3>2
  <2>8. Written'
    BY <1>1, <2>2, <2>4, <2>5, <2>6, <2>7, WrittenByOne
  <2> QED BY <2>3, <2>4, <2>8 DEF Inv
<1>6. CASE Severity(Kpi(c), c) # "INFO"
  <2>1. calc' = [calc EXCEPT ![c].pc = "newAlert"] /\ "newAlert" \in Running
    BY <1>6 DEF DeleteAlerts, Running
  <2>2. /\ calc' \in [Calcs -> CalcState]
        /\ \A d \in Calcs \ {c} : calc'[d] = calc[d]
        /\ calc'[c].pc = "newAlert"
        /\ calc'[c].input = calc[c].input
        /\ calc'[c].at = calc[c].at
        /\ calc'[c].alone = calc[c].alone
    BY <2>1, GotoEffect DEF Inv
  <2>3. Typed'
    BY <1>1, <1>2, <2>2 DEF Inv, Typed
  <2>4. /\ AloneKept' /\ Settled' /\ CacheIsCurrent'
        /\ \A d \in Active' : calc'[d].alone => d = c /\ calc[c].alone
    BY <1>1, <1>2, <2>1, <2>2, RunsOn
  <2>5. Kpi(c)' = Kpi(c) /\ Before(c)' = Before(c)
    BY <2>2, SamePlace
  <2>6. ASSUME calc[c].alone, NEW k \in ValuesOf(c)' PROVE ValueWritten(k, c)'
    <3>1. k \in ValuesOf(c)
      BY <1>1, <2>2, <2>5, <2>6 DEF ValuesOf
    <3> QED BY <1>1, <1>4, <2>2, <2>6, <3>1 DEF Inv, Written
  <2>7. ASSUME calc[c].alone, NEW k \in AlertsOf(c)' PROVE AlertWritten(k, c)'
    <3>1. k \in AlertsOf(c) /\ k # Kpi(c)
      BY <1>1, <2>2, <2>5, <2>7 DEF AlertsOf
    <3> QED BY <1>1, <1>3, <2>2, <2>7, <3>1 DEF Inv, Written
  <2>8. Severity(Kpi(c), c)' # "INFO" /\ \A a \in alerts' : a.kpi # Kpi(c)'
    <3>1. \A k : Severity(k, c)' = Severity(k, c)
      BY <2>2, SameInput
    <3> QED BY <1>1, <1>6, <2>2, <2>5, <3>1 DEF Severity
  <2>9. Written'
    BY <1>1, <2>2, <2>4, <2>6, <2>7, <2>8, WrittenByOne
  <2> QED BY <2>3, <2>4, <2>9 DEF Inv
<1> QED BY <1>5, <1>6

\* The KPI has the one alert its value calls for.
LEMMA CreateAlertKeeps ==
  ASSUME Inv, NEW c \in Calcs, CreateAlert(c)
  PROVE  Inv'
<1> DEFINE new == [kpi |-> Kpi(c), calc |-> c, read |-> FALSE, severity |-> Severity(Kpi(c), c)]
<1>1. c \in Active /\ calc[c].pc = "newAlert" /\ alerts' = alerts \cup {new} /\ Continue(c)
  BY DEF CreateAlert, Active
<1>2. UNCHANGED <<values, cache, reader, settled, excused>>
  BY DEF CreateAlert, history
<1>3. /\ calc' \in [Calcs -> CalcState]
      /\ \A d \in Calcs \ {c} : calc'[d] = calc[d]
      /\ calc'[c].input = calc[c].input
      /\ calc'[c].alone = calc[c].alone
      /\ calc'[c].pc \in {"invalidate", "next"}
  BY <1>1, ContinueEffect DEF Inv
<1>4. Typed'
  <2>1. calc[c].input \in Inputs /\ Kpi(c) \in Kpis
    BY Loop DEF Inv, Typed, CalcState, Kpi
  <2>2. Severity(Kpi(c), c) \in Severities
    BY <2>1, KpiCacheAssumption DEF Severity
  <2>3. new \in AlertRow
    BY <2>1, <2>2 DEF AlertRow
  <2>4. alerts' \subseteq AlertRow
    BY <1>1, <2>3 DEF Inv, Typed
  <2> QED BY <1>2, <1>3, <2>4 DEF Inv, Typed
<1>5. /\ AloneKept' /\ Settled' /\ CacheIsCurrent'
      /\ \A d \in Active' : calc'[d].alone => d = c /\ calc[c].alone
  BY <1>1, <1>2, <1>3, RunsOn DEF Running
<1>6. /\ ValuesOf(c)' = Before(c) \cup {Kpi(c)}
      /\ AlertsOf(c)' = Before(c) \cup {Kpi(c)}
      /\ calc'[c].pc = "invalidate" => calc'[c].at = Len(KpiOrder)
  BY <1>1, ContinueSets DEF Inv
<1>7. ASSUME calc[c].alone, NEW k \in ValuesOf(c)' PROVE ValueWritten(k, c)'
  <2>1. k \in ValuesOf(c)
    BY <1>1, <1>6, <1>7 DEF ValuesOf
  <2>2. ValueWritten(k, c) /\ Row(k, c)' = Row(k, c)
    BY <1>1, <1>3, <1>7, <2>1, SameInput DEF Inv, Written
  <2> QED BY <1>2, <2>2 DEF ValueWritten
<1>8. ASSUME calc[c].alone, NEW k \in AlertsOf(c)' PROVE AlertWritten(k, c)'
  <2>1. new.kpi = Kpi(c) /\ new.severity = Severity(Kpi(c), c)
    OBVIOUS
  <2>2. Severity(k, c)' = Severity(k, c)
    BY <1>3, SameInput
  <2>3. CASE k = Kpi(c)
    <3>1. Severity(k, c) # "INFO" /\ \A a \in alerts : a.kpi # Kpi(c)
      BY <1>1, <1>8, <2>3 DEF Inv, Written
    <3> HIDE DEF new
    <3> QED BY <1>1, <2>1, <2>2, <2>3, <3>1 DEF AlertWritten
  <2>4. CASE k # Kpi(c)
    <3>1. k \in AlertsOf(c)
      BY <1>1, <1>6, <1>8, <2>4 DEF AlertsOf
    <3>2. AlertWritten(k, c)
      BY <1>1, <1>8, <3>1 DEF Inv, Written
    <3> HIDE DEF new
    <3> QED BY <1>1, <2>1, <2>2, <2>4, <3>2 DEF AlertWritten
  <2> QED BY <2>3, <2>4
<1>9. Written'
  BY <1>1, <1>3, <1>5, <1>6, <1>7, <1>8, WrittenByOne
<1> QED BY <1>4, <1>5, <1>9 DEF Inv

\* Nothing a running calculation has written is touched.
LEMMA WrittenStays ==
  ASSUME Written, Active' \subseteq Active, \A d \in Active' : calc'[d] = calc[d], values' = values,
         \A k : (\A a \in alerts : a.kpi # k) => \A a \in alerts' : a.kpi # k,
         \A k, d : calc'[d] = calc[d] /\ AlertWritten(k, d) => AlertWritten(k, d)'
  PROVE  Written'
<1> SUFFICES ASSUME NEW c \in Active', calc'[c].alone
             PROVE  /\ calc'[c].pc = "invalidate" => calc'[c].at = Len(KpiOrder)
                    /\ calc'[c].pc = "newValue" => \A v \in values' : v.kpi # Kpi(c)'
                    /\ calc'[c].pc = "newAlert" => /\ Severity(Kpi(c), c)' # "INFO"
                                                   /\ \A a \in alerts' : a.kpi # Kpi(c)'
                    /\ \A k \in ValuesOf(c)' : ValueWritten(k, c)'
                    /\ \A k \in AlertsOf(c)' : AlertWritten(k, c)'
  BY DEF Written
<1>1. c \in Active /\ calc'[c] = calc[c] /\ calc[c].alone
  OBVIOUS
<1>2. Kpi(c)' = Kpi(c) /\ Before(c)' = Before(c)
  BY <1>1 DEF Kpi, Before
<1>3. ValuesOf(c)' = ValuesOf(c) /\ AlertsOf(c)' = AlertsOf(c)
  BY <1>1, <1>2 DEF ValuesOf, AlertsOf
<1>4. Severity(Kpi(c), c)' = Severity(Kpi(c), c)
  BY <1>1, <1>2 DEF Severity
<1>5. \A k : ValueWritten(k, c) => ValueWritten(k, c)'
  BY <1>1 DEF ValueWritten, Row
<1> QED BY <1>1, <1>2, <1>3, <1>4, <1>5 DEF Written

\* When every KPI is written, the tables are what Settled says.
LEMMA AllWritten ==
  ASSUME Typed, NEW c \in Calcs, \A k \in Kpis : ValueWritten(k, c) /\ AlertWritten(k, c)
  PROVE  /\ \A k \in Kpis : Cardinality({v \in values : v.kpi = k}) = 1
         /\ \A v, w \in values : v.calc = w.calc
         /\ {<<a.kpi, a.severity>> : a \in alerts} =
              {<<v.kpi, SeverityOf[<<v.kpi, v.input>>]>> :
                  v \in {w \in values : SeverityOf[<<w.kpi, w.input>>] # "INFO"}}
<1>1. \A k : Row(k, c).kpi = k /\ Row(k, c).calc = c /\ Row(k, c).input = calc[c].input
  BY DEF Row
<1>2. \A v \in values : v.kpi \in Kpis /\ v = Row(v.kpi, c)
  BY DEF Typed, ValueRow, ValueWritten
<1>3. ASSUME NEW k \in Kpis PROVE Cardinality({v \in values : v.kpi = k}) = 1
  <2>1. {v \in values : v.kpi = k} = {Row(k, c)}
    BY <1>1, <1>3 DEF ValueWritten
  <2> QED BY <2>1, FS_Singleton
<1>4. \A a \in alerts : a.kpi \in Kpis
  BY DEF Typed, AlertRow
<1>5. \A k : SeverityOf[<<Row(k, c).kpi, Row(k, c).input>>] = Severity(k, c)
  BY <1>1 DEF Severity
<1>6. ASSUME NEW a \in alerts
      PROVE  \E v \in values : /\ SeverityOf[<<v.kpi, v.input>>] # "INFO"
                               /\ <<a.kpi, a.severity>> = <<v.kpi, SeverityOf[<<v.kpi, v.input>>]>>
  <2>1. a.severity = Severity(a.kpi, c) /\ Severity(a.kpi, c) # "INFO" /\ Row(a.kpi, c) \in values
    BY <1>4 DEF AlertWritten, ValueWritten
  <2> QED BY <1>1, <1>5, <2>1
<1>7. ASSUME NEW v \in values, SeverityOf[<<v.kpi, v.input>>] # "INFO"
      PROVE  \E a \in alerts : <<a.kpi, a.severity>> = <<v.kpi, SeverityOf[<<v.kpi, v.input>>]>>
  <2>1. SeverityOf[<<v.kpi, v.input>>] = Severity(v.kpi, c)
    BY <1>2, <1>5
  <2>2. PICK a \in alerts : a.kpi = v.kpi
    BY <1>2, <1>7, <2>1 DEF AlertWritten
  <2>3. a.severity = Severity(v.kpi, c)
    BY <1>2, <2>2 DEF AlertWritten
  <2> QED BY <2>1, <2>2, <2>3
<1>8. \A v, w \in values : v.calc = w.calc
  BY <1>1, <1>2
<1> DEFINE raised == {<<a.kpi, a.severity>> : a \in alerts}
           called == {<<v.kpi, SeverityOf[<<v.kpi, v.input>>]>> :
                        v \in {w \in values : SeverityOf[<<w.kpi, w.input>>] # "INFO"}}
<1>9. raised = called
  <2>1. \A x \in raised : x \in called
    BY <1>6
  <2>2. \A x \in called : x \in raised
    BY <1>7
  <2> HIDE DEF raised, called
  <2> QED BY <2>1, <2>2
<1> HIDE DEF raised, called
<1> QED BY <1>3, <1>8, <1>9 DEF raised, called

\* The entry is dropped with the calculation; if it ran alone, it wrote every KPI.
LEMMA InvalidateKeeps ==
  ASSUME Inv, NEW c \in Calcs, Invalidate(c)
  PROVE  Inv'
<1>1. c \in Active /\ calc[c].pc = "invalidate" /\ settled' = calc[c].alone /\ excused' = FALSE
  BY DEF Invalidate, Active
<1>2. cache' = [cache EXCEPT !["kpis"] = NoEntry] /\ UNCHANGED <<values, alerts, reader>>
  BY DEF Invalidate, tables
<1>3. /\ calc' \in [Calcs -> CalcState]
      /\ Active' = Active \ {c}
      /\ \A d \in Calcs \ {c} : calc'[d] = calc[d]
  BY EndEffect DEF Inv, Invalidate
<1>4. Typed'
  BY <1>1, <1>2, <1>3 DEF Inv, Typed, CalcState
<1>5. \A d \in Active' : calc'[d] = calc[d] /\ d # c
  BY <1>3 DEF Active
<1>6. AloneKept'
  BY <1>1, <1>3, <1>5 DEF Inv, AloneKept
<1>7. Written'
  BY <1>2, <1>3, <1>5, WrittenStays DEF Inv, AlertWritten, Severity
<1>8. Settled'
  <2>1. ASSUME calc[c].alone, NEW k \in Kpis PROVE ValueWritten(k, c) /\ AlertWritten(k, c)
    <3>1. calc[c].at = Len(KpiOrder)
      BY <1>1, <2>1 DEF Inv, Written
    <3>2. PICK i \in 1..Len(KpiOrder) : k = KpiOrder[i]
      BY Loop DEF Kpis
    <3>3. i = Len(KpiOrder) \/ i \in 1..(Len(KpiOrder) - 1)
      <4>1. Len(KpiOrder) \in Nat /\ i \in Nat /\ 1 <= i /\ i <= Len(KpiOrder)
        BY Loop
      <4> QED BY <4>1
    <3>4. k \in Before(c) \cup {Kpi(c)}
      BY <3>1, <3>2, <3>3 DEF Before, Kpi
    <3>5. k \in ValuesOf(c) /\ k \in AlertsOf(c)
      BY <1>1, <3>4 DEF ValuesOf, AlertsOf
    <3> QED BY <1>1, <2>1, <3>5 DEF Inv, Written
  <2> QED BY <1>1, <1>2, <2>1, AllWritten DEF Inv, Settled
<1>9. CacheIsCurrent'
  BY <1>2 DEF Inv, Typed, CacheIsCurrent, Keys
<1> QED BY <1>4, <1>6, <1>7, <1>8, <1>9 DEF Inv

\* A calculation that breaks leaves nothing settled.
LEMMA FailCalcKeeps ==
  ASSUME Inv, NEW c \in Calcs, FailCalc(c)
  PROVE  Inv'
<1>1. settled' = FALSE /\ excused' = TRUE /\ UNCHANGED <<values, alerts, cache, reader>>
  BY DEF FailCalc, tables
<1>2. /\ calc' \in [Calcs -> CalcState]
      /\ Active' = Active \ {c}
      /\ \A d \in Calcs \ {c} : calc'[d] = calc[d]
  BY EndEffect DEF Inv, FailCalc
<1>3. Typed'
  BY <1>1, <1>2 DEF Inv, Typed
<1>4. \A d \in Active' : calc'[d] = calc[d]
  BY <1>2 DEF Active
<1>5. AloneKept'
  BY <1>1, <1>2, <1>4 DEF Inv, AloneKept
<1>6. Written'
  BY <1>1, <1>2, <1>4, WrittenStays DEF Inv, AlertWritten, Severity
<1> QED BY <1>1, <1>3, <1>5, <1>6 DEF Inv, Settled, CacheIsCurrent

\* A calculation that starts finds itself alone, or takes that from every other one.
LEMMA StartCalcKeeps ==
  ASSUME Inv, NEW c \in Calcs, StartCalc(c)
  PROVE  Inv'
<1> DEFINE begun(input) == [pc |-> "next", input |-> input, at |-> 1, alone |-> Active = {}]
<1>1. settled' = FALSE /\ UNCHANGED <<values, alerts, cache, reader, excused>> /\ calc[c].pc = "idle"
  BY DEF StartCalc, tables
<1>2. PICK input \in Inputs :
        calc' = [d \in Calcs |-> IF d = c THEN begun(input)
                                 ELSE IF d \in Active THEN [calc[d] EXCEPT !.alone = FALSE]
                                 ELSE calc[d]]
  BY DEF StartCalc
<1>3. begun(input) \in CalcState
  <2>1. (Active = {}) \in BOOLEAN
    OBVIOUS
  <2>2. 1 \in DOMAIN KpiOrder
    BY Loop
  <2> QED BY <2>1, <2>2 DEF CalcState
<1>4. \A d \in Calcs : calc[d] \in CalcState /\ [calc[d] EXCEPT !.alone = FALSE] \in CalcState
  BY DEF Inv, Typed, CalcState
<1>5. calc' \in [Calcs -> CalcState]
  BY <1>2, <1>3, <1>4
<1>6. Typed'
  BY <1>1, <1>5 DEF Inv, Typed
<1>7. calc'[c].pc = "next" /\ calc'[c].at = 1 /\ (calc'[c].alone <=> Active = {})
  BY <1>2
<1>8. ASSUME NEW d \in Calcs, d # c
      PROVE  /\ d \in Active' <=> d \in Active
             /\ d \in Active => calc'[d].alone = FALSE
  <2>1. CASE d \in Active
    BY <1>2, <1>4, <1>8, <2>1 DEF Active, CalcState
  <2>2. CASE d \notin Active
    BY <1>2, <1>8, <2>2 DEF Active
  <2> QED BY <2>1, <2>2
<1>9. c \in Active' /\ \A d \in Active' : calc'[d].alone => d = c
  BY <1>7, <1>8 DEF Active
<1>10. ASSUME calc'[c].alone, NEW d \in Active' PROVE d = c
  <2>1. d \in Calcs
    BY DEF Active
  <2> QED BY <1>7, <1>8, <1>10, <2>1
<1>11. AloneKept'
  BY <1>1, <1>9, <1>10 DEF AloneKept
<1>12. Written'
  <2>1. Before(c)' = {}
    BY <1>7 DEF Before
  <2>2. ValuesOf(c)' = {} /\ AlertsOf(c)' = {}
    BY <1>7, <2>1 DEF ValuesOf, AlertsOf
  <2> QED BY <1>7, <1>9, <2>2 DEF Written
<1> QED BY <1>1, <1>6, <1>9, <1>11, <1>12 DEF Inv, Settled, CacheIsCurrent

(***************************************************************************)
(* The readers, Redis, and the alerts that are read.                       *)
(***************************************************************************)

\* What changes neither the tables nor a calculation is between the entries and the rows.
LEMMA TablesKept ==
  ASSUME Inv, UNCHANGED <<values, alerts, calc, settled>>, Typed', CacheIsCurrent'
  PROVE  Inv'
<1>1. Active' = Active
  BY DEF Active
<1>2. AloneKept' /\ Settled'
  BY <1>1 DEF Inv, AloneKept, Settled
<1>3. Written'
  BY <1>1, WrittenStays DEF Inv, AlertWritten, Severity
<1> QED BY <1>2, <1>3 DEF Inv

LEMMA LookupKeeps ==
  ASSUME Inv, NEW r \in Readers, NEW key \in Keys, Lookup(r, key)
  PROVE  Inv'
<1>1. reader' = [reader EXCEPT ![r] = [pc |-> "missed", key |-> key, got |-> NoEntry]]
  BY DEF Lookup
<1>2. UNCHANGED <<values, alerts, cache, calc, settled, excused>>
  BY DEF Lookup, tables, history
<1>3. Typed'
  BY <1>1, <1>2 DEF Inv, Typed, ReaderState
<1>4. CacheIsCurrent'
  BY <1>2 DEF Inv, CacheIsCurrent, Active
<1> QED BY <1>2, <1>3, <1>4, TablesKept

LEMMA ReadRowsKeeps ==
  ASSUME Inv, NEW r \in Readers, ReadRows(r)
  PROVE  Inv'
<1> DEFINE got == Payload(reader[r].key)
<1>1. reader' = [reader EXCEPT ![r].pc = "fill", ![r].got = got]
  BY DEF ReadRows
<1>2. UNCHANGED <<values, alerts, cache, calc, settled, excused>>
  BY DEF ReadRows, tables, history
<1>3. got \in Entry /\ got.kind = reader[r].key
  BY DEF Inv, Typed, ReaderState, Payload, Entry
<1>4. Typed'
  <2> HIDE DEF got
  <2> QED BY <1>1, <1>2, <1>3 DEF Inv, Typed, ReaderState
<1>5. CacheIsCurrent'
  BY <1>2 DEF Inv, CacheIsCurrent, Active
<1> QED BY <1>2, <1>4, <1>5, TablesKept

\* What was read before the rows changed makes the entry excused.
LEMMA FillKeeps ==
  ASSUME Inv, NEW r \in Readers, Fill(r)
  PROVE  Inv'
<1> DEFINE key == reader[r].key
           got == reader[r].got
<1>1. reader' = [reader EXCEPT ![r].pc = "idle", ![r].got = NoEntry]
  BY DEF Fill
<1>2. /\ cache' = [cache EXCEPT ![key] = got]
      /\ excused' = IF key = "kpis" THEN got # Payload(key) ELSE excused
      /\ UNCHANGED <<values, alerts, calc, settled>>
  BY DEF Fill, tables
<1>3. key \in Keys /\ got \in Entry /\ got.kind = key
  BY DEF Inv, Typed, ReaderState, Fill
<1>4. excused' \in BOOLEAN
  <2>1. (got # Payload(key)) \in BOOLEAN
    OBVIOUS
  <2> QED BY <1>2, <2>1 DEF Inv, Typed
<1>5. Typed'
  <2> HIDE DEF key, got
  <2>1. cache' \in [Keys -> {NoEntry} \cup Entry] /\ \A k \in Keys : cache'[k] = NoEntry \/ cache'[k].kind = k
    BY <1>2, <1>3 DEF Inv, Typed
  <2>2. reader' \in [Readers -> ReaderState] /\ reader'[r].pc = "idle"
    BY <1>1 DEF Inv, Typed, ReaderState
  <2>3. \A s \in Readers \ {r} : reader'[s] = reader[s]
    BY <1>1 DEF Inv, Typed
  <2> QED BY <1>2, <1>4, <2>1, <2>2, <2>3 DEF Inv, Typed
<1>6. CacheIsCurrent'
  <2>1. CASE key = "kpis"
    <3>1. cache'["kpis"] = got
      BY <1>2, <1>3, <2>1 DEF Inv, Typed
    <3>2. ~excused' => got.values = values
      <4>1. CASE got = Payload(key)
        BY <4>1 DEF Payload
      <4>2. CASE got # Payload(key)
        <5>1. (got # Payload(key)) = TRUE
          BY <4>2
        <5> HIDE DEF got, key
        <5> QED BY <1>2, <2>1, <5>1
      <4> QED BY <4>1, <4>2
    <3> HIDE DEF got
    <3> QED BY <1>2, <3>1, <3>2 DEF CacheIsCurrent
  <2>2. CASE key # "kpis"
    <3>1. cache'["kpis"] = cache["kpis"] /\ excused' = excused
      BY <1>2, <1>3, <2>2 DEF Inv, Typed, Keys
    <3> QED BY <1>2, <3>1 DEF Inv, CacheIsCurrent, Active
  <2> QED BY <2>1, <2>2
<1> QED BY <1>2, <1>5, <1>6, TablesKept

LEMMA ExpireKeeps ==
  ASSUME Inv, NEW key \in Keys, Expire(key)
  PROVE  Inv'
<1>1. /\ cache' = [cache EXCEPT ![key] = NoEntry]
      /\ excused' = (excused /\ key # "kpis")
      /\ UNCHANGED <<values, alerts, calc, reader, settled>>
  BY DEF Expire, tables
<1>2. Typed'
  BY <1>1 DEF Inv, Typed
<1>3. CacheIsCurrent'
  BY <1>1 DEF Inv, Typed, CacheIsCurrent, Active, Keys
<1> QED BY <1>1, <1>2, <1>3, TablesKept

\* An alert that is read is still the alert of its KPI, at its severity.
LEMMA ReadingKeeps ==
  ASSUME Inv, UNCHANGED <<values, cache, calc, reader, settled, excused>>, alerts' \subseteq AlertRow,
         \A a \in alerts' : \E b \in alerts : b.kpi = a.kpi /\ b.severity = a.severity,
         \A b \in alerts : \E a \in alerts' : b.kpi = a.kpi /\ b.severity = a.severity
  PROVE  Inv'
<1>1. Active' = Active
  BY DEF Active
<1>2. Typed'
  BY DEF Inv, Typed
<1>3. AloneKept' /\ CacheIsCurrent'
  BY <1>1 DEF Inv, AloneKept, CacheIsCurrent
<1>4. Settled'
  <2>1. {<<a.kpi, a.severity>> : a \in alerts'} = {<<a.kpi, a.severity>> : a \in alerts}
    OBVIOUS
  <2> QED BY <2>1 DEF Inv, Settled
<1>5. ASSUME NEW k, NEW d, AlertWritten(k, d) PROVE AlertWritten(k, d)'
  <2>1. Severity(k, d)' = Severity(k, d)
    BY DEF Severity
  <2> QED BY <1>5, <2>1 DEF AlertWritten
<1>6. Written'
  BY <1>1, <1>5, WrittenStays DEF Inv
<1> QED BY <1>2, <1>3, <1>4, <1>6 DEF Inv

LEMMA ReadAlert ==
  ASSUME NEW a \in AlertRow
  PROVE  /\ [a EXCEPT !.read = TRUE] \in AlertRow
         /\ [a EXCEPT !.read = TRUE].kpi = a.kpi
         /\ [a EXCEPT !.read = TRUE].severity = a.severity
BY DEF AlertRow

LEMMA MarkAsReadKeeps ==
  ASSUME Inv, NEW a \in alerts, MarkAsRead(a)
  PROVE  Inv'
<1> DEFINE read == [a EXCEPT !.read = TRUE]
<1>1. a \in AlertRow
  BY DEF Inv, Typed
<1>2. read \in AlertRow /\ read.kpi = a.kpi /\ read.severity = a.severity
  BY <1>1, ReadAlert
<1>3. alerts' = (alerts \ {a}) \cup {read} /\ UNCHANGED <<values, cache, calc, reader, settled, excused>>
  BY DEF MarkAsRead, history
<1> HIDE DEF read
<1>4. alerts' \subseteq AlertRow
  BY <1>2, <1>3 DEF Inv, Typed
<1>5. \A x \in alerts' : \E b \in alerts : b.kpi = x.kpi /\ b.severity = x.severity
  BY <1>2, <1>3
<1>6. ASSUME NEW b \in alerts PROVE \E x \in alerts' : b.kpi = x.kpi /\ b.severity = x.severity
  BY <1>2, <1>3
<1> QED BY <1>3, <1>4, <1>5, <1>6, ReadingKeeps

LEMMA MarkAllAsReadKeeps ==
  ASSUME Inv, MarkAllAsRead
  PROVE  Inv'
<1>1. alerts' = {[a EXCEPT !.read = TRUE] : a \in alerts} /\ UNCHANGED <<values, cache, calc, reader, settled, excused>>
  BY DEF MarkAllAsRead, history
<1>2. \A a \in alerts : a \in AlertRow
  BY DEF Inv, Typed
<1>3. alerts' \subseteq AlertRow
  BY <1>1, <1>2, ReadAlert
<1>4. \A x \in alerts' : \E b \in alerts : b.kpi = x.kpi /\ b.severity = x.severity
  BY <1>1, <1>2, ReadAlert
<1>5. ASSUME NEW b \in alerts PROVE \E x \in alerts' : b.kpi = x.kpi /\ b.severity = x.severity
  <2>1. [b EXCEPT !.read = TRUE] \in alerts'
    BY <1>1
  <2> QED BY <1>2, <2>1, ReadAlert
<1> QED BY <1>1, <1>3, <1>4, <1>5, ReadingKeeps

(***************************************************************************)
(* The theorems.                                                           *)
(***************************************************************************)

LEMMA InitKeeps == Init => Inv
<1> SUFFICES ASSUME Init PROVE Inv
  OBVIOUS
<1>1. Active = {}
  BY DEF Init, Active, Idle
<1>2. Typed
  BY IdleType DEF Init, Typed, ReaderState, Keys
<1> QED BY <1>1, <1>2 DEF Init, Inv, AloneKept, Written, Settled, CacheIsCurrent, Keys

LEMMA StutterKeeps == Inv /\ UNCHANGED vars => Inv'
<1> SUFFICES ASSUME Inv, UNCHANGED vars PROVE Inv'
  OBVIOUS
<1>1. UNCHANGED <<values, alerts, cache, calc, reader, settled, excused>>
  BY DEF vars
<1>2. Typed'
  BY <1>1 DEF Inv, Typed
<1>3. CacheIsCurrent'
  BY <1>1 DEF Inv, CacheIsCurrent, Active
<1> QED BY <1>1, <1>2, <1>3, TablesKept

\* The invariant holds in every reachable state, whatever overlaps, breaks off or expires.
THEOREM KpiInvariance == Spec => []Inv
<1>1. Inv /\ [Next]_vars => Inv'
  <2> SUFFICES ASSUME Inv, [Next]_vars PROVE Inv'
    OBVIOUS
  <2>1. CASE \E c \in Calcs : StartCalc(c) \/ CalcStep(c) \/ FailCalc(c)
    BY <2>1, StartCalcKeeps, DeleteValuesKeeps, CreateValueKeeps, DeleteAlertsKeeps, CreateAlertKeeps,
       InvalidateKeeps, FailCalcKeeps DEF CalcStep
  <2>2. CASE \E r \in Readers, key \in Keys : Lookup(r, key)
    BY <2>2, LookupKeeps
  <2>3. CASE \E r \in Readers : ReaderStep(r)
    BY <2>3, ReadRowsKeeps, FillKeeps DEF ReaderStep
  <2>4. CASE \E key \in Keys : Expire(key)
    BY <2>4, ExpireKeeps
  <2>5. CASE \E a \in alerts : MarkAsRead(a)
    BY <2>5, MarkAsReadKeeps
  <2>6. CASE MarkAllAsRead
    BY <2>6, MarkAllAsReadKeeps
  <2>7. CASE UNCHANGED vars
    BY <2>7, StutterKeeps
  <2> QED BY <2>1, <2>2, <2>3, <2>4, <2>5, <2>6, <2>7 DEF Next
<1> QED BY <1>1, InitKeeps, PTL DEF Spec

\* The rows, the entries and the requests keep their types, and an entry is only ever
\* stored under its own key.
THEOREM KpiTypes == Spec => []TypeOK
<1>1. Inv => TypeOK
  BY DEF Inv, Typed, TypeOK, CalcState, ReaderState
<1> QED BY <1>1, KpiInvariance, PTL

\* After a calculation that ran alone to its end, each KPI has its one value and the alert
\* that value calls for, whatever earlier ones had left (kpis.service.ts:338-370).
THEOREM TablesSettle == Spec => []Settled
<1>1. Inv => Settled
  BY DEF Inv
<1> QED BY <1>1, KpiInvariance, PTL

\* With no calculation running, the entry of GET /kpis/values is behind the table only
\* through an old read or a calculation that broke off (kpis.service.ts:invalidateCacheForPeriod).
THEOREM CacheStaysCurrent == Spec => []CacheIsCurrent
<1>1. Inv => CacheIsCurrent
  BY DEF Inv
<1> QED BY <1>1, KpiInvariance, PTL
=============================================================================
