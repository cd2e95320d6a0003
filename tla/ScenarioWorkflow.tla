--------------------------- MODULE ScenarioWorkflow ---------------------------
(***************************************************************************)
(* ScenariosService (apps/api/src/modules/scenarios).  A scenario is a     *)
(* DRAFT whose hypotheses may be replaced; a calculation projects them on  *)
(* the lines of an approved budget and stores the snapshot; a CALCULATED   *)
(* scenario may be SAVED, and SAVED scenarios are what readers list and    *)
(* compare.  Every handler checks the status it reads and then writes by   *)
(* id, one database call after the other.                                  *)
(*                                                                         *)
(* The projection depends on the hypotheses and the mode only (the base    *)
(* budget is approved, its lines do not change), and is modelled by what   *)
(* it was computed from.  ScenarioProjection models the arithmetic.        *)
(*                                                                         *)
(* A definition named Bad... is the one that follows it with a plausible   *)
(* mistake.                                                                *)
(***************************************************************************)
EXTENDS Integers

CONSTANTS
  Scenario,     \* scenario identifiers (never reused)
  Hypotheses,   \* lists of hypotheses
  NoHypotheses, \* the empty list, of a scenario just created
  Mode,         \* calculation modes
  DefaultMode,  \* the mode of a scenario just created
  Request,      \* requests that can be served at the same time
  NoScenario, NoSnapshot

ASSUME ScenarioAssumption ==
  /\ NoHypotheses \in Hypotheses /\ DefaultMode \in Mode
  /\ NoScenario \notin Scenario
  /\ NoSnapshot \notin [hypotheses : Hypotheses, mode : Mode]

VARIABLES
  status,     \* scenarios.status, "unused" before the INSERT, "deleted" after the DELETE
  hypotheses, \* the rows of scenario_hypotheses
  mode,       \* scenarios.calculation_mode
  snapshot,   \* what the scenario's row of financial_snapshots was computed from
  logged,     \* scenarios with a SCENARIO_SAVE entry in audit_logs
  request,    \* what each request is doing and what it remembers
  raced,      \* history: scenarios that a request wrote on an outdated read
  unlogged    \* history: scenarios whose save stopped before its audit entry

vars == <<status, hypotheses, mode, snapshot, logged, request, raced, unlogged>>

Status == {"DRAFT", "CALCULATED", "SAVED"}
Phase  == {"idle", "replace", "reset", "mode", "upsert", "calculated", "saved", "audit", "delete"}

Projection   == [hypotheses : Hypotheses, mode : Mode]
RequestState == [at : Phase, scenario : Scenario \cup {NoScenario}, read : Status \cup {"none"},
                 hypotheses : Hypotheses, mode : Mode]

Idle == [at |-> "idle", scenario |-> NoScenario, read |-> "none",
         hypotheses |-> NoHypotheses, mode |-> DefaultMode]

TypeOK ==
  /\ status     \in [Scenario -> Status \cup {"unused", "deleted"}]
  /\ hypotheses \in [Scenario -> Hypotheses]
  /\ mode       \in [Scenario -> Mode]
  /\ snapshot   \in [Scenario -> Projection \cup {NoSnapshot}]
  /\ logged     \subseteq Scenario
  /\ request    \in [Request -> RequestState]
  /\ raced      \subseteq Scenario
  /\ unlogged   \subseteq Scenario

Init ==
  /\ status     = [c \in Scenario |-> "unused"]
  /\ hypotheses = [c \in Scenario |-> NoHypotheses]
  /\ mode       = [c \in Scenario |-> DefaultMode]
  /\ snapshot   = [c \in Scenario |-> NoSnapshot]
  /\ logged     = {}
  /\ request    = [r \in Request |-> Idle]
  /\ raced      = {}
  /\ unlogged   = {}

------------------------------------------------------------------------------
Exists(c) == status[c] \in Status

\* What compareScenarios accepts and a LECTEUR lists.
Comparable == {c \in Scenario : status[c] = "SAVED"}

Goto(r, at) == request' = [request EXCEPT ![r].at = at]
Finish(r)   == request' = [request EXCEPT ![r] = Idle]

\* A request in flight has read the hypotheses of c, or has seen it CALCULATED.
Relies(r, c) ==
  request[r].scenario = c /\ request[r].at \in {"reset", "mode", "upsert", "calculated", "saved"}

\* The write of r finds another status than the one r goes by.
Overtaken(r) == status[request[r].scenario] # request[r].read

Undermines(r) == \E s \in Request \ {r} : Relies(s, request[r].scenario)

RaceIf(r, condition) ==
  raced' = IF condition THEN raced \cup {request[r].scenario} ELSE raced

------------------------------------------------------------------------------
(* The first step of every handler: ensureOwnedScenario and its checks.     *)

\* The scenario is written only if the base budget is APPROVED or LOCKED.
CreateScenario(c) ==
  /\ status[c] = "unused"
  /\ status' = [status EXCEPT ![c] = "DRAFT"]
  /\ UNCHANGED <<hypotheses, mode, snapshot, logged, request, raced, unlogged>>

Begin(r, at, c, hs, m) ==
  /\ request[r] = Idle
  /\ Exists(c)
  /\ request' = [request EXCEPT ![r] =
       [at |-> at, scenario |-> c, read |-> status[c], hypotheses |-> hs, mode |-> m]]
  /\ UNCHANGED <<status, hypotheses, mode, snapshot, logged, raced, unlogged>>

BadAddHypotheses(r, c, hs) ==
  status[c] # "SAVED" /\ Begin(r, "replace", c, hs, mode[c])
AddHypotheses(r, c, hs) ==
  status[c] = "DRAFT" /\ Begin(r, "replace", c, hs, mode[c])

\* The mode of the call, or else the mode stored in the scenario.
BadCalculateScenario(r, c, m) ==
  Exists(c) /\ Begin(r, "reset", c, hypotheses[c], m)
CalculateScenario(r, c, m) ==
  status[c] = "DRAFT" /\ Begin(r, "reset", c, hypotheses[c], m)

SaveScenario(r, c) ==
  status[c] = "CALCULATED" /\ Begin(r, "saved", c, hypotheses[c], mode[c])

\* isReferencedInReport counts EXPORT entries, which no code writes.
BeginDelete(r, c) == Begin(r, "delete", c, hypotheses[c], mode[c])

------------------------------------------------------------------------------
(* The writes.                                                              *)

\* One database transaction; it raises if the scenario is gone.
ReplaceHypotheses(r) ==
  LET c == request[r].scenario IN
  /\ request[r].at = "replace"
  /\ Exists(c)
  /\ hypotheses' = [hypotheses EXCEPT ![c] = request[r].hypotheses]
  /\ RaceIf(r, Overtaken(r) \/ Undermines(r))
  /\ Finish(r)
  /\ UNCHANGED <<status, mode, snapshot, logged, unlogged>>

\* updateStatus goes by the id: it writes over any status and skips a row that is gone.
UpdateStatus(r, at, to, next) ==
  LET c == request[r].scenario IN
  /\ request[r].at = at
  /\ status' = [status EXCEPT ![c] = IF Exists(c) THEN to ELSE @]
  /\ RaceIf(r, Overtaken(r))
  /\ IF next = "idle" THEN Finish(r)
     ELSE request' = [request EXCEPT ![r].at = next, ![r].read = to]
  /\ UNCHANGED <<hypotheses, mode, snapshot, logged, unlogged>>

ResetStatus(r) == UpdateStatus(r, "reset", "DRAFT", "mode")

MarkCalculated(r) == UpdateStatus(r, "calculated", "CALCULATED", "idle")

BadMarkSaved(r) == UpdateStatus(r, "saved", "SAVED", "idle")
MarkSaved(r)    == UpdateStatus(r, "saved", "SAVED", "audit")

UpdateCalculationMode(r) ==
  LET c == request[r].scenario IN
  /\ request[r].at = "mode"
  /\ mode' = [mode EXCEPT ![c] = IF Exists(c) THEN request[r].mode ELSE @]
  /\ RaceIf(r, Overtaken(r) \/ (Undermines(r) /\ mode[c] # request[r].mode))
  /\ Goto(r, "upsert")
  /\ UNCHANGED <<status, hypotheses, snapshot, logged, unlogged>>

\* calculateSnapshotFromBudget reads the lines; the upsert writes the one row of the
\* scenario and the period.  The foreign key refuses a scenario that is gone.
UpsertScenarioSnapshot(r) ==
  LET c == request[r].scenario IN
  /\ request[r].at = "upsert"
  /\ Exists(c)
  /\ snapshot' = [snapshot EXCEPT ![c] =
                    [hypotheses |-> request[r].hypotheses, mode |-> request[r].mode]]
  /\ RaceIf(r, Overtaken(r))
  /\ Goto(r, "calculated")
  /\ UNCHANGED <<status, hypotheses, mode, logged, unlogged>>

CreateLog(r) ==
  /\ request[r].at = "audit"
  /\ logged' = logged \cup {request[r].scenario}
  /\ Finish(r)
  /\ UNCHANGED <<status, hypotheses, mode, snapshot, raced, unlogged>>

\* The hypotheses go with the row; its snapshot stays without scenario_id, which
\* PeriodClose follows.
DeleteScenario(r) ==
  LET c == request[r].scenario IN
  /\ request[r].at = "delete"
  /\ status'     = [status EXCEPT ![c] = "deleted"]
  /\ hypotheses' = [hypotheses EXCEPT ![c] = NoHypotheses]
  /\ snapshot'   = [snapshot EXCEPT ![c] = NoSnapshot]
  /\ Finish(r)
  /\ UNCHANGED <<mode, logged, raced, unlogged>>

\* A call raised (the budget has no lines, the foreign key refuses the snapshot, the database
\* is gone) or the process died; there is no database transaction to undo.
Fail(r) ==
  /\ request[r] # Idle
  /\ unlogged' = IF request[r].at = "audit" THEN unlogged \cup {request[r].scenario} ELSE unlogged
  /\ Finish(r)
  /\ UNCHANGED <<status, hypotheses, mode, snapshot, logged, raced>>

------------------------------------------------------------------------------
Accept(r) ==
  \E c \in Scenario :
    \/ \E hs \in Hypotheses : AddHypotheses(r, c, hs)
    \/ \E m \in Mode : CalculateScenario(r, c, m)
    \/ SaveScenario(r, c) \/ BeginDelete(r, c)

Write(r) ==
  \/ ReplaceHypotheses(r) \/ ResetStatus(r) \/ UpdateCalculationMode(r)
  \/ UpsertScenarioSnapshot(r) \/ MarkCalculated(r) \/ MarkSaved(r)
  \/ CreateLog(r) \/ DeleteScenario(r)

Next ==
  \/ \E c \in Scenario : CreateScenario(c)
  \/ \E r \in Request : Accept(r) \/ Write(r) \/ Fail(r)

Spec == Init /\ [][Next]_vars

------------------------------------------------------------------------------
\* A CALCULATED or SAVED scenario has a snapshot, however calculations interleave and
\* wherever they stop, and it is that of the hypotheses and the mode the scenario
\* shows, unless a request wrote on an outdated read: under a calculation, or after
\* somebody else had moved the scenario on (scenarios.service.ts:134, :167).
SnapshotMatches ==
  \A c \in Scenario : status[c] \in {"CALCULATED", "SAVED"} =>
    /\ snapshot[c] # NoSnapshot
    /\ c \notin raced => snapshot[c] = [hypotheses |-> hypotheses[c], mode |-> mode[c]]

\* What a reader compares is final: but for those outdated requests, a SAVED
\* scenario keeps its status and its snapshot until it is deleted.
SavedIsFinal ==
  [][\A c \in Comparable : c \notin raced' =>
       \/ status'[c] = "deleted"
       \/ c \in Comparable' /\ snapshot'[c] = snapshot[c]]_vars

\* The save of every scenario that a reader can see is in the audit trail, or about to
\* be, unless the request that saved it stopped between the two.
SavedIsLogged ==
  \A c \in Comparable :
    \/ c \in logged \cup unlogged
    \/ \E r \in Request : request[r].scenario = c /\ request[r].at = "audit"
==============================================================================
