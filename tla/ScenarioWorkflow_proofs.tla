----------------------- MODULE ScenarioWorkflow_proofs -----------------------
(***************************************************************************)
(* The invariants of ScenarioWorkflow, for any number of scenarios, lists  *)
(* of hypotheses, modes and concurrent requests.  SnapshotMatches is not   *)
(* inductive: a calculation takes five writes, and what it stores is right *)
(* only if what it read at the start still holds at each of them.          *)
(* Grounded says what a request in flight may rely on; Inv carries it      *)
(* along, and each action has a lemma that it preserves Inv.               *)
(*                                                                         *)
(* With one request at a time the exceptions of these properties never     *)
(* arise (SerialInv).                                                      *)
(*                                                                         *)
(* And the arithmetic of ScenarioProjection, for any budget and any        *)
(* hypotheses: the two modes and the calculation service find the same     *)
(* figures where they should.                                              *)
(***************************************************************************)
EXTENDS ScenarioProjection, FiniteSetTheorems, WellFoundedInduction, TLAPS

Calculating == {"reset", "mode", "upsert", "calculated"}

\* What the request q goes by is still so: it came upon an existing scenario in the
\* status that its handler asks for, and unless somebody wrote on an outdated read, the
\* scenario has the hypotheses that were projected, then the mode, then the snapshot.
Grounded(q) ==
  LET c == q.scenario IN
  /\ q.at # "idle" => c \in Scenario /\ status[c] # "unused"
  /\ q.at \in Calculating \cup {"replace"} => q.read = "DRAFT"
  /\ q.at = "saved" => q.read = "CALCULATED"
  /\ c \in Scenario /\ Exists(c) =>
       /\ q.at \in {"calculated", "saved"} => snapshot[c] # NoSnapshot
       /\ c \notin raced =>
            /\ q.at \in Calculating => hypotheses[c] = q.hypotheses
            /\ q.at \in {"upsert", "calculated"} => mode[c] = q.mode
            /\ q.at = "calculated" => snapshot[c] = [hypotheses |-> q.hypotheses, mode |-> q.mode]

AllGrounded == \A r \in Request : Grounded(request[r])

\* The inductive invariant.
Inv ==
  /\ TypeOK
  /\ AllGrounded
  /\ SnapshotMatches
  /\ SavedIsLogged

(***************************************************************************)
(* What a step does to the requests.                                       *)
(***************************************************************************)

\* A free request slot has the type of a request and relies on nothing.
LEMMA IdleGrounded == Idle \in RequestState /\ Grounded(Idle)
BY ScenarioAssumption DEF Idle, RequestState, Phase, Grounded, Calculating

\* Finish frees one slot and leaves the other requests alone.
LEMMA FinishEffect ==
  ASSUME TypeOK, NEW r \in Request, Finish(r)
  PROVE  /\ request' \in [Request -> RequestState]
         /\ request'[r] = Idle
         /\ \A s \in Request \ {r} : request'[s] = request[s]
BY IdleGrounded DEF TypeOK, Finish

\* Goto moves one request and leaves the other requests alone.
LEMMA GotoEffect ==
  ASSUME TypeOK, NEW r \in Request, NEW at \in Phase, Goto(r, at)
  PROVE  /\ request' \in [Request -> RequestState]
         /\ request'[r] = [request[r] EXCEPT !.at = at]
         /\ \A s \in Request \ {r} : request'[s] = request[s]
<1>1. [request[r] EXCEPT !.at = at] \in RequestState
  BY DEF TypeOK, RequestState
<1> QED BY <1>1 DEF TypeOK, Goto

(***************************************************************************)
(* Every step preserves Inv: one lemma per action.                         *)
(***************************************************************************)

\* A new scenario has no request that goes by it yet.
LEMMA CreateScenarioInv ==
  ASSUME Inv, NEW c \in Scenario, CreateScenario(c) PROVE Inv'
<1> USE DEF CreateScenario, Inv
<1>1. TypeOK'
  BY DEF TypeOK, Status
<1>2. AllGrounded'
  <2> SUFFICES ASSUME NEW s \in Request PROVE Grounded(request[s])'
    BY DEF AllGrounded
  <2>1. Grounded(request[s])
    BY DEF AllGrounded
  <2>2. request[s] \in RequestState
    BY DEF TypeOK
  <2>3. request[s].scenario = c => request[s].at = "idle"
    BY <2>1 DEF Grounded
  <2> QED BY <2>1, <2>2, <2>3 DEF Grounded, Exists, TypeOK, Calculating
<1>3. SnapshotMatches'
  BY DEF SnapshotMatches, TypeOK
<1>4. SavedIsLogged'
  BY DEF SavedIsLogged, Comparable, TypeOK
<1> QED BY <1>1, <1>2, <1>3, <1>4

\* Accepting a request changes no row; the request goes by what it has just read.
LEMMA BeginInv ==
  ASSUME Inv, NEW r \in Request, NEW c \in Scenario,
         NEW at \in {"replace", "reset", "saved", "delete"},
         NEW hs \in Hypotheses, NEW m \in Mode, Begin(r, at, c, hs, m),
         at \in {"replace", "reset"} => status[c] = "DRAFT",
         at = "reset" => hs = hypotheses[c],
         at = "saved" => status[c] = "CALCULATED"
  PROVE  Inv'
<1> USE DEF Begin, Inv
<1> DEFINE q == [at |-> at, scenario |-> c, read |-> status[c], hypotheses |-> hs, mode |-> m]
<1>1. q \in RequestState
  BY DEF RequestState, Phase, Exists
<1>2. request' = [request EXCEPT ![r] = q] /\ request'[r] = q
  BY DEF TypeOK
<1>3. TypeOK'
  BY <1>1, <1>2 DEF TypeOK
<1>4. AllGrounded'
  <2> SUFFICES ASSUME NEW s \in Request PROVE Grounded(request[s])'
    BY DEF AllGrounded
  <2>1. CASE s = r
    <3>1. status[c] = "CALCULATED" => snapshot[c] # NoSnapshot
      BY DEF SnapshotMatches
    <3>2. status[c] # "unused"
      BY DEF Exists, Status
    <3> QED BY <1>2, <2>1, <3>1, <3>2 DEF Grounded, Exists, Calculating
  <2>2. CASE s # r
    <3>1. Grounded(request[s]) /\ request'[s] = request[s]
      BY <1>2, <2>2 DEF AllGrounded, TypeOK
    <3> QED BY <3>1 DEF Grounded, Exists
  <2> QED BY <2>1, <2>2
<1>5. SnapshotMatches'
  BY DEF SnapshotMatches
<1>6. SavedIsLogged'
  <2>1. \A s \in Request : request[s].at = "audit" => request'[s] = request[s]
    BY <1>2 DEF Idle, TypeOK
  <2> QED BY <2>1 DEF SavedIsLogged, Comparable
<1> QED BY <1>3, <1>4, <1>5, <1>6

\* The four handlers start by such a step.
LEMMA AcceptInv ==
  ASSUME Inv, NEW r \in Request, Accept(r) PROVE Inv'
<1> PICK c \in Scenario :
      \/ \E hs \in Hypotheses : AddHypotheses(r, c, hs)
      \/ \E m \in Mode : CalculateScenario(r, c, m)
      \/ SaveScenario(r, c) \/ BeginDelete(r, c)
  BY DEF Accept
<1>0. hypotheses[c] \in Hypotheses /\ mode[c] \in Mode
  BY DEF Inv, TypeOK
<1>1. CASE \E hs \in Hypotheses : AddHypotheses(r, c, hs)
  BY <1>0, <1>1, BeginInv DEF AddHypotheses
<1>2. CASE \E m \in Mode : CalculateScenario(r, c, m)
  BY <1>0, <1>2, BeginInv DEF CalculateScenario
<1>3. CASE SaveScenario(r, c)
  BY <1>0, <1>3, BeginInv DEF SaveScenario
<1>4. CASE BeginDelete(r, c)
  BY <1>0, <1>4, BeginInv DEF BeginDelete
<1> QED BY <1>1, <1>2, <1>3, <1>4

\* Replacing the hypotheses under a calculation or after the scenario moved on is what
\* marks it as raced; otherwise the scenario is still a DRAFT nobody else goes by.
LEMMA ReplaceHypothesesInv ==
  ASSUME Inv, NEW r \in Request, ReplaceHypotheses(r) PROVE Inv'
<1> USE DEF ReplaceHypotheses, Inv
<1> DEFINE c == request[r].scenario
<1>0. c \in Scenario /\ request[r] \in RequestState /\ request[r].read = "DRAFT"
  BY DEF AllGrounded, Grounded, TypeOK
<1>1. /\ request' \in [Request -> RequestState]
      /\ request'[r] = Idle
      /\ \A s \in Request \ {r} : request'[s] = request[s]
  BY FinishEffect
<1>2. hypotheses' \in [Scenario -> Hypotheses] /\ \A d \in Scenario \ {c} : hypotheses'[d] = hypotheses[d]
  BY <1>0 DEF TypeOK, RequestState
<1>3. raced \subseteq raced' /\ raced' \subseteq Scenario
  BY <1>0 DEF RaceIf, TypeOK
<1>4. c \notin raced' => status[c] = "DRAFT" /\ \A s \in Request \ {r} : ~Relies(s, c)
  BY <1>0 DEF RaceIf, Overtaken, Undermines
<1>5. TypeOK'
  BY <1>1, <1>2, <1>3 DEF TypeOK
<1>6. AllGrounded'
  <2> SUFFICES ASSUME NEW s \in Request PROVE Grounded(request[s])'
    BY DEF AllGrounded
  <2>1. CASE s = r
    BY <1>1, <2>1, ScenarioAssumption DEF Grounded, Idle, Calculating
  <2>2. CASE s # r
    <3>1. Grounded(request[s]) /\ request'[s] = request[s]
      BY <1>1, <2>2 DEF AllGrounded
    <3>2. request[s].scenario = c /\ c \notin raced' => request[s].at \notin Calculating
      BY <1>4, <2>2 DEF Relies, Calculating
    <3> QED BY <1>2, <1>3, <3>1, <3>2 DEF Grounded, Exists, Calculating
  <2> QED BY <2>1, <2>2
<1>7. SnapshotMatches'
  BY <1>2, <1>3, <1>4 DEF SnapshotMatches
<1>8. SavedIsLogged'
  <2>1. \A s \in Request : request[s].at = "audit" => request'[s] = request[s]
    BY <1>1
  <2> QED BY <2>1 DEF SavedIsLogged, Comparable
<1> QED BY <1>5, <1>6, <1>7, <1>8

\* The three writes of the status: the next step of the same request goes by the status
\* it has just written, and a write over a status that has changed marks the scenario.
LEMMA UpdateStatusInv ==
  ASSUME Inv, NEW r \in Request, NEW at, NEW to, NEW next, UpdateStatus(r, at, to, next),
         \/ at = "reset" /\ to = "DRAFT" /\ next = "mode"
         \/ at = "calculated" /\ to = "CALCULATED" /\ next = "idle"
         \/ at = "saved" /\ to = "SAVED" /\ next = "audit"
  PROVE  Inv'
<1> USE DEF UpdateStatus, Inv
<1> DEFINE c == request[r].scenario
<1> DEFINE q == IF next = "idle" THEN Idle ELSE [request[r] EXCEPT !.at = next, !.read = to]
<1>0. c \in Scenario /\ request[r] \in RequestState /\ status[c] # "unused" /\ Grounded(request[r])
  BY DEF AllGrounded, Grounded, TypeOK
<1>1. q \in RequestState
  BY <1>0, IdleGrounded DEF RequestState, Phase, Status
<1>2. request' = [request EXCEPT ![r] = q]
  BY <1>0 DEF Finish, RequestState
<1>3. /\ request' \in [Request -> RequestState]
      /\ request'[r] = q
      /\ \A s \in Request \ {r} : request'[s] = request[s]
  BY <1>1, <1>2 DEF TypeOK
<1>4. /\ status' \in [Scenario -> Status \cup {"unused", "deleted"}]
      /\ status'[c] = IF Exists(c) THEN to ELSE status[c]
      /\ \A d \in Scenario \ {c} : status'[d] = status[d]
  BY <1>0 DEF TypeOK, Status
<1>5. raced \subseteq raced' /\ raced' \subseteq Scenario
  BY <1>0 DEF RaceIf, TypeOK
<1>6. c \notin raced' => status[c] = request[r].read
  BY <1>0 DEF RaceIf, Overtaken
<1>7. \A d \in Scenario : (Exists(d)' <=> Exists(d)) /\ (status[d] # "unused" => status'[d] # "unused")
  BY <1>4 DEF Exists, Status
<1>8. TypeOK'
  BY <1>3, <1>4, <1>5 DEF TypeOK
<1>9. AllGrounded'
  <2> SUFFICES ASSUME NEW s \in Request PROVE Grounded(request[s])'
    BY DEF AllGrounded
  <2>1. CASE s = r
    <3>1. CASE next = "idle"
      BY <1>3, <2>1, <3>1, ScenarioAssumption DEF Grounded, Idle, Calculating
    <3>2. CASE next # "idle"
      <4>1. /\ request'[s].scenario = c /\ request'[s].at = next /\ request'[s].read = to
            /\ request'[s].hypotheses = request[r].hypotheses /\ request'[s].mode = request[r].mode
        BY <1>0, <1>3, <2>1, <3>2 DEF RequestState
      <4> QED BY <1>0, <1>5, <1>7, <3>2, <4>1 DEF Grounded, Calculating
    <3> QED BY <3>1, <3>2
  <2>2. CASE s # r
    <3>1. Grounded(request[s]) /\ request'[s] = request[s]
      BY <1>3, <2>2 DEF AllGrounded
    <3> QED BY <1>5, <1>7, <3>1 DEF Grounded
  <2> QED BY <2>1, <2>2
<1>10. SnapshotMatches'
  <2> SUFFICES ASSUME NEW d \in Scenario, status'[d] \in {"CALCULATED", "SAVED"}
               PROVE  /\ snapshot[d] # NoSnapshot
                      /\ d \notin raced' => snapshot[d] = [hypotheses |-> hypotheses[d], mode |-> mode[d]]
    BY DEF SnapshotMatches
  <2>1. CASE d # c
    BY <1>4, <1>5, <2>1 DEF SnapshotMatches
  <2>2. CASE d = c
    <3>1. Exists(c) /\ at \in {"calculated", "saved"}
      BY <1>4, <2>2 DEF Exists, Status
    <3>2. snapshot[c] # NoSnapshot
      BY <1>0, <3>1 DEF Grounded
    <3>3. CASE at = "calculated"
      BY <1>0, <1>5, <2>2, <3>1, <3>2, <3>3 DEF Grounded, Calculating
    <3>4. CASE at = "saved"
      BY <1>0, <1>5, <1>6, <2>2, <3>2, <3>4 DEF Grounded, SnapshotMatches
    <3> QED BY <3>1, <3>3, <3>4
  <2> QED BY <2>1, <2>2
<1>11. SavedIsLogged'
  <2> SUFFICES ASSUME NEW d \in Scenario, status'[d] = "SAVED"
               PROVE  \/ d \in logged \cup unlogged
                      \/ \E s \in Request : request'[s].scenario = d /\ request'[s].at = "audit"
    BY DEF SavedIsLogged, Comparable
  <2>1. CASE status[d] = "SAVED"
    <3>1. \A s \in Request : request[s].at = "audit" => request'[s] = request[s]
      BY <1>3
    <3> QED BY <2>1, <3>1 DEF SavedIsLogged, Comparable
  <2>2. CASE status[d] # "SAVED"
    BY <1>0, <1>3, <1>4, <2>2 DEF RequestState
  <2> QED BY <2>1, <2>2
<1> QED BY <1>8, <1>9, <1>10, <1>11

\* The mode of the calculation becomes that of the scenario, for the others too.
LEMMA UpdateCalculationModeInv ==
  ASSUME Inv, NEW r \in Request, UpdateCalculationMode(r) PROVE Inv'
<1> USE DEF UpdateCalculationMode, Inv
<1> DEFINE c == request[r].scenario
<1>0. c \in Scenario /\ request[r] \in RequestState /\ status[c] # "unused" /\ Grounded(request[r])
  BY DEF AllGrounded, Grounded, TypeOK
<1>1. /\ request' \in [Request -> RequestState]
      /\ request'[r] = [request[r] EXCEPT !.at = "upsert"]
      /\ \A s \in Request \ {r} : request'[s] = request[s]
  BY GotoEffect DEF Phase
<1>2. /\ mode' \in [Scenario -> Mode]
      /\ mode'[c] = IF Exists(c) THEN request[r].mode ELSE mode[c]
      /\ \A d \in Scenario \ {c} : mode'[d] = mode[d]
  BY <1>0 DEF TypeOK, RequestState
<1>3. raced \subseteq raced' /\ raced' \subseteq Scenario
  BY <1>0 DEF RaceIf, TypeOK
<1>4. c \notin raced' =>
        /\ status[c] = "DRAFT"
        /\ mode[c] = request[r].mode \/ \A s \in Request \ {r} : ~Relies(s, c)
  BY <1>0 DEF RaceIf, Overtaken, Undermines, Grounded, Calculating
<1>5. TypeOK'
  BY <1>1, <1>2, <1>3 DEF TypeOK
<1>6. AllGrounded'
  <2> SUFFICES ASSUME NEW s \in Request PROVE Grounded(request[s])'
    BY DEF AllGrounded
  <2>1. CASE s = r
    <3>1. /\ request'[s].scenario = c /\ request'[s].at = "upsert" /\ request'[s].read = request[r].read
          /\ request'[s].hypotheses = request[r].hypotheses /\ request'[s].mode = request[r].mode
      BY <1>0, <1>1, <2>1 DEF RequestState
    <3> QED BY <1>0, <1>2, <1>3, <3>1 DEF Grounded, Calculating, Exists
  <2>2. CASE s # r
    <3>1. Grounded(request[s]) /\ request'[s] = request[s]
      BY <1>1, <2>2 DEF AllGrounded
    <3>2. request[s].scenario = c /\ c \notin raced' =>
            mode[c] = request[r].mode \/ request[s].at \notin {"upsert", "calculated"}
      BY <1>4, <2>2 DEF Relies
    <3> QED BY <1>2, <1>3, <3>1, <3>2 DEF Grounded, Exists
  <2> QED BY <2>1, <2>2
<1>7. SnapshotMatches'
  BY <1>2, <1>3, <1>4 DEF SnapshotMatches
<1>8. SavedIsLogged'
  <2>1. \A s \in Request : request[s].at = "audit" => request'[s] = request[s]
    BY <1>1
  <2> QED BY <2>1 DEF SavedIsLogged, Comparable
<1> QED BY <1>5, <1>6, <1>7, <1>8

\* Two calculations of an unraced scenario store the same snapshot; one that stores it
\* after the scenario moved on marks it.
LEMMA UpsertScenarioSnapshotInv ==
  ASSUME Inv, NEW r \in Request, UpsertScenarioSnapshot(r) PROVE Inv'
<1> USE DEF UpsertScenarioSnapshot, Inv
<1> DEFINE c == request[r].scenario
<1> DEFINE p == [hypotheses |-> request[r].hypotheses, mode |-> request[r].mode]
<1>0. c \in Scenario /\ request[r] \in RequestState /\ status[c] # "unused" /\ Grounded(request[r])
  BY DEF AllGrounded, Grounded, TypeOK
<1>1. /\ request' \in [Request -> RequestState]
      /\ request'[r] = [request[r] EXCEPT !.at = "calculated"]
      /\ \A s \in Request \ {r} : request'[s] = request[s]
  BY GotoEffect DEF Phase
<1>2. /\ p \in Projection
      /\ p # NoSnapshot
  BY <1>0, ScenarioAssumption DEF RequestState, Projection
<1>3. /\ snapshot' \in [Scenario -> Projection \cup {NoSnapshot}]
      /\ snapshot'[c] = p
      /\ \A d \in Scenario \ {c} : snapshot'[d] = snapshot[d]
  BY <1>0, <1>2 DEF TypeOK
<1>4. raced \subseteq raced' /\ raced' \subseteq Scenario
  BY <1>0 DEF RaceIf, TypeOK
<1>5. c \notin raced' => /\ status[c] = "DRAFT"
                        /\ hypotheses[c] = request[r].hypotheses /\ mode[c] = request[r].mode
  BY <1>0, <1>4 DEF RaceIf, Overtaken, Grounded, Calculating
<1>6. TypeOK'
  BY <1>1, <1>3, <1>4 DEF TypeOK
<1>7. AllGrounded'
  <2> SUFFICES ASSUME NEW s \in Request PROVE Grounded(request[s])'
    BY DEF AllGrounded
  <2>1. CASE s = r
    <3>1. /\ request'[s].scenario = c /\ request'[s].at = "calculated" /\ request'[s].read = request[r].read
          /\ request'[s].hypotheses = request[r].hypotheses /\ request'[s].mode = request[r].mode
      BY <1>0, <1>1, <2>1 DEF RequestState
    <3> QED BY <1>0, <1>2, <1>3, <1>5, <3>1 DEF Grounded, Calculating
  <2>2. CASE s # r
    <3>1. Grounded(request[s]) /\ request'[s] = request[s]
      BY <1>1, <2>2 DEF AllGrounded
    <3>2. CASE request[s].scenario # c
      BY <1>3, <1>4, <3>1, <3>2 DEF Grounded, Exists
    <3>3. CASE request[s].scenario = c
      BY <1>0, <1>2, <1>3, <1>4, <1>5, <3>1, <3>3 DEF Grounded, Exists, Calculating
    <3> QED BY <3>2, <3>3
  <2> QED BY <2>1, <2>2
<1>8. SnapshotMatches'
  <2> SUFFICES ASSUME NEW d \in Scenario, status[d] \in {"CALCULATED", "SAVED"}
               PROVE  /\ snapshot'[d] # NoSnapshot
                      /\ d \notin raced' => snapshot'[d] = [hypotheses |-> hypotheses[d], mode |-> mode[d]]
    BY DEF SnapshotMatches
  <2>1. CASE d = c
    BY <1>2, <1>3, <1>5, <2>1
  <2>2. CASE d # c
    BY <1>3, <1>4, <2>2 DEF SnapshotMatches
  <2> QED BY <2>1, <2>2
<1>9. SavedIsLogged'
  <2>1. \A s \in Request : request[s].at = "audit" => request'[s] = request[s]
    BY <1>1
  <2> QED BY <2>1 DEF SavedIsLogged, Comparable
<1> QED BY <1>6, <1>7, <1>8, <1>9

\* A step that ends a request and touches neither rows nor marks leaves the other
\* requests what they go by.
LEMMA FinishedGrounded ==
  ASSUME Inv, NEW r \in Request, Finish(r), UNCHANGED <<status, hypotheses, mode, snapshot, raced>>
  PROVE  AllGrounded'
<1> SUFFICES ASSUME NEW s \in Request PROVE Grounded(request[s])'
  BY DEF AllGrounded
<1>1. CASE s = r
  BY <1>1, FinishEffect, ScenarioAssumption DEF Inv, Grounded, Idle, Calculating
<1>2. CASE s # r
  BY <1>2, FinishEffect DEF Inv, AllGrounded, Grounded, Exists
<1> QED BY <1>1, <1>2

\* The audit entry of a save.
LEMMA CreateLogInv ==
  ASSUME Inv, NEW r \in Request, CreateLog(r) PROVE Inv'
<1> USE DEF CreateLog, Inv
<1>0. request[r].scenario \in Scenario
  BY DEF AllGrounded, Grounded
<1>1. \A s \in Request \ {r} : request'[s] = request[s]
  BY FinishEffect
<1>2. TypeOK'
  BY <1>0, FinishEffect DEF TypeOK
<1>3. AllGrounded'
  BY FinishedGrounded
<1>4. SnapshotMatches'
  BY DEF SnapshotMatches
<1>5. SavedIsLogged'
  BY <1>1 DEF SavedIsLogged, Comparable
<1> QED BY <1>2, <1>3, <1>4, <1>5

\* Deleting: no request can take the scenario for existing any more.
LEMMA DeleteScenarioInv ==
  ASSUME Inv, NEW r \in Request, DeleteScenario(r) PROVE Inv'
<1> USE DEF DeleteScenario, Inv
<1> DEFINE c == request[r].scenario
<1>0. c \in Scenario /\ status[c] # "unused"
  BY DEF AllGrounded, Grounded
<1>1. /\ request' \in [Request -> RequestState]
      /\ request'[r] = Idle
      /\ \A s \in Request \ {r} : request'[s] = request[s]
  BY FinishEffect
<1>2. /\ status'[c] = "deleted"
      /\ \A d \in Scenario \ {c} : /\ status'[d] = status[d] /\ hypotheses'[d] = hypotheses[d]
                                   /\ snapshot'[d] = snapshot[d]
  BY <1>0 DEF TypeOK
<1>3. TypeOK'
  BY <1>1, ScenarioAssumption DEF TypeOK
<1>4. AllGrounded'
  <2> SUFFICES ASSUME NEW s \in Request PROVE Grounded(request[s])'
    BY DEF AllGrounded
  <2>1. CASE s = r
    BY <1>1, <2>1, ScenarioAssumption DEF Grounded, Idle, Calculating
  <2>2. CASE s # r
    <3>1. Grounded(request[s]) /\ request'[s] = request[s]
      BY <1>1, <2>2 DEF AllGrounded
    <3> QED BY <1>2, <3>1 DEF Grounded, Exists, Status
  <2> QED BY <2>1, <2>2
<1>5. SnapshotMatches'
  BY <1>2 DEF SnapshotMatches
<1>6. SavedIsLogged'
  <2>1. \A s \in Request : request[s].at = "audit" => request'[s] = request[s]
    BY <1>1
  <2> QED BY <1>2, <2>1 DEF SavedIsLogged, Comparable
<1> QED BY <1>3, <1>4, <1>5, <1>6

\* A request that stops leaves the rows as they are; a save that stops before its
\* audit entry is remembered.
LEMMA FailInv ==
  ASSUME Inv, NEW r \in Request, Fail(r) PROVE Inv'
<1> USE DEF Fail, Inv
<1>1. \A s \in Request \ {r} : request'[s] = request[s]
  BY FinishEffect
<1>2. unlogged \subseteq unlogged' /\ unlogged' \subseteq Scenario
  BY DEF TypeOK, AllGrounded, Grounded
<1>3. TypeOK'
  BY <1>2, FinishEffect DEF TypeOK
<1>4. AllGrounded'
  BY FinishedGrounded
<1>5. SnapshotMatches'
  BY DEF SnapshotMatches
<1>6. SavedIsLogged'
  BY <1>1, <1>2 DEF SavedIsLogged, Comparable
<1> QED BY <1>3, <1>4, <1>5, <1>6

\* The writes, one of these at a time.
LEMMA WriteInv ==
  ASSUME Inv, NEW r \in Request, Write(r) PROVE Inv'
<1>1. CASE ReplaceHypotheses(r)
  BY <1>1, ReplaceHypothesesInv
<1>2. CASE ResetStatus(r)
  BY <1>2, UpdateStatusInv DEF ResetStatus
<1>3. CASE UpdateCalculationMode(r)
  BY <1>3, UpdateCalculationModeInv
<1>4. CASE UpsertScenarioSnapshot(r)
  BY <1>4, UpsertScenarioSnapshotInv
<1>5. CASE MarkCalculated(r)
  BY <1>5, UpdateStatusInv DEF MarkCalculated
<1>6. CASE MarkSaved(r)
  BY <1>6, UpdateStatusInv DEF MarkSaved
<1>7. CASE CreateLog(r)
  BY <1>7, CreateLogInv
<1>8. CASE DeleteScenario(r)
  BY <1>8, DeleteScenarioInv
<1> QED BY <1>1, <1>2, <1>3, <1>4, <1>5, <1>6, <1>7, <1>8 DEF Write

(***************************************************************************)
(* The theorems.                                                           *)
(***************************************************************************)

\* Every step of the service preserves the invariant.
LEMMA StepInv == Inv /\ [Next]_vars => Inv'
<1> SUFFICES ASSUME Inv, [Next]_vars PROVE Inv'
  OBVIOUS
<1>1. CASE \E c \in Scenario : CreateScenario(c)
  BY <1>1, CreateScenarioInv
<1>2. CASE \E r \in Request : Accept(r)
  BY <1>2, AcceptInv
<1>3. CASE \E r \in Request : Write(r)
  BY <1>3, WriteInv
<1>4. CASE \E r \in Request : Fail(r)
  BY <1>4, FailInv
<1>5. CASE UNCHANGED vars
  BY <1>5 DEF vars, Inv, TypeOK, AllGrounded, Grounded, Exists, SnapshotMatches, SavedIsLogged, Comparable
<1> QED BY <1>1, <1>2, <1>3, <1>4, <1>5 DEF Next

\* There is no scenario, snapshot or request at the start.
LEMMA InitInv == Init => Inv
<1> SUFFICES ASSUME Init PROVE Inv
  OBVIOUS
<1> USE DEF Init
<1>1. TypeOK
  BY ScenarioAssumption, IdleGrounded DEF TypeOK
<1>2. AllGrounded
  BY IdleGrounded DEF AllGrounded
<1>3. SnapshotMatches
  BY DEF SnapshotMatches
<1>4. SavedIsLogged
  BY DEF SavedIsLogged, Comparable
<1> QED BY <1>1, <1>2, <1>3, <1>4 DEF Inv

\* What a request in flight relies on holds at every point where it may write.
THEOREM ScenarioInvariance == Spec => []Inv
BY InitInv, StepInv, PTL DEF Spec

\* Rows, snapshots, requests and marks keep their types.
THEOREM ScenarioTypes == Spec => []TypeOK
<1>1. Inv => TypeOK
  BY DEF Inv
<1> QED BY <1>1, ScenarioInvariance, PTL

\* A CALCULATED or SAVED scenario has a snapshot, that of its hypotheses and mode unless
\* a request wrote on an outdated read (scenarios.service.ts:134, :167).
THEOREM SnapshotsMatch == Spec => []SnapshotMatches
<1>1. Inv => SnapshotMatches
  BY DEF Inv
<1> QED BY <1>1, ScenarioInvariance, PTL

\* Every SAVED scenario has its audit entry, is about to get it, or lost it when its
\* request stopped between the two writes.
THEOREM SavesAreLogged == Spec => []SavedIsLogged
<1>1. Inv => SavedIsLogged
  BY DEF Inv
<1> QED BY <1>1, ScenarioInvariance, PTL

\* No write that goes by what is true now can move a SAVED scenario or its snapshot.
LEMMA StepSavedIsFinal ==
  ASSUME Inv, [Next]_vars, NEW c \in Comparable, c \notin raced'
  PROVE  \/ status'[c] = "deleted"
         \/ c \in Comparable' /\ snapshot'[c] = snapshot[c]
<1> USE DEF Inv, TypeOK, Comparable
<1>1. CASE \E d \in Scenario : CreateScenario(d)
  BY <1>1 DEF CreateScenario
<1>2. ASSUME NEW r \in Request, Accept(r)
      PROVE  status' = status /\ snapshot' = snapshot
  BY <1>2 DEF Accept, AddHypotheses, CalculateScenario, SaveScenario, BeginDelete, Begin
<1>3. ASSUME NEW r \in Request, Fail(r)
      PROVE  status' = status /\ snapshot' = snapshot
  BY <1>3 DEF Fail
<1>4. ASSUME NEW r \in Request, NEW at \in {"reset", "calculated", "saved"}, NEW to, NEW next,
             UpdateStatus(r, at, to, next)
      PROVE  c \in Comparable' /\ snapshot'[c] = snapshot[c]
  <2>1. request[r].scenario \in Scenario /\ request[r].read # "SAVED"
    BY <1>4 DEF UpdateStatus, AllGrounded, Grounded, Calculating
  <2>2. request[r].scenario # c
    BY <1>4, <2>1 DEF UpdateStatus, RaceIf, Overtaken
  <2> QED BY <1>4, <2>1, <2>2 DEF UpdateStatus
<1>5. ASSUME NEW r \in Request, UpsertScenarioSnapshot(r)
      PROVE  c \in Comparable' /\ snapshot'[c] = snapshot[c]
  <2>1. request[r].scenario \in Scenario /\ request[r].read # "SAVED"
    BY <1>5 DEF UpsertScenarioSnapshot, AllGrounded, Grounded, Calculating
  <2>2. request[r].scenario # c
    BY <1>5, <2>1 DEF UpsertScenarioSnapshot, RaceIf, Overtaken
  <2> QED BY <1>5, <2>1, <2>2 DEF UpsertScenarioSnapshot
<1>6. ASSUME NEW r \in Request, DeleteScenario(r)
      PROVE  \/ status'[c] = "deleted"
             \/ c \in Comparable' /\ snapshot'[c] = snapshot[c]
  <2>1. request[r].scenario \in Scenario
    BY <1>6 DEF DeleteScenario, AllGrounded, Grounded
  <2> QED BY <1>6, <2>1 DEF DeleteScenario
<1>7. ASSUME NEW r \in Request, ReplaceHypotheses(r) \/ UpdateCalculationMode(r) \/ CreateLog(r)
      PROVE  status' = status /\ snapshot' = snapshot
  BY <1>7 DEF ReplaceHypotheses, UpdateCalculationMode, CreateLog
<1>8. ASSUME NEW r \in Request, ResetStatus(r) \/ MarkCalculated(r) \/ MarkSaved(r)
      PROVE  c \in Comparable' /\ snapshot'[c] = snapshot[c]
  BY <1>4, <1>8 DEF ResetStatus, MarkCalculated, MarkSaved
<1>9. CASE UNCHANGED vars
  BY <1>9 DEF vars
<1> QED BY <1>1, <1>2, <1>3, <1>5, <1>6, <1>7, <1>8, <1>9 DEF Next, Write

\* But for requests that go by an outdated read, a SAVED scenario keeps its status and
\* its snapshot until it is deleted: what readers compare does not change.
THEOREM SavedStaysFinal == Spec => SavedIsFinal
<1>1. Inv /\ [Next]_vars =>
        \A c \in Comparable : c \notin raced' =>
          \/ status'[c] = "deleted"
          \/ c \in Comparable' /\ snapshot'[c] = snapshot[c]
  BY StepSavedIsFinal
<1> QED BY <1>1, ScenarioInvariance, PTL DEF Spec, SavedIsFinal

(***************************************************************************)
(* Requests served one at a time.  What a request has read still holds     *)
(* when it writes, so nothing is ever written on an outdated read: the     *)
(* exceptions of SnapshotMatches and SavedIsFinal are races and nothing    *)
(* else.                                                                   *)
(***************************************************************************)
Serial == \A r, s \in Request : r = s

\* The scenario of a request in flight is where the request goes by it being.
UpToDate(q) == q.at # "idle" => q.scenario \in Scenario /\ status[q.scenario] = q.read

SerialInv ==
  /\ TypeOK
  /\ raced = {}
  /\ \A r \in Request : UpToDate(request[r])

\* The request that writes is the only one: it has overtaken nobody and undermines nobody.
LEMMA NobodyElse ==
  ASSUME Serial, SerialInv, NEW r \in Request, request[r].at # "idle"
  PROVE  ~Overtaken(r) /\ ~Undermines(r) /\ request[r].scenario \in Scenario
BY DEF Serial, SerialInv, UpToDate, Overtaken, Undermines

\* A request that is over goes by nothing, and there is no other.
LEMMA SerialFinished ==
  ASSUME Serial, SerialInv, TypeOK', raced' = {}, NEW r \in Request, Finish(r)
  PROVE  SerialInv'
<1>1. request'[r].at = "idle"
  BY FinishEffect DEF SerialInv, Idle
<1> QED BY <1>1 DEF SerialInv, Serial, UpToDate

LEMMA SerialCreated ==
  ASSUME SerialInv, TypeOK', NEW c \in Scenario, CreateScenario(c)
  PROVE  SerialInv'
<1>1. ASSUME NEW r \in Request
      PROVE  UpToDate(request[r])'
  <2>1. request[r].at # "idle" => request[r].read \in Status \cup {"none"} /\ status[c] = "unused"
    BY DEF SerialInv, TypeOK, RequestState, CreateScenario
  <2>2. request[r].at # "idle" => request[r].scenario # c
    BY <2>1 DEF SerialInv, UpToDate, Status
  <2> QED BY <2>2 DEF SerialInv, UpToDate, CreateScenario, TypeOK
<1> QED BY <1>1 DEF SerialInv, CreateScenario

LEMMA SerialBegun ==
  ASSUME Serial, SerialInv, TypeOK', NEW r \in Request, NEW at, NEW c \in Scenario, NEW hs, NEW m,
         Begin(r, at, c, hs, m)
  PROVE  SerialInv'
<1>1. request'[r].scenario = c /\ request'[r].read = status[c]
  BY DEF Begin, SerialInv, TypeOK
<1> QED BY <1>1 DEF SerialInv, Serial, UpToDate, Begin

LEMMA SerialStatus ==
  ASSUME Serial, Inv, SerialInv, TypeOK', NEW r \in Request, NEW at \in Phase \ {"idle"},
         NEW to, NEW next, UpdateStatus(r, at, to, next)
  PROVE  SerialInv'
<1>1. raced' = {}
  BY NobodyElse DEF UpdateStatus, RaceIf, SerialInv
<1>2. CASE next = "idle"
  BY <1>1, <1>2, SerialFinished DEF UpdateStatus
<1>3. CASE next # "idle"
  <2> DEFINE c == request[r].scenario
  <2>1. c \in Scenario /\ Exists(c)
    BY DEF UpdateStatus, SerialInv, UpToDate, Inv, AllGrounded, Grounded, TypeOK, RequestState, Exists
  <2>2. request'[r].scenario = c /\ request'[r].read = to /\ status'[c] = to
    BY <1>3, <2>1 DEF UpdateStatus, SerialInv, TypeOK, RequestState
  <2> QED BY <1>1, <2>1, <2>2 DEF SerialInv, Serial, UpToDate
<1> QED BY <1>2, <1>3

\* A write that moves on to the next one leaves the status alone.
LEMMA SerialMovedOn ==
  ASSUME Serial, SerialInv, TypeOK', raced' = {}, NEW r \in Request, request[r].at # "idle",
         NEW at \in Phase, Goto(r, at), status' = status
  PROVE  SerialInv'
<1>1. request'[r].scenario = request[r].scenario /\ request'[r].read = request[r].read
  BY GotoEffect DEF SerialInv, TypeOK, RequestState
<1> QED BY <1>1 DEF SerialInv, Serial, UpToDate

LEMMA SerialStep ==
  ASSUME Serial, Inv, SerialInv, Inv', [Next]_vars
  PROVE  SerialInv'
<1>0. TypeOK'
  BY DEF Inv
<1>1. ASSUME NEW c \in Scenario, CreateScenario(c)
      PROVE  SerialInv'
  BY <1>0, <1>1, SerialCreated
<1>2. ASSUME NEW r \in Request, Accept(r)
      PROVE  SerialInv'
  BY <1>0, <1>2, SerialBegun
     DEF Accept, AddHypotheses, CalculateScenario, SaveScenario, BeginDelete
<1>3. ASSUME NEW r \in Request, ResetStatus(r) \/ MarkCalculated(r) \/ MarkSaved(r)
      PROVE  SerialInv'
  BY <1>0, <1>3, SerialStatus DEF ResetStatus, MarkCalculated, MarkSaved, Phase
<1>4. ASSUME NEW r \in Request, ReplaceHypotheses(r)
      PROVE  SerialInv'
  <2>1. raced' = {}
    BY <1>4, NobodyElse DEF ReplaceHypotheses, RaceIf, SerialInv
  <2> QED BY <1>0, <1>4, <2>1, SerialFinished DEF ReplaceHypotheses
<1>5. ASSUME NEW r \in Request, UpdateCalculationMode(r)
      PROVE  SerialInv'
  <2>1. raced' = {}
    BY <1>5, NobodyElse DEF UpdateCalculationMode, RaceIf, SerialInv
  <2> QED BY <1>0, <1>5, <2>1, SerialMovedOn DEF UpdateCalculationMode, Phase
<1>6. ASSUME NEW r \in Request, UpsertScenarioSnapshot(r)
      PROVE  SerialInv'
  <2>1. raced' = {}
    BY <1>6, NobodyElse DEF UpsertScenarioSnapshot, RaceIf, SerialInv
  <2> QED BY <1>0, <1>6, <2>1, SerialMovedOn DEF UpsertScenarioSnapshot, Phase
<1>7. ASSUME NEW r \in Request, CreateLog(r) \/ DeleteScenario(r) \/ Fail(r)
      PROVE  SerialInv'
  BY <1>0, <1>7, SerialFinished DEF CreateLog, DeleteScenario, Fail, SerialInv
<1>8. CASE UNCHANGED vars
  BY <1>8 DEF vars, SerialInv, TypeOK, UpToDate
<1> QED BY <1>1, <1>2, <1>3, <1>4, <1>5, <1>6, <1>7, <1>8 DEF Next, Write

\* With one request at a time no request ever writes on an outdated read, wherever the
\* requests stop: raced stays empty.
THEOREM RacesTakeTwo == ASSUME Serial PROVE Spec => [](raced = {})
<1>1. Init => SerialInv
  BY InitInv DEF Init, Inv, SerialInv, UpToDate, Idle
<1>2. Inv /\ SerialInv /\ Inv' /\ [Next]_vars => SerialInv'
  BY SerialStep
<1>3. SerialInv => raced = {}
  BY DEF SerialInv
<1> QED BY <1>1, <1>2, <1>3, ScenarioInvariance, PTL DEF Spec

\* And so, with one request at a time, a CALCULATED or SAVED scenario has the snapshot of
\* the hypotheses and the mode it shows, without exception.
THEOREM SerialSnapshotsMatch ==
  ASSUME Serial
  PROVE  Spec => [](\A c \in Scenario : status[c] \in {"CALCULATED", "SAVED"} =>
                      snapshot[c] = [hypotheses |-> hypotheses[c], mode |-> mode[c]])
<1>1. SnapshotMatches /\ raced = {} =>
        \A c \in Scenario : status[c] \in {"CALCULATED", "SAVED"} =>
          snapshot[c] = [hypotheses |-> hypotheses[c], mode |-> mode[c]]
  BY DEF SnapshotMatches
<1> QED BY <1>1, RacesTakeTwo, SnapshotsMatch, PTL

(***************************************************************************)
(* What the snapshots hold.  ModesAgree is an equality of sums over the    *)
(* lines of a budget, after hypotheses that apply one after the other.     *)
(* A total of the model is a fold, defined by the choice of a function     *)
(* that satisfies a recursive equation: that it exists is proved by        *)
(* induction on the cardinality of the set, as in Screens_proofs.          *)
(***************************************************************************)

\* Sums are made one element after the other, each chosen among those left.
Pick(s) == CHOOSE x \in s : TRUE

\* What holds of 0 and of the successor of a number it holds of holds of all.
LEMMA NaturalInduction ==
  ASSUME NEW N, 0 \in N, \A n \in Nat : n \in N => n + 1 \in N
  PROVE  Nat \subseteq N
<1> SUFFICES ASSUME NEW b \in Nat, b \notin N PROVE FALSE
  OBVIOUS
<1> DEFINE R == OpToRel(<, Nat)
           T == Nat \ N
<1>1. IsWellFoundedOn(R, Nat)
  BY NatLessThanWellFounded
<1>2. PICK x \in T : \A y \in T : <<y, x>> \notin R
  <2>1. T \subseteq Nat /\ T # {}
    OBVIOUS
  <2> HIDE DEF R, T
  <2> QED BY <1>1, <2>1, WFMin
<1>3. x # 0 /\ x \in Nat /\ x - 1 \in Nat
  <2>1. x \in Nat /\ x \notin N
    OBVIOUS
  <2>2. x # 0
    BY <2>1
  <2> QED BY <2>1, <2>2
<1>4. x - 1 \notin N
  <2>1. (x - 1) + 1 = x
    BY <1>3
  <2> QED BY <1>2, <1>3, <2>1
<1>5. <<x - 1, x>> \in R
  BY <1>3 DEF OpToRel
<1> QED BY <1>2, <1>3, <1>4, <1>5

\* One element less in a finite set.
LEMMA Picked ==
  ASSUME NEW S, IsFiniteSet(S), NEW s \in SUBSET S
  PROVE  /\ IsFiniteSet(s) /\ Cardinality(s) \in Nat /\ (Cardinality(s) = 0 <=> s = {})
         /\ s # {} => /\ Pick(s) \in s /\ s \ {Pick(s)} \in SUBSET S
                      /\ Cardinality(s \ {Pick(s)}) = Cardinality(s) - 1
<1>1. IsFiniteSet(s) /\ Cardinality(s) \in Nat
  BY FS_Subset, FS_CardinalityType
<1> QED BY <1>1, FS_EmptySet, FS_RemoveElement DEF Pick

\* The sums of what g gives to the elements of each subset of S.
ArePartialSums(h, S, g) ==
    h = [s \in SUBSET S |-> IF s = {} THEN 0 ELSE g[Pick(s)] + h[s \ {Pick(s)}]]

\* They exist for a finite set: the recursion of a sum has a solution.
LEMMA PartialSums ==
  ASSUME NEW S, IsFiniteSet(S), NEW g
  PROVE  \E h : ArePartialSums(h, S, g)
<1> DEFINE Upto(n) == {s \in SUBSET S : Cardinality(s) <= n}
           Step(h, s) == IF s = {} THEN 0 ELSE g[Pick(s)] + h[s \ {Pick(s)}]
           Sums(h, D) == h = [s \in D |-> Step(h, s)]
           N == {n \in Nat : \E h : Sums(h, Upto(n))}
<1>1. \A s \in SUBSET S : Cardinality(s) \in Nat /\ (Cardinality(s) = 0 => s = {})
  BY Picked
<1>rest. \A s \in SUBSET S : s # {} =>
        /\ Pick(s) \in s /\ s \ {Pick(s)} \in SUBSET S
        /\ Cardinality(s \ {Pick(s)}) = Cardinality(s) - 1
  BY Picked
<1>2. 0 \in N
  <2>1. \A s \in Upto(0) : s = {}
    BY <1>1
  <2> DEFINE h == [s \in Upto(0) |-> 0]
  <2>2. Sums(h, Upto(0))
    BY <2>1
  <2> QED BY <2>2
<1>3. \A n \in Nat : n \in N => n + 1 \in N
  <2> SUFFICES ASSUME NEW n \in Nat, \E h : Sums(h, Upto(n)) PROVE \E h : Sums(h, Upto(n + 1))
    <3> HIDE DEF Sums, Upto
    <3> QED OBVIOUS
  <2>1. PICK k : Sums(k, Upto(n))
    OBVIOUS
  <2> DEFINE h == [s \in Upto(n + 1) |-> Step(k, s)]
  <2>2. \A s \in Upto(n + 1) : s # {} => s \ {Pick(s)} \in Upto(n) /\ s \ {Pick(s)} \in Upto(n + 1)
    BY <1>1, <1>rest
  <2>3. \A s \in Upto(n) : h[s] = k[s]
    <3>1. \A s \in Upto(n) : s \in Upto(n + 1)
      BY <1>1
    <3>2. \A s \in Upto(n) : k[s] = Step(k, s)
      BY <2>1
    <3> HIDE DEF Upto, Step
    <3> QED BY <3>1, <3>2
  <2>4. \A s \in Upto(n + 1) : Step(k, s) = Step(h, s)
    <3> HIDE DEF Upto, h
    <3> QED BY <2>2, <2>3
  <2>5. Sums(h, Upto(n + 1))
    <3> HIDE DEF Upto, Step
    <3> QED BY <2>4
  <2> QED BY <2>5
<1>4. Cardinality(S) \in N
  <2> HIDE DEF N
  <2> QED BY <1>1, <1>2, <1>3, NaturalInduction
<1>5. Upto(Cardinality(S)) = SUBSET S
  BY FS_Subset
<1> QED BY <1>4, <1>5 DEF ArePartialSums

\* What holds of a set when it holds of the set without its first element holds of
\* every subset of a finite set.
LEMMA PickInduction ==
  ASSUME NEW S, IsFiniteSet(S), NEW Q,
         \A s \in SUBSET S : (s # {} => s \ {Pick(s)} \in Q) => s \in Q
  PROVE  S \in Q
<1> DEFINE N == {n \in Nat : \A s \in SUBSET S : Cardinality(s) = n => s \in Q}
<1>1. 0 \in N
  BY Picked
<1>2. ASSUME NEW n \in Nat, n \in N PROVE n + 1 \in N
  <2> SUFFICES ASSUME NEW s \in SUBSET S, Cardinality(s) = n + 1 PROVE s \in Q
    OBVIOUS
  <2>1. s # {} => s \ {Pick(s)} \in SUBSET S /\ Cardinality(s \ {Pick(s)}) = Cardinality(s) - 1
    BY Picked
  <2>2. Cardinality(s) - 1 = n
    OBVIOUS
  <2> QED BY <1>2, <2>1, <2>2
<1>3. Cardinality(S) \in N
  <2>1. Cardinality(S) \in Nat
    BY FS_CardinalityType
  <2> HIDE DEF N
  <2> QED BY <1>1, <1>2, <2>1, NaturalInduction
<1> QED BY <1>3

\* A total is the last of the partial sums.
LEMMA TotalSums ==
  ASSUME NEW S, IsFiniteSet(S), NEW f
  PROVE  \E h : ArePartialSums(h, S, f) /\ Total(S, f) = h[S]
<1> DEFINE sums == CHOOSE h : ArePartialSums(h, S, f)
<1>1. Total(S, f) = sums[S]
  BY DEF Total, MapThenSumSet, MapThenFoldSet, Pick, ArePartialSums
<1>2. ArePartialSums(sums, S, f)
  BY PartialSums
<1> HIDE DEF sums
<1> QED BY <1>1, <1>2

\* Figures that are natural numbers times a factor.
Multiples(S, f, g, c) == \A x \in S : g[x] \in Nat /\ f[x] = g[x] * c

\* Their total is the total of the numbers times it.
LEMMA ScaledTotal ==
  ASSUME NEW S, IsFiniteSet(S), NEW f, NEW g, NEW c \in Int, Multiples(S, f, g, c)
  PROVE  Total(S, g) \in Nat /\ Total(S, f) = Total(S, g) * c
<1>1. PICK h : ArePartialSums(h, S, f) /\ Total(S, f) = h[S]
  BY TotalSums
<1>2. PICK k : ArePartialSums(k, S, g) /\ Total(S, g) = k[S]
  BY TotalSums
<1> DEFINE Q == {s \in SUBSET S : k[s] \in Nat /\ h[s] = k[s] * c}
<1>3. \A s \in SUBSET S : /\ h[s] = IF s = {} THEN 0 ELSE f[Pick(s)] + h[s \ {Pick(s)}]
                          /\ k[s] = IF s = {} THEN 0 ELSE g[Pick(s)] + k[s \ {Pick(s)}]
  BY <1>1, <1>2 DEF ArePartialSums
<1>4. ASSUME NEW s \in SUBSET S, s # {} => s \ {Pick(s)} \in Q PROVE s \in Q
  <2>1. CASE s = {}
    <3>1. k[s] = 0 /\ h[s] = 0
      BY <1>3, <2>1
    <3>2. 0 \in Nat /\ 0 = 0 * c
      OBVIOUS
    <3> QED BY <3>1, <3>2
  <2>2. CASE s # {}
    <3> DEFINE a == g[Pick(s)]
               b == k[s \ {Pick(s)}]
    <3>1. Pick(s) \in S
      BY <2>2 DEF Pick
    <3>2. a \in Nat /\ f[Pick(s)] = a * c
      BY <3>1 DEF Multiples
    <3>3. b \in Nat /\ h[s \ {Pick(s)}] = b * c
      BY <1>4, <2>2
    <3>4. k[s] = a + b /\ h[s] = a * c + b * c
      BY <1>3, <2>2, <3>2, <3>3
    <3> HIDE DEF a, b
    <3>5. a + b \in Nat /\ a * c + b * c = (a + b) * c
      BY <3>2, <3>3
    <3> QED BY <3>4, <3>5
  <2> QED BY <2>1, <2>2
<1>5. S \in Q
  <2> HIDE DEF Q
  <2> QED BY <1>4, PickInduction
<1> QED BY <1>1, <1>2, <1>5

\* A total of which one figure at most is not zero is that figure.
LEMMA LoneTotal ==
  ASSUME NEW S, IsFiniteSet(S), NEW f, NEW one,
         \A x \in S : f[x] \in Int /\ (x # one => f[x] = 0)
  PROVE  Total(S, f) = IF one \in S THEN f[one] ELSE 0
<1>1. PICK h : ArePartialSums(h, S, f) /\ Total(S, f) = h[S]
  BY TotalSums
<1> DEFINE Q == {s \in SUBSET S : h[s] = IF one \in s THEN f[one] ELSE 0}
<1>2. \A s \in SUBSET S : h[s] = IF s = {} THEN 0 ELSE f[Pick(s)] + h[s \ {Pick(s)}]
  BY <1>1 DEF ArePartialSums
<1>3. ASSUME NEW s \in SUBSET S, s # {} => s \ {Pick(s)} \in Q PROVE s \in Q
  <2>1. CASE s = {}
    BY <1>2, <2>1
  <2>2. CASE s # {}
    <3>1. Pick(s) \in s /\ Pick(s) \in S
      BY <2>2 DEF Pick
    <3>2. h[s] = f[Pick(s)] + h[s \ {Pick(s)}]
      BY <1>2, <2>2
    <3>3. h[s \ {Pick(s)}] = IF one \in s /\ one # Pick(s) THEN f[one] ELSE 0
      BY <1>3, <2>2
    <3>4. f[Pick(s)] \in Int /\ (Pick(s) # one => f[Pick(s)] = 0) /\ (one \in s => f[one] \in Int)
      BY <3>1
    <3> QED BY <3>1, <3>2, <3>3, <3>4
  <2> QED BY <2>1, <2>2
<1>4. S \in Q
  <2> HIDE DEF Q
  <2> QED BY <1>3, PickInduction
<1> QED BY <1>1, <1>4

-----------------------------------------------------------------------------
(* The amounts of the lines.                                               *)

Hypothesis == [parameter : STRING, value : Int, unit : STRING]

\* The budget's total of a type, in units of the currency.
AmountOfType(type) == Total({l \in Lines : l.type = type}, [l \in Lines |-> l.amount])

\* The amounts of a type are those of the budget times a factor.
Scaled(amounts, type, d) == \A l \in Lines : l.type = type => amounts[l] = l.amount * d

\* So is then the total of the type.
LEMMA TotalOfType ==
  ASSUME NEW type \in {"REVENUE", "EXPENSE", "CAPEX"}, NEW amounts, NEW d \in Int,
         Scaled(amounts, type, d)
  PROVE  /\ AmountOfType(type) \in Nat
         /\ Total({l \in Lines : l.type = type}, amounts) = AmountOfType(type) * d
<1> DEFINE g == [l \in Lines |-> l.amount]
           s == {l \in Lines : l.type = type}
<1>1. IsFiniteSet(s) /\ Multiples(s, amounts, g, d)
  BY ProjectionAssumption, FS_Subset DEF Scaled, Multiples
<1>2. AmountOfType(type) = Total(s, g)
  BY DEF AmountOfType
<1> HIDE DEF s, g
<1>3. Total(s, g) \in Nat /\ Total(s, amounts) = Total(s, g) * d
  BY <1>1, ScaledTotal
<1> QED BY <1>2, <1>3 DEF s

\* Amounts that differ from the budget in a rate on the sales have such totals.
LEMMA TotalsOf ==
  ASSUME NEW amounts, NEW c \in Int,
         \A l \in Lines : amounts[l] = IF l.type = "REVENUE" THEN l.amount * c ELSE l.amount * 10000
  PROVE  /\ \A type \in {"REVENUE", "EXPENSE", "CAPEX"} : AmountOfType(type) \in Nat
         /\ Totals(amounts) = [revenue  |-> AmountOfType("REVENUE") * c,
                               expenses |-> AmountOfType("EXPENSE") * 10000,
                               capex    |-> AmountOfType("CAPEX") * 10000]
<1> DEFINE of(type) == {l \in Lines : l.type = type}
           rate(type) == IF type = "REVENUE" THEN c ELSE 10000
<1>1. ASSUME NEW type \in {"REVENUE", "EXPENSE", "CAPEX"}
      PROVE  /\ AmountOfType(type) \in Nat
             /\ Total(of(type), amounts) = AmountOfType(type) * rate(type)
  <2> DEFINE d == rate(type)
  <2>1. d \in Int /\ Scaled(amounts, type, d)
    BY DEF Scaled
  <2> HIDE DEF rate, d
  <2>2. AmountOfType(type) \in Nat /\ Total({l \in Lines : l.type = type}, amounts) = AmountOfType(type) * d
    BY <2>1, TotalOfType
  <2> QED BY <2>2 DEF d
<1>2. Totals(amounts) = [revenue  |-> Total(of("REVENUE"), amounts),
                         expenses |-> Total(of("EXPENSE"), amounts),
                         capex    |-> Total(of("CAPEX"), amounts)]
  BY DEF Totals
<1>3. rate("REVENUE") = c /\ rate("EXPENSE") = 10000 /\ rate("CAPEX") = 10000
  OBVIOUS
<1> HIDE DEF of, rate
<1> QED BY <1>1, <1>2, <1>3

\* Those of the budget itself.
LEMMA TotalsOfBudget ==
  /\ AmountOfType("REVENUE") \in Nat /\ AmountOfType("EXPENSE") \in Nat /\ AmountOfType("CAPEX") \in Nat
  /\ Totals(Budgeted) = [revenue  |-> AmountOfType("REVENUE") * 10000,
                         expenses |-> AmountOfType("EXPENSE") * 10000,
                         capex    |-> AmountOfType("CAPEX") * 10000]
<1>1. \A l \in Lines : Budgeted[l] = l.amount * 10000
  BY ProjectionAssumption DEF Budgeted, Unit
<1>2. \A l \in Lines : Budgeted[l] = IF l.type = "REVENUE" THEN l.amount * 10000 ELSE l.amount * 10000
  BY <1>1
<1>3. /\ \A type \in {"REVENUE", "EXPENSE", "CAPEX"} : AmountOfType(type) \in Nat
      /\ Totals(Budgeted) = [revenue  |-> AmountOfType("REVENUE") * 10000,
                             expenses |-> AmountOfType("EXPENSE") * 10000,
                             capex    |-> AmountOfType("CAPEX") * 10000]
  BY <1>2, TotalsOf
<1> QED BY <1>3

\* The amounts after the hypotheses of COMPTES_CIBLES, one after the other.
LEMMA TargetedSteps ==
  ASSUME NEW hs \in Seq(Hypothesis)
  PROVE  /\ TargetedAmounts(hs)[0] = Budgeted
         /\ \A k \in 1 .. Len(hs) :
              TargetedAmounts(hs)[k] = ApplyTargeted(TargetedAmounts(hs)[k - 1], hs[k])
<1> DEFINE Step(h, k) == IF k = 0 THEN Budgeted ELSE ApplyTargeted(h[k - 1], hs[k])
           After(h, n) == h = [k \in 0 .. n |-> Step(h, k)]
           N == {n \in Nat : \E h : After(h, n)}
<1>1. 0 \in N
  <2> DEFINE h == [k \in 0 .. 0 |-> Budgeted]
  <2>1. After(h, 0)
    OBVIOUS
  <2> QED BY <2>1
<1>2. ASSUME NEW n \in Nat, n \in N PROVE n + 1 \in N
  <2>1. PICK f : After(f, n)
    BY <1>2
  <2> DEFINE h == [k \in 0 .. n + 1 |-> Step(f, k)]
  <2>2. \A k \in 0 .. n : h[k] = f[k]
    <3>1. \A k \in 0 .. n : f[k] = Step(f, k) /\ k \in 0 .. n + 1
      BY <2>1
    <3> HIDE DEF Step
    <3> QED BY <3>1
  <2>3. \A k \in 0 .. n + 1 : Step(f, k) = Step(h, k)
    <3>1. \A k \in 0 .. n + 1 : k # 0 => k - 1 \in 0 .. n
      OBVIOUS
    <3> HIDE DEF h
    <3> QED BY <2>2, <3>1
  <2>4. After(h, n + 1)
    <3> HIDE DEF Step
    <3> QED BY <2>3
  <2> HIDE DEF After, h
  <2> QED BY <2>4
<1>3. \E h : After(h, Len(hs))
  <2>1. Len(hs) \in Nat
    OBVIOUS
  <2> HIDE DEF N
  <2>2. Len(hs) \in N
    BY <1>1, <1>2, <2>1, NaturalInduction
  <2> QED BY <2>2 DEF N
<1> DEFINE t == CHOOSE h : After(h, Len(hs))
<1>4. TargetedAmounts(hs) = t
  BY DEF TargetedAmounts
<1>5. After(t, Len(hs))
  <2> HIDE DEF After
  <2> QED BY <1>3
<1> HIDE DEF t
<1>6. \A k \in 0 .. Len(hs) : t[k] = Step(t, k)
  BY <1>5
<1>7. Len(hs) \in Nat
  OBVIOUS
<1> QED BY <1>4, <1>6, <1>7

\* The amounts after the hypotheses of the calculation service.
LEMMA EngineSteps ==
  ASSUME NEW hs \in Seq(Hypothesis)
  PROVE  /\ EngineAmounts(hs)[0] = Budgeted
         /\ \A k \in 1 .. Len(hs) :
              EngineAmounts(hs)[k] = EngineApply(EngineAmounts(hs)[k - 1], hs[k])
<1> DEFINE Step(h, k) == IF k = 0 THEN Budgeted ELSE EngineApply(h[k - 1], hs[k])
           After(h, n) == h = [k \in 0 .. n |-> Step(h, k)]
           N == {n \in Nat : \E h : After(h, n)}
<1>1. 0 \in N
  <2> DEFINE h == [k \in 0 .. 0 |-> Budgeted]
  <2>1. After(h, 0)
    OBVIOUS
  <2> QED BY <2>1
<1>2. ASSUME NEW n \in Nat, n \in N PROVE n + 1 \in N
  <2>1. PICK f : After(f, n)
    BY <1>2
  <2> DEFINE h == [k \in 0 .. n + 1 |-> Step(f, k)]
  <2>2. \A k \in 0 .. n : h[k] = f[k]
    <3>1. \A k \in 0 .. n : f[k] = Step(f, k) /\ k \in 0 .. n + 1
      BY <2>1
    <3> HIDE DEF Step
    <3> QED BY <3>1
  <2>3. \A k \in 0 .. n + 1 : Step(f, k) = Step(h, k)
    <3>1. \A k \in 0 .. n + 1 : k # 0 => k - 1 \in 0 .. n
      OBVIOUS
    <3> HIDE DEF h
    <3> QED BY <2>2, <3>1
  <2>4. After(h, n + 1)
    <3> HIDE DEF Step
    <3> QED BY <2>3
  <2> HIDE DEF After, h
  <2> QED BY <2>4
<1>3. \E h : After(h, Len(hs))
  <2>1. Len(hs) \in Nat
    OBVIOUS
  <2> HIDE DEF N
  <2>2. Len(hs) \in N
    BY <1>1, <1>2, <2>1, NaturalInduction
  <2> QED BY <2>2 DEF N
<1> DEFINE t == CHOOSE h : After(h, Len(hs))
<1>4. EngineAmounts(hs) = t
  BY DEF EngineAmounts
<1>5. After(t, Len(hs))
  <2> HIDE DEF After
  <2> QED BY <1>3
<1> HIDE DEF t
<1>6. \A k \in 0 .. Len(hs) : t[k] = Step(t, k)
  BY <1>5
<1>7. Len(hs) \in Nat
  OBVIOUS
<1> QED BY <1>4, <1>6, <1>7

-----------------------------------------------------------------------------
(* GLOBAL and COMPTES_CIBLES.                                              *)

\* The one hypothesis on the growth of the sales, if there is one, and its rate.
Growths(hs)     == {i \in DOMAIN hs : hs[i].parameter = "revenue_growth"}
RateAt(hs, one) == IF one \in Growths(hs) THEN RateOf(hs[one]) ELSE 0

\* A rate is an integer, and so are an amount and a percentage.
LEMMA RatesTyped ==
  ASSUME NEW h \in Hypothesis
  PROVE  RateOf(h) \in Int /\ AmountOf(h) \in Int /\ Percentage(h) \in Int
BY DEF Hypothesis, RateOf, AmountOf, Percentage

\* Hypotheses on the same lines have one growth of the sales at most, by a rate, and
\* otherwise delays.
LEMMA LoneGrowth ==
  ASSUME NEW hs \in Seq(Hypothesis), SameLines(hs)
  PROVE  \E one : /\ \A i \in DOMAIN hs :
                       \/ hs[i].parameter \in {"dso_change", "dpo_change"} /\ i # one
                       \/ /\ hs[i].parameter = "revenue_growth" /\ i = one
                          /\ hs[i].unit \in {"%", "multiplier"} /\ RateOf(hs[i]) >= -10000
                  /\ RateAt(hs, one) \in Int /\ RateAt(hs, one) >= -10000
<1> DEFINE G == Growths(hs)
           one == IF G = {} THEN 0 ELSE CHOOSE i \in G : TRUE
<1>1. IsFiniteSet(DOMAIN hs) /\ 0 \notin DOMAIN hs
  <2>1. DOMAIN hs = 1 .. Len(hs) /\ Len(hs) \in Nat
    OBVIOUS
  <2> QED BY <2>1, FS_Interval
<1>2. IsFiniteSet(G)
  BY <1>1, FS_Subset DEF Growths
<1>3. Cardinality(G) <= 1
  BY DEF SameLines, Growths
<1>4. \A i, j \in G : i = j
  <2> SUFFICES ASSUME NEW i \in G, NEW j \in G, i # j PROVE FALSE
    OBVIOUS
  <2> DEFINE H == G \ {i}
  <2>1. IsFiniteSet(H) /\ Cardinality(H) = Cardinality(G) - 1 /\ Cardinality(G) \in Nat
    BY <1>2, FS_RemoveElement, FS_CardinalityType
  <2>2. j \in H
    OBVIOUS
  <2> HIDE DEF H, G
  <2>3. Cardinality(H) # 0 /\ Cardinality(H) \in Nat
    BY <2>1, <2>2, FS_EmptySet, FS_CardinalityType
  <2> QED BY <1>3, <2>1, <2>3
<1>5. \A i \in DOMAIN hs : i = one <=> hs[i].parameter = "revenue_growth"
  BY <1>1, <1>4 DEF Growths
<1>6. \A i \in DOMAIN hs : hs[i] \in Hypothesis
  OBVIOUS
<1>7. \A i \in DOMAIN hs :
        \/ hs[i].parameter \in {"dso_change", "dpo_change"}
        \/ hs[i].parameter = "revenue_growth" /\ hs[i].unit \in {"%", "multiplier"} /\ RateOf(hs[i]) >= -10000
  BY DEF SameLines
<1> HIDE DEF one
<1>8. RateAt(hs, one) \in Int /\ RateAt(hs, one) >= -10000
  <2>1. CASE one \in Growths(hs)
    <3>1. one \in DOMAIN hs /\ hs[one].parameter = "revenue_growth"
      BY <2>1 DEF Growths
    <3>2. RateOf(hs[one]) \in Int /\ RateOf(hs[one]) >= -10000
      BY <1>6, <1>7, <3>1, RatesTyped
    <3> QED BY <2>1, <3>2 DEF RateAt
  <2>2. CASE one \notin Growths(hs)
    BY <2>2 DEF RateAt
  <2> QED BY <2>1, <2>2
<1> QED BY <1>5, <1>7, <1>8

\* What one growth of the sales does to the totals all at once.
LEMMA GlobalOfGrowth ==
  ASSUME NEW hs \in Seq(Hypothesis), NEW one,
         \A i \in DOMAIN hs :
           \/ hs[i].parameter \in {"dso_change", "dpo_change"} /\ i # one
           \/ hs[i].parameter = "revenue_growth" /\ i = one /\ hs[i].unit \in {"%", "multiplier"},
         RateAt(hs, one) \in Int
  PROVE  Global(hs) = [revenue  |-> AmountOfType("REVENUE") * (10000 + RateAt(hs, one)),
                       expenses |-> AmountOfType("EXPENSE") * 10000,
                       capex    |-> AmountOfType("CAPEX") * 10000]
<1> DEFINE D == DOMAIN hs
           r == RateAt(hs, one)
           R == AmountOfType("REVENUE")
           E == AmountOfType("EXPENSE")
           C == AmountOfType("CAPEX")
<1>1. IsFiniteSet(D)
  <2>1. DOMAIN hs = 1 .. Len(hs) /\ Len(hs) \in Nat
    OBVIOUS
  <2> QED BY <2>1, FS_Interval
<1>2. R \in Nat /\ E \in Nat /\ C \in Nat
  BY TotalsOfBudget
<1>3. \A i \in D : /\ hs[i] \in Hypothesis
                   /\ \/ hs[i].parameter \in {"dso_change", "dpo_change"} /\ i # one
                      \/ hs[i].parameter = "revenue_growth" /\ i = one /\ hs[i].unit \in {"%", "multiplier"}
  OBVIOUS
<1>4. one \in D <=> one \in Growths(hs)
  BY <1>3 DEF Growths
<1>5. Added(hs, RevenueRate) = r
  <2> DEFINE f == [i \in D |-> RevenueRate(hs[i])]
  <2>1. \A i \in D : f[i] \in Int /\ (i # one => f[i] = 0)
    BY <1>3, RatesTyped DEF RevenueRate, Growth
  <2>2. one \in D => f[one] = RateOf(hs[one])
    BY <1>3 DEF RevenueRate, Growth
  <2>3. Added(hs, RevenueRate) = Total(D, f)
    BY DEF Added
  <2> HIDE DEF f, D
  <2>4. Total(D, f) = IF one \in D THEN f[one] ELSE 0
    BY <1>1, <2>1, LoneTotal
  <2> QED BY <1>4, <2>2, <2>3, <2>4 DEF RateAt
<1>zero. ASSUME NEW f, \A i \in D : f[i] = 0 PROVE Total(D, f) = 0
  <2> HIDE DEF D
  <2>1. \A i \in D : f[i] \in Int /\ (i # one => f[i] = 0)
    BY <1>zero
  <2>2. Total(D, f) = IF one \in D THEN f[one] ELSE 0
    BY <1>1, <2>1, LoneTotal
  <2> QED BY <1>zero, <2>2
<1>6. Added(hs, RevenueDelta) = 0
  <2> DEFINE f == [i \in D |-> RevenueDelta(hs[i])]
  <2>1. \A i \in D : f[i] = 0
    BY <1>3 DEF RevenueDelta, Growth, AmountOf
  <2>2. Added(hs, RevenueDelta) = Total(D, f)
    BY DEF Added
  <2> HIDE DEF f, D
  <2> QED BY <1>zero, <2>1, <2>2
<1>7. Added(hs, ExpenseRate) = 0
  <2> DEFINE f == [i \in D |-> ExpenseRate(hs[i])]
  <2>1. \A i \in D : f[i] = 0
    BY <1>3 DEF ExpenseRate, Burdens
  <2>2. Added(hs, ExpenseRate) = Total(D, f)
    BY DEF Added
  <2> HIDE DEF f, D
  <2> QED BY <1>zero, <2>1, <2>2
<1>8. Added(hs, ExpenseDelta) = 0
  <2> DEFINE f == [i \in D |-> ExpenseDelta(hs[i])]
  <2>1. \A i \in D : f[i] = 0
    BY <1>3 DEF ExpenseDelta, Burdens
  <2>2. Added(hs, ExpenseDelta) = Total(D, f)
    BY DEF Added
  <2> HIDE DEF f, D
  <2> QED BY <1>zero, <2>1, <2>2
<1>9. /\ Rated(R * 10000, r) = R * (10000 + r)
       /\ Rated(E * 10000, 0) = E * 10000
  <2> HIDE DEF R, E, r
  <2>1. (R * 10000) \div 10000 = R
    BY <1>2
  <2>2. R * 10000 + R * r = R * (10000 + r)
    BY <1>2, RateAt(hs, one) \in Int DEF r
  <2>3. E * 10000 + ((E * 10000) \div 10000) * 0 = E * 10000
    BY <1>2
  <2> QED BY <2>1, <2>2, <2>3 DEF Rated
<1>10. R * (10000 + r) \in Int /\ E * 10000 \in Nat /\ C * 10000 \in Nat
  BY <1>2
<1> DEFINE base == Totals(Budgeted)
           expenses == Floor(Rated(base.expenses, Added(hs, ExpenseRate)))
<1>11. base.revenue = R * 10000 /\ base.expenses = E * 10000 /\ base.capex = C * 10000
  BY TotalsOfBudget
<1>12. Global(hs) = [revenue  |-> Rated(base.revenue, Added(hs, RevenueRate)) + Added(hs, RevenueDelta),
                     expenses |-> Floor(expenses + Added(hs, ExpenseDelta)),
                     capex    |-> base.capex + Added(hs, LAMBDA h : CapexDelta(h, base.capex))]
  BY DEF Global
<1> HIDE DEF base
<1>13. Added(hs, LAMBDA h : CapexDelta(h, base.capex)) = 0
  <2> DEFINE f == [i \in D |-> CapexDelta(hs[i], base.capex)]
  <2>1. \A i \in D : f[i] = 0
    BY <1>3 DEF CapexDelta
  <2>2. Added(hs, LAMBDA h : CapexDelta(h, base.capex)) = Total(D, f)
    BY DEF Added
  <2> HIDE DEF f, D
  <2> QED BY <1>zero, <2>1, <2>2
<1> HIDE DEF R, E, C, r
<1>14. expenses = E * 10000
  BY <1>7, <1>9, <1>10, <1>11 DEF Floor
<1>15. Rated(base.revenue, Added(hs, RevenueRate)) + Added(hs, RevenueDelta) = R * (10000 + r)
  BY <1>5, <1>6, <1>9, <1>10, <1>11
<1>16. Floor(expenses + Added(hs, ExpenseDelta)) = E * 10000
  BY <1>8, <1>10, <1>14 DEF Floor
<1>17. base.capex + Added(hs, LAMBDA h : CapexDelta(h, base.capex)) = C * 10000
  BY <1>10, <1>11, <1>13
<1> HIDE DEF expenses
<1> QED BY <1>12, <1>15, <1>16, <1>17 DEF R, E, C, r

\* What the targets of the hypotheses are: the growth of the sales is about every line
\* of the sales, and a delay about none.
LEMMA TargetsOfGrowth ==
  ASSUME NEW l
  PROVE  /\ Targeted(l, "revenue_growth") <=> l.type = "REVENUE"
         /\ ~Targeted(l, "dso_change") /\ ~Targeted(l, "dpo_change")
         /\ ~Targets["revenue_growth"].inverse
BY DEF Targeted, Targets, Target, OfPrefixes

\* One line, by one rate.
LEMMA GrownLine ==
  ASSUME NEW a \in Nat, NEW h \in Hypothesis, h.parameter = "revenue_growth",
         h.unit \in {"%", "multiplier"}, RateOf(h) >= -10000
  PROVE  Floor(Adjusted(a * 10000, h)) = a * (10000 + RateOf(h))
<1> DEFINE r == RateOf(h)
           v == h.value
<1>1. r \in Int /\ v \in Int /\ 10000 + r \in Nat
  BY RatesTyped DEF Hypothesis
<1>2. Adjusted(a * 10000, h) = a * (10000 + r)
  <2>1. CASE h.unit = "%"
    <3>1. r = v
      BY <2>1 DEF RateOf
    <3>2. Adjusted(a * 10000, h) = Rated(a * 10000, 1 * v)
      BY <2>1, TargetsOfGrowth DEF Adjusted
    <3> HIDE DEF r, v
    <3>3. 1 * v = v /\ (a * 10000) \div 10000 = a
      BY <1>1
    <3>4. a * 10000 + a * v = a * (10000 + v)
      BY <1>1
    <3> QED BY <3>1, <3>2, <3>3, <3>4 DEF Rated
  <2>2. CASE h.unit = "multiplier"
    <3>1. r = 100 * (v - 100)
      BY <2>2 DEF RateOf
    <3>2. Adjusted(a * 10000, h) = ((a * 10000) \div 100) * v
      BY <2>2 DEF Adjusted
    <3> HIDE DEF r, v
    <3>3. (a * 10000) \div 100 = a * 100
      OBVIOUS
    <3>4. 10000 + 100 * (v - 100) = 100 * v
      BY <1>1
    <3>5. (a * 100) * v = a * (100 * v)
      BY <1>1
    <3> QED BY <3>1, <3>2, <3>3, <3>4, <3>5
  <2> QED BY <2>1, <2>2
<1> HIDE DEF r
<1>3. a * (10000 + r) >= 0 /\ a * (10000 + r) \in Int
  BY <1>1
<1> QED BY <1>2, <1>3 DEF Floor, r

\* What one growth of the sales does to the lines, one hypothesis after the other.
LEMMA TargetedOfGrowth ==
  ASSUME NEW hs \in Seq(Hypothesis), NEW one,
         \A i \in DOMAIN hs :
           \/ hs[i].parameter \in {"dso_change", "dpo_change"} /\ i # one
           \/ /\ hs[i].parameter = "revenue_growth" /\ i = one
              /\ hs[i].unit \in {"%", "multiplier"} /\ RateOf(hs[i]) >= -10000,
         RateAt(hs, one) \in Int
  PROVE  Totals(TargetedAmounts(hs)[Len(hs)]) =
           [revenue  |-> AmountOfType("REVENUE") * (10000 + RateAt(hs, one)),
            expenses |-> AmountOfType("EXPENSE") * 10000,
            capex    |-> AmountOfType("CAPEX") * 10000]
<1> DEFINE t == TargetedAmounts(hs)
           r == RateAt(hs, one)
           Grown(k, l) == l.type = "REVENUE" /\ one \in 1 .. k
           At(k) == \A l \in Lines : t[k][l] = IF Grown(k, l) THEN l.amount * (10000 + r) ELSE l.amount * 10000
           N == {k \in Nat : k <= Len(hs) => At(k)}
<1>1. Len(hs) \in Nat /\ DOMAIN hs = 1 .. Len(hs) /\ \A i \in DOMAIN hs : hs[i] \in Hypothesis
  OBVIOUS
<1>2. t[0] = Budgeted /\ \A k \in 1 .. Len(hs) : t[k] = ApplyTargeted(t[k - 1], hs[k])
  BY TargetedSteps
<1>amount. \A l \in Lines : l.amount \in Nat
  BY ProjectionAssumption
<1> HIDE DEF t
<1>3. 0 \in N
  <2>1. \A l \in Lines : Budgeted[l] = l.amount * 10000
    BY <1>amount DEF Budgeted, Unit
  <2>2. \A l \in Lines : ~Grown(0, l)
    OBVIOUS
  <2> HIDE DEF Grown
  <2> QED BY <1>2, <2>1, <2>2
<1>4. ASSUME NEW n \in Nat, n \in N PROVE n + 1 \in N
  <2> SUFFICES ASSUME n + 1 <= Len(hs), NEW l \in Lines
               PROVE  t[n + 1][l] = IF Grown(n + 1, l) THEN l.amount * (10000 + r) ELSE l.amount * 10000
    OBVIOUS
  <2> DEFINE k == n + 1
             h == hs[k]
  <2>1. k \in 1 .. Len(hs) /\ k - 1 = n /\ k \in DOMAIN hs
    BY <1>1
  <2>2. t[k][l] = IF Targeted(l, h.parameter) THEN Floor(Adjusted(t[n][l], h)) ELSE t[n][l]
    <3>1. t[k] = ApplyTargeted(t[n], h)
      BY <1>2, <2>1
    <3> HIDE DEF h, k
    <3> QED BY <3>1 DEF ApplyTargeted
  <2>3. t[n][l] = IF Grown(n, l) THEN l.amount * (10000 + r) ELSE l.amount * 10000
    BY <1>1, <1>4
  <2>4. h \in Hypothesis
    BY <1>1, <2>1
  <2>5. CASE h.parameter = "revenue_growth" /\ k = one /\ h.unit \in {"%", "multiplier"} /\ RateOf(h) >= -10000
    <3>1. r = RateOf(h)
      BY <2>1, <2>5 DEF RateAt, Growths
    <3>2. ~Grown(n, l) /\ (Grown(k, l) <=> l.type = "REVENUE")
      BY <2>1, <2>5
    <3>3. Targeted(l, h.parameter) <=> l.type = "REVENUE"
      BY <2>5, TargetsOfGrowth
    <3>4. Floor(Adjusted(l.amount * 10000, h)) = l.amount * (10000 + RateOf(h))
      BY <1>amount, <2>4, <2>5, GrownLine
    <3> HIDE DEF Grown, h, k, r
    <3> QED BY <2>2, <2>3, <3>1, <3>2, <3>3, <3>4 DEF k
  <2>6. CASE h.parameter \in {"dso_change", "dpo_change"} /\ k # one
    <3>1. Grown(k, l) <=> Grown(n, l)
      BY <2>1, <2>6
    <3>2. ~Targeted(l, h.parameter)
      BY <2>6, TargetsOfGrowth
    <3> HIDE DEF Grown, h, k, r
    <3> QED BY <2>2, <2>3, <3>1, <3>2 DEF k
  <2> QED BY <2>1, <2>5, <2>6
<1>5. At(Len(hs))
  <2> HIDE DEF N, At
  <2>1. Len(hs) \in N
    BY <1>1, <1>3, <1>4, NaturalInduction
  <2> QED BY <1>1, <2>1 DEF N
<1>6. one \notin 1 .. Len(hs) => r = 0
  BY <1>1 DEF RateAt, Growths
<1>7. \A l \in Lines : t[Len(hs)][l] = IF l.type = "REVENUE" THEN l.amount * (10000 + r) ELSE l.amount * 10000
  BY <1>5, <1>6
<1> DEFINE amounts == t[Len(hs)]
           c == 10000 + r
<1>8. c \in Int /\ \A l \in Lines : amounts[l] = IF l.type = "REVENUE" THEN l.amount * c ELSE l.amount * 10000
  BY <1>7
<1> HIDE DEF c, amounts
<1>9. Totals(amounts) = [revenue  |-> AmountOfType("REVENUE") * c,
                         expenses |-> AmountOfType("EXPENSE") * 10000,
                         capex    |-> AmountOfType("CAPEX") * 10000]
  BY <1>8, TotalsOf
<1> QED BY <1>9 DEF amounts, t, c

\* So the figures do not depend on the mode.
LEMMA SameFigures ==
  ASSUME NEW hs \in Seq(Hypothesis), SameLines(hs), NEW m, NEW n
  PROVE  Figures(hs, n) = Figures(hs, m)
<1>1. PICK one :
        /\ \A i \in DOMAIN hs :
             \/ hs[i].parameter \in {"dso_change", "dpo_change"} /\ i # one
             \/ /\ hs[i].parameter = "revenue_growth" /\ i = one
                /\ hs[i].unit \in {"%", "multiplier"} /\ RateOf(hs[i]) >= -10000
        /\ RateAt(hs, one) \in Int
  BY LoneGrowth
<1>2. Global(hs) = Totals(TargetedAmounts(hs)[Len(hs)])
  <2>1. \A i \in DOMAIN hs :
          \/ hs[i].parameter \in {"dso_change", "dpo_change"} /\ i # one
          \/ hs[i].parameter = "revenue_growth" /\ i = one /\ hs[i].unit \in {"%", "multiplier"}
    BY <1>1
  <2>2. Global(hs) = [revenue  |-> AmountOfType("REVENUE") * (10000 + RateAt(hs, one)),
                      expenses |-> AmountOfType("EXPENSE") * 10000,
                      capex    |-> AmountOfType("CAPEX") * 10000]
    BY <1>1, <2>1, GlobalOfGrowth
  <2>3. Totals(TargetedAmounts(hs)[Len(hs)]) =
          [revenue  |-> AmountOfType("REVENUE") * (10000 + RateAt(hs, one)),
           expenses |-> AmountOfType("EXPENSE") * 10000,
           capex    |-> AmountOfType("CAPEX") * 10000]
    BY <1>1, TargetedOfGrowth
  <2> QED BY <2>2, <2>3
<1> DEFINE totals(x) == IF x = DefaultMode THEN Global(hs) ELSE Totals(TargetedAmounts(hs)[Len(hs)])
<1>3. totals(n) = totals(m)
  BY <1>2
<1> QED BY <1>3 DEF Figures

-----------------------------------------------------------------------------
(* COMPTES_CIBLES and the calculation service.                             *)

\* The service finds the same amounts after each of the hypotheses that it reads as
\* the API does, as long as nothing is rounded or taken below zero.
LEMMA EngineOfTargets ==
  ASSUME NEW hs \in Seq(Hypothesis), \A i \in DOMAIN hs : EngineReads(hs[i]), AlwaysAmounts(hs)
  PROVE  EngineAmounts(hs)[Len(hs)] = TargetedAmounts(hs)[Len(hs)]
<1> DEFINE e == EngineAmounts(hs)
           t == TargetedAmounts(hs)
           At(k) == e[k] = t[k] /\ \A l \in Lines : e[k][l] \in Int
           N == {k \in Nat : k <= Len(hs) => At(k)}
<1>1. Len(hs) \in Nat /\ DOMAIN hs = 1 .. Len(hs) /\ \A i \in DOMAIN hs : hs[i] \in Hypothesis
  OBVIOUS
<1>2. t[0] = Budgeted /\ \A k \in 1 .. Len(hs) : t[k] = ApplyTargeted(t[k - 1], hs[k])
  BY TargetedSteps
<1>3. e[0] = Budgeted /\ \A k \in 1 .. Len(hs) : e[k] = EngineApply(e[k - 1], hs[k])
  BY EngineSteps
<1>4. \A k \in DOMAIN hs : \A l \in Lines : EngineTargeted(l, hs[k].parameter) =>
        EngineAmount(e[k - 1][l], hs[k]) >= 0 /\ EngineAmount(e[k - 1][l], hs[k]) % 100 = 0
  BY DEF AlwaysAmounts
<1> HIDE DEF t, e
<1>5. 0 \in N
  <2>1. \A l \in Lines : Budgeted[l] \in Int
    BY ProjectionAssumption DEF Budgeted, Unit
  <2> QED BY <1>2, <1>3, <2>1
<1>6. ASSUME NEW n \in Nat, n \in N PROVE n + 1 \in N
  <2> SUFFICES ASSUME n + 1 <= Len(hs) PROVE At(n + 1)
    OBVIOUS
  <2> DEFINE k == n + 1
             h == hs[k]
  <2>1. k \in 1 .. Len(hs) /\ k - 1 = n /\ k \in DOMAIN hs
    BY <1>1
  <2>2. e[n] = t[n] /\ \A l \in Lines : e[n][l] \in Int
    BY <1>1, <1>6
  <2>3. h \in Hypothesis /\ EngineReads(h)
    BY <1>1, <2>1
  <2>4. \A l \in Lines : EngineTargeted(l, h.parameter) <=> Targeted(l, h.parameter)
    BY <2>3 DEF EngineReads, EngineTargeted, Targeted
  <2>5. ASSUME NEW l \in Lines, Targeted(l, h.parameter)
        PROVE  /\ 100 * Money(EngineAmount(e[n][l], h)) = Floor(Adjusted(e[n][l], h))
               /\ 100 * Money(EngineAmount(e[n][l], h)) \in Int
    <3> DEFINE x == e[n][l]
    <3>1. x \in Int /\ h.value \in Int
      BY <2>2, <2>3 DEF Hypothesis
    <3>2. h.unit = "%" \/ (h.unit = "FCFA" /\ ~Targets[h.parameter].inverse)
      BY <2>3, <2>5 DEF EngineReads, Targeted
    <3>3. EngineAmount(x, h) = Adjusted(x, h) /\ EngineAmount(x, h) \in Int
      <4>1. CASE h.unit = "%"
        <5>1. EngineAmount(x, h) = Adjusted(x, h)
          BY <2>3, <4>1 DEF EngineAmount, EngineReads
        <5>2. \E sign \in {-1, 1} : Adjusted(x, h) = Rated(x, sign * h.value)
          BY <4>1 DEF Adjusted
        <5>sign. \A sign \in {-1, 1} : sign * h.value \in Int
          BY <3>1
        <5>3. \A rate \in Int : Rated(x, rate) \in Int
          <6> HIDE DEF x
          <6> QED BY <3>1 DEF Rated
        <5> QED BY <5>1, <5>2, <5>3, <5>sign
      <4>2. CASE h.unit = "FCFA" /\ ~Targets[h.parameter].inverse
        <5>1. EngineAmount(x, h) = x + 100 * h.value
          BY <4>2 DEF EngineAmount
        <5>2. Adjusted(x, h) = x + 1 * AmountOf(h) /\ AmountOf(h) = 100 * h.value
          BY <4>2 DEF Adjusted, AmountOf
        <5> HIDE DEF x
        <5> QED BY <3>1, <5>1, <5>2
      <4> QED BY <3>2, <4>1, <4>2
    <3>4. EngineAmount(x, h) >= 0 /\ EngineAmount(x, h) % 100 = 0
      BY <1>4, <2>1, <2>4, <2>5
    <3> DEFINE y == EngineAmount(x, h)
    <3> HIDE DEF x, y
    <3>5. y \in Int /\ y >= 0 /\ y % 100 = 0
      BY <3>3, <3>4 DEF y
    <3>6. 100 * ((y + 50) \div 100) = y
      BY <3>5
    <3>7. 100 * Money(y) = y /\ Floor(y) = y
      BY <3>5, <3>6 DEF Money, Floor
    <3> QED BY <3>3, <3>5, <3>7 DEF x, y
  <2>6. /\ e[k] = [l \in Lines |-> IF EngineTargeted(l, h.parameter) THEN 100 * Money(EngineAmount(e[n][l], h)) ELSE e[n][l]]
        /\ t[k] = [l \in Lines |-> IF Targeted(l, h.parameter) THEN Floor(Adjusted(t[n][l], h)) ELSE t[n][l]]
    BY <1>2, <1>3, <2>1 DEF EngineApply, ApplyTargeted
  <2> HIDE DEF h
  <2>7. e[k] = t[k] /\ \A l \in Lines : e[k][l] \in Int
    BY <2>2, <2>4, <2>5, <2>6
  <2> QED BY <2>7
<1>7. At(Len(hs))
  <2> HIDE DEF N, At
  <2>1. Len(hs) \in N
    BY <1>1, <1>5, <1>6, NaturalInduction
  <2> QED BY <1>1, <2>1 DEF N
<1> QED BY <1>7 DEF e, t

\* The two ways to project agree where they speak of the same lines, and the
\* calculation service agrees with COMPTES_CIBLES, for any budget and any hypotheses.
THEOREM ModesDoAgree == Spec => []ModesAgree
<1>1. TypeOK => ModesAgree
  <2> SUFFICES ASSUME TypeOK, NEW m \in Mode, NEW s \in Shown(m) PROVE
        LET hs == s.hypotheses IN
        /\ SameLines(hs) => \A n \in Mode : Figures(hs, n) = Figures(hs, m)
        /\ m # DefaultMode /\ (\A i \in DOMAIN hs : EngineReads(hs[i])) /\ AlwaysAmounts(hs) =>
             /\ EngineSummary(hs).revenue = Figures(hs, m).is_revenue
             /\ EngineSummary(hs).ebitda  = Figures(hs, m).is_ebitda
    BY DEF ModesAgree
  <2> DEFINE hs == s.hypotheses
  <2>1. hs \in Seq(Hypothesis)
    <3>1. s \in Projection
      BY DEF Shown, TypeOK
    <3>2. hs \in Hypotheses
      BY <3>1 DEF Projection
    <3> QED BY <3>2, ProjectionAssumption DEF Hypothesis
  <2> HIDE DEF hs
  <2>2. ASSUME SameLines(hs), NEW n \in Mode PROVE Figures(hs, n) = Figures(hs, m)
    BY <2>1, <2>2, SameFigures
  <2>3. ASSUME m # DefaultMode, \A i \in DOMAIN hs : EngineReads(hs[i]), AlwaysAmounts(hs)
        PROVE  /\ EngineSummary(hs).revenue = Figures(hs, m).is_revenue
               /\ EngineSummary(hs).ebitda  = Figures(hs, m).is_ebitda
    <3> DEFINE totals == Totals(TargetedAmounts(hs)[Len(hs)])
    <3>1. Totals(EngineAmounts(hs)[Len(hs)]) = totals
      BY <2>1, <2>3, EngineOfTargets
    <3>2. /\ EngineSummary(hs).revenue = Money(totals.revenue)
          /\ EngineSummary(hs).ebitda = Money(totals.revenue - totals.expenses)
      BY <3>1 DEF EngineSummary
    <3>3. /\ Figures(hs, m).is_revenue = Money(totals.revenue)
          /\ Figures(hs, m).is_ebitda = Money(totals.revenue - totals.expenses)
      BY <2>3 DEF Figures
    <3> QED BY <3>2, <3>3
  <2> QED BY <2>2, <2>3 DEF hs
<1> QED BY <1>1, ScenarioTypes, PTL

==============================================================================
