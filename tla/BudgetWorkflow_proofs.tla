------------------------ MODULE BudgetWorkflow_proofs ------------------------
(***************************************************************************)
(* The invariants of BudgetWorkflow, for any number of budgets, fiscal     *)
(* years, lines, amounts and concurrent requests.  None of the safety      *)
(* invariants is inductive by itself: a request writes long after it has   *)
(* checked, so what it may still rely on (RequestJustified) and what the   *)
(* rows agree on (RowConsistent) are carried along.  Inv is their          *)
(* conjunction, and each action has a lemma that it preserves Inv.  Of     *)
(* requests served one at a time the refinement of BudgetLifecycle and the *)
(* completeness of the side effects are proved too.                        *)
(***************************************************************************)
EXTENDS BudgetWorkflow, TLAPS

\* The inductive invariant.
Inv ==
  /\ TypeOK
  /\ Consistent
  /\ AtMostOneReference
  /\ NoStageSkipped
  /\ BaselinesWereLocked
  /\ LoggedApprovalIsQueued
  /\ ReferenceNotLost

(***************************************************************************)
(* What a step does to the requests.                                       *)
(***************************************************************************)

\* A free request slot has the type of a request.
LEMMA IdleType == Idle \in RequestState
BY AbsentAssumption DEF Idle, RequestState, Op, Phase, Lines, NoLines

\* Finish frees one slot and leaves the other requests alone.
LEMMA FinishEffect ==
  ASSUME TypeOK, NEW r \in Request, Finish(r)
  PROVE  /\ request' \in [Request -> RequestState]
         /\ request'[r] = Idle
         /\ \A s \in Request \ {r} : request'[s] = request[s]
BY IdleType DEF TypeOK, Finish

\* Goto moves one request and leaves the other requests alone.
LEMMA GotoEffect ==
  ASSUME TypeOK, NEW r \in Request, NEW at \in Phase, Goto(r, at)
  PROVE  /\ request' \in [Request -> RequestState]
         /\ request'[r] = [request[r] EXCEPT !.at = at]
         /\ \A s \in Request \ {r} : request'[s] = request[s]
<1>1. request[r] \in RequestState
  BY DEF TypeOK
<1>2. [request[r] EXCEPT !.at = at] \in RequestState
  BY <1>1 DEF RequestState
<1>3. request' = [request EXCEPT ![r] = [request[r] EXCEPT !.at = at]]
  BY DEF Goto
<1> QED BY <1>2, <1>3 DEF TypeOK

\* Rows are never un-created, keep their fiscal year and their milestones, and
\* jobs are not taken back.
Forward ==
  /\ \A b \in Budget :
       /\ status[b] # "UNUSED" => status'[b] # "UNUSED" /\ fiscalYear'[b] = fiscalYear[b]
       /\ ever[b] \subseteq ever'[b]
  /\ calcQueue \subseteq calcQueue'

\* What justifies a request stays true when the database only goes forward.
LEMMA StillJustified ==
  ASSUME TypeOK, Forward, NEW q \in RequestState, RequestJustified(q)
  PROVE  RequestJustified(q)'
BY DEF Forward, RequestJustified, RequestState, TypeOK, OnBudget, Phase

\* After a step that goes forward, only the request that moved is in question.
LEMMA OthersJustified ==
  ASSUME TypeOK, Consistent, Forward, NEW r \in Request,
         \A s \in Request \ {r} : request'[s] = request[s],
         RequestJustified(request[r])'
  PROVE  \A s \in Request : RequestJustified(request[s])'
<1> SUFFICES ASSUME NEW s \in Request PROVE RequestJustified(request[s])'
  OBVIOUS
<1>1. CASE s = r
  BY <1>1
<1>2. CASE s # r
  <2>1. request[s] \in RequestState /\ RequestJustified(request[s])
    BY DEF TypeOK, Consistent
  <2>2. request'[s] = request[s]
    BY <1>2
  <2> QED BY <2>1, <2>2, StillJustified DEF RequestJustified
<1> QED BY <1>1, <1>2

\* A request that is over needs no justification.
LEMMA FinishedJustified ==
  ASSUME TypeOK, Consistent, Forward, NEW r \in Request, Finish(r)
  PROVE  \A s \in Request : RequestJustified(request[s])'
<1>1. request'[r] = Idle /\ \A s \in Request \ {r} : request'[s] = request[s]
  BY FinishEffect
<1>2. RequestJustified(request[r])'
  BY <1>1 DEF RequestJustified, Idle, OnBudget
<1> QED BY <1>1, <1>2, OthersJustified

(***************************************************************************)
(* Every step preserves Inv: one lemma per action.                         *)
(***************************************************************************)

\* Adding the recalculation job: only the job set grows.
LEMMA EnqueueRecalcInv ==
  ASSUME Inv, NEW r \in Request, EnqueueRecalc(r) PROVE Inv'
<1> USE DEF EnqueueRecalc, Inv, db
<1>1. Forward
  BY DEF Forward
<1>2. TypeOK'
  <2>1. request[r].budget \in Budget
    BY DEF Consistent, RequestJustified, OnBudget, Phase
  <2>2. request' \in [Request -> RequestState]
    BY GotoEffect DEF Phase
  <2> QED BY <2>1, <2>2 DEF TypeOK
<1>3. \A s \in Request : RequestJustified(request[s])'
  <2>1. request'[r] = [request[r] EXCEPT !.at = "audit"] /\ \A s \in Request \ {r} : request'[s] = request[s]
    BY GotoEffect DEF Phase
  <2>2. RequestJustified(request[r])
    BY DEF Consistent
  <2>3. RequestJustified(request[r])'
    BY <2>1, <2>2 DEF RequestJustified, RequestState, TypeOK, OnBudget, Phase
  <2> QED BY <1>1, <2>1, <2>3, OthersJustified
<1>4. \A b \in Budget : RowConsistent(b)'
  BY DEF Consistent, RowConsistent, Exists
<1>5. AtMostOneReference'
  BY DEF AtMostOneReference
<1>6. NoStageSkipped'
  BY DEF NoStageSkipped
<1>7. BaselinesWereLocked'
  BY DEF BaselinesWereLocked
<1>8. LoggedApprovalIsQueued'
  BY DEF LoggedApprovalIsQueued
<1>9. ReferenceNotLost'
  <2>1. \A s \in Request : request[s].at = "flag" => request'[s] = request[s]
    BY GotoEffect DEF Phase
  <2> QED BY <2>1 DEF ReferenceNotLost, HasReference, Swapping, Disturbed
<1> QED BY <1>2, <1>3, <1>4, <1>5, <1>6, <1>7, <1>8, <1>9 DEF Consistent

\* The audit entry: an approval is logged after its job was added.
LEMMA CreateLogInv ==
  ASSUME Inv, NEW r \in Request, CreateLog(r) PROVE Inv'
<1> USE DEF CreateLog, Inv, db
<1>1. Forward
  BY DEF Forward
<1>2. TypeOK'
  <2>1. request' \in [Request -> RequestState]
    BY FinishEffect
  <2>2. Target(request[r].op) \in RowState
    BY DEF Target, RowState, LegalStatus
  <2> QED BY <2>1, <2>2 DEF TypeOK
<1>3. \A s \in Request : RequestJustified(request[s])'
  BY <1>1, FinishedJustified
<1>4. \A b \in Budget : RowConsistent(b)'
  BY DEF Consistent, RowConsistent, Exists
<1>5. AtMostOneReference'
  BY DEF AtMostOneReference
<1>6. NoStageSkipped'
  BY DEF NoStageSkipped
<1>7. BaselinesWereLocked'
  BY DEF BaselinesWereLocked
<1>8. LoggedApprovalIsQueued'
  <2>1. Target(request[r].op) = "APPROVED" => request[r].budget \in calcQueue
    BY DEF Target, Consistent, RequestJustified
  <2> QED BY <2>1 DEF LoggedApprovalIsQueued, TypeOK
<1>9. ReferenceNotLost'
  <2>1. \A s \in Request : request[s].at = "flag" => request'[s] = request[s]
    BY FinishEffect
  <2> QED BY <2>1 DEF ReferenceNotLost, HasReference, Swapping, Disturbed
<1> QED BY <1>2, <1>3, <1>4, <1>5, <1>6, <1>7, <1>8, <1>9 DEF Consistent

\* Deleting a line concerns no status, flag or job.
LEMMA DeleteLineByIdInv ==
  ASSUME Inv, NEW r \in Request, DeleteLineById(r) PROVE Inv'
<1> USE DEF DeleteLineById, Inv, db
<1>0. request[r].budget \in Budget /\ status[request[r].budget] # "UNUSED"
  BY DEF Consistent, RequestJustified, OnBudget, Phase
<1>1. Forward
  BY DEF Forward
<1>2. TypeOK'
  <2>1. request' \in [Request -> RequestState]
    BY FinishEffect
  <2>2. lines' \in [Budget -> Lines]
    BY <1>0 DEF TypeOK, Lines
  <2> QED BY <2>1, <2>2 DEF TypeOK
<1>3. \A s \in Request : RequestJustified(request[s])'
  BY <1>1, FinishedJustified
<1>4. \A b \in Budget : RowConsistent(b)'
  BY DEF Consistent, RowConsistent, Exists
<1>5. AtMostOneReference'
  BY DEF AtMostOneReference
<1>6. NoStageSkipped'
  BY DEF NoStageSkipped
<1>7. BaselinesWereLocked'
  BY DEF BaselinesWereLocked
<1>8. LoggedApprovalIsQueued'
  BY DEF LoggedApprovalIsQueued
<1>9. ReferenceNotLost'
  <2>1. \A s \in Request : request[s].at = "flag" => request'[s] = request[s]
    BY FinishEffect
  <2> QED BY <2>1 DEF ReferenceNotLost, HasReference, Swapping, Disturbed
<1> QED BY <1>2, <1>3, <1>4, <1>5, <1>6, <1>7, <1>8, <1>9 DEF Consistent

\* Writing a line concerns no status, flag or job.
LEMMA UpsertLineInv ==
  ASSUME Inv, NEW r \in Request, UpsertLine(r) PROVE Inv'
<1> USE DEF UpsertLine, Inv, db
<1>0. request[r].budget \in Budget /\ status[request[r].budget] # "UNUSED"
  BY DEF Consistent, RequestJustified, OnBudget, Phase
<1>1. Forward
  BY DEF Forward
<1>2. TypeOK'
  <2>1. request' \in [Request -> RequestState]
    BY FinishEffect
  <2>2. request[r].amount \in Amount \cup {NoLine} /\ request[r].line \in Line \cup {NoLine}
    BY DEF TypeOK, RequestState
  <2>3. lines' \in [Budget -> Lines]
    <3>1. CASE request[r].line = NoLine
      <4>1. PICK l \in Line : lines' = [lines EXCEPT ![request[r].budget][l] = request[r].amount]
        BY <3>1
      <4> QED BY <1>0, <2>2, <4>1 DEF TypeOK, Lines
    <3>2. CASE request[r].line # NoLine
      BY <1>0, <2>2, <3>2 DEF TypeOK, Lines
    <3> QED BY <3>1, <3>2
  <2> QED BY <2>1, <2>3 DEF TypeOK
<1>3. \A s \in Request : RequestJustified(request[s])'
  BY <1>1, FinishedJustified
<1>4. \A b \in Budget : RowConsistent(b)'
  BY DEF Consistent, RowConsistent, Exists
<1>5. AtMostOneReference'
  BY DEF AtMostOneReference
<1>6. NoStageSkipped'
  BY DEF NoStageSkipped
<1>7. BaselinesWereLocked'
  BY DEF BaselinesWereLocked
<1>8. LoggedApprovalIsQueued'
  BY DEF LoggedApprovalIsQueued
<1>9. ReferenceNotLost'
  <2>1. \A s \in Request : request[s].at = "flag" => request'[s] = request[s]
    BY FinishEffect
  <2> QED BY <2>1 DEF ReferenceNotLost, HasReference, Swapping, Disturbed
<1> QED BY <1>2, <1>3, <1>4, <1>5, <1>6, <1>7, <1>8, <1>9 DEF Consistent

\* Copying the parent's lines concerns no status, flag or job.
LEMMA CopyLinesInv ==
  ASSUME Inv, NEW r \in Request, CopyLines(r) PROVE Inv'
<1> USE DEF CopyLines, Inv, db
<1>0. request[r].budget \in Budget /\ status[request[r].budget] # "UNUSED"
  BY DEF Consistent, RequestJustified, OnBudget, Phase
<1>1. Forward
  BY DEF Forward
<1>2. TypeOK'
  <2>1. request' \in [Request -> RequestState]
    BY GotoEffect DEF Phase
  <2>2. request[r].lines \in Lines
    BY DEF TypeOK, RequestState
  <2>3. lines' \in [Budget -> Lines]
    BY <1>0, <2>2 DEF TypeOK, Lines
  <2> QED BY <2>1, <2>3 DEF TypeOK
<1>3. \A s \in Request : RequestJustified(request[s])'
  <2>1. request'[r] = [request[r] EXCEPT !.at = "audit"] /\ \A s \in Request \ {r} : request'[s] = request[s]
    BY GotoEffect DEF Phase
  <2>2. RequestJustified(request[r])
    BY DEF Consistent
  <2>3. RequestJustified(request[r])'
    BY <2>1, <2>2 DEF RequestJustified, RequestState, TypeOK, OnBudget, Phase
  <2> QED BY <1>1, <2>1, <2>3, OthersJustified
<1>4. \A b \in Budget : RowConsistent(b)'
  BY DEF Consistent, RowConsistent, Exists
<1>5. AtMostOneReference'
  BY DEF AtMostOneReference
<1>6. NoStageSkipped'
  BY DEF NoStageSkipped
<1>7. BaselinesWereLocked'
  BY DEF BaselinesWereLocked
<1>8. LoggedApprovalIsQueued'
  BY DEF LoggedApprovalIsQueued
<1>9. ReferenceNotLost'
  <2>1. \A s \in Request : request[s].at = "flag" => request'[s] = request[s]
    BY GotoEffect DEF Phase
  <2> QED BY <2>1 DEF ReferenceNotLost, HasReference, Swapping, Disturbed
<1> QED BY <1>2, <1>3, <1>4, <1>5, <1>6, <1>7, <1>8, <1>9 DEF Consistent

\* Clearing the references of a fiscal year: the request is now the one swapping.
LEMMA ClearReferencesInv ==
  ASSUME Inv, NEW r \in Request, ClearReferences(r) PROVE Inv'
<1> USE DEF ClearReferences, Inv, db
<1>0. request[r].budget \in Budget /\ status[request[r].budget] # "UNUSED"
  BY DEF Consistent, RequestJustified, OnBudget, Phase
<1>1. Forward
  BY DEF Forward
<1>2. TypeOK'
  <2>1. request' \in [Request -> RequestState]
    BY GotoEffect DEF Phase
  <2>2. isReference' \in [Budget -> BOOLEAN]
    BY DEF TypeOK
  <2> QED BY <2>1, <2>2 DEF TypeOK
<1>3. \A s \in Request : RequestJustified(request[s])'
  <2>1. request'[r] = [request[r] EXCEPT !.at = "flag"] /\ \A s \in Request \ {r} : request'[s] = request[s]
    BY GotoEffect DEF Phase
  <2>2. RequestJustified(request[r])
    BY DEF Consistent
  <2>3. RequestJustified(request[r])'
    BY <2>1, <2>2 DEF RequestJustified, RequestState, TypeOK, OnBudget, Phase
  <2> QED BY <1>1, <2>1, <2>3, OthersJustified
<1>4. \A b \in Budget : RowConsistent(b)'
  BY DEF Consistent, RowConsistent, Exists, TypeOK
<1>5. AtMostOneReference'
  BY DEF AtMostOneReference, TypeOK
<1>6. NoStageSkipped'
  BY DEF NoStageSkipped
<1>7. BaselinesWereLocked'
  BY DEF BaselinesWereLocked, TypeOK
<1>8. LoggedApprovalIsQueued'
  BY DEF LoggedApprovalIsQueued
<1>9. ReferenceNotLost'
  <2> SUFFICES ASSUME NEW y \in referenced PROVE (HasReference(y) \/ Swapping(y) \/ Disturbed(y))'
    BY DEF ReferenceNotLost
  <2>1. request'[r] = [request[r] EXCEPT !.at = "flag"] /\ \A s \in Request \ {r} : request'[s] = request[s]
    BY GotoEffect DEF Phase
  <2>2. CASE y = fiscalYear[request[r].budget]
    BY <2>1, <2>2 DEF Swapping, TypeOK, RequestState
  <2>3. CASE y # fiscalYear[request[r].budget]
    <3>1. HasReference(y) => HasReference(y)'
      BY <2>3 DEF HasReference
    <3>2. Swapping(y) => Swapping(y)'
      BY <2>1 DEF Swapping
    <3> QED BY <3>1, <3>2 DEF ReferenceNotLost, Disturbed
  <2> QED BY <2>2, <2>3
<1> QED BY <1>2, <1>3, <1>4, <1>5, <1>6, <1>7, <1>8, <1>9 DEF Consistent

\* The status write: the milestone it needs was passed when the request read.
LEMMA SetStatusInv ==
  ASSUME Inv, NEW r \in Request, SetStatus(r) PROVE Inv'
<1> USE DEF SetStatus, AfterStatus, Inv, db
<1>0. request[r].budget \in Budget /\ status[request[r].budget] # "UNUSED"
  BY DEF Consistent, RequestJustified, OnBudget, Phase
<1>1. Forward
  BY <1>0 DEF Forward, Target, TypeOK
<1>2. TypeOK'
  <2>1. request' \in [Request -> RequestState]
    BY GotoEffect DEF Phase
  <2>2. Target(request[r].op) \in LegalStatus
    BY DEF Target, LegalStatus
  <2>3. status' \in [Budget -> RowState] /\ ever' \in [Budget -> SUBSET Milestone]
    BY <1>0, <2>2 DEF TypeOK, RowState
  <2> QED BY <2>1, <2>3 DEF TypeOK
<1>3. \A s \in Request : RequestJustified(request[s])'
  <2>1. request'[r] = [request[r] EXCEPT !.at = (IF request[r].op = "approve" THEN "enqueue" ELSE "audit")] /\ \A s \in Request \ {r} : request'[s] = request[s]
    BY GotoEffect DEF Phase
  <2>2. RequestJustified(request[r])
    BY DEF Consistent
  <2>3. RequestJustified(request[r])'
    BY <1>1, <2>1, <2>2 DEF Forward, RequestJustified, RequestState, TypeOK, OnBudget, Phase
  <2> QED BY <1>1, <2>1, <2>3, OthersJustified
<1>4. \A b \in Budget : RowConsistent(b)'
  <2>1. Target(request[r].op) \in LegalStatus
    BY DEF Target, LegalStatus
  <2> SUFFICES ASSUME NEW b \in Budget PROVE RowConsistent(b)'
    OBVIOUS
  <2>2. RowConsistent(b)
    BY DEF Consistent
  <2>3. CASE b = request[r].budget /\ Exists(b)
    BY <2>1, <2>2, <2>3 DEF RowConsistent, Exists, TypeOK, LegalStatus
  <2>4. CASE ~(b = request[r].budget /\ Exists(b))
    BY <1>1, <2>2, <2>4 DEF Forward, RowConsistent, Exists, TypeOK
  <2> QED BY <2>3, <2>4
<1>5. AtMostOneReference'
  BY DEF AtMostOneReference
<1>6. NoStageSkipped'
  <2>1. /\ Target(request[r].op) \in {"APPROVED", "REJECTED"} => "SUBMITTED" \in ever[request[r].budget]
        /\ Target(request[r].op) = "LOCKED" => "APPROVED" \in ever[request[r].budget]
    BY DEF Target, Consistent, RequestJustified
  <2> QED BY <1>0, <2>1 DEF NoStageSkipped, TypeOK, Milestone
<1>7. BaselinesWereLocked'
  BY <1>1 DEF BaselinesWereLocked, Forward, TypeOK
<1>8. LoggedApprovalIsQueued'
  BY DEF LoggedApprovalIsQueued
<1>9. ReferenceNotLost'
  <2>1. \A s \in Request : request[s].at = "flag" => request'[s] = request[s]
    BY GotoEffect DEF Phase
  <2>2. \A b \in Budget : status[b] = "DELETED" => status'[b] = "DELETED"
    BY DEF Exists, LegalStatus, TypeOK
  <2> QED BY <1>1, <2>1, <2>2 DEF Forward, ReferenceNotLost, HasReference, Swapping, Disturbed
<1> QED BY <1>2, <1>3, <1>4, <1>5, <1>6, <1>7, <1>8, <1>9 DEF Consistent

\* Setting the flag: the index leaves one reference, the old one or the new one.
LEMMA FlagReferenceInv ==
  ASSUME Inv, NEW r \in Request, FlagReference(r) PROVE Inv'
<1> USE DEF FlagReference, Flaggable, Inv, db
<1>0. request[r].budget \in Budget /\ status[request[r].budget] # "UNUSED"
  BY DEF Consistent, RequestJustified, OnBudget, Phase
<1>1. Forward
  BY DEF Forward
<1>2. TypeOK'
  <2>1. request' \in [Request -> RequestState]
    BY FinishEffect
  <2>2. fiscalYear[request[r].budget] \in FiscalYear
    BY <1>0 DEF Consistent, RowConsistent
  <2> QED BY <2>1, <2>2 DEF TypeOK
<1>3. \A s \in Request : RequestJustified(request[s])'
  BY <1>1, FinishedJustified
<1>4. \A b \in Budget : RowConsistent(b)'
  BY <1>0 DEF Consistent, RowConsistent, Exists, TypeOK
<1>5. AtMostOneReference'
  BY <1>0 DEF AtMostOneReference, IndexAllows, TypeOK
<1>6. NoStageSkipped'
  BY DEF NoStageSkipped
<1>7. BaselinesWereLocked'
  <2>1. "LOCKED" \in ever[request[r].budget]
    BY DEF Consistent, RequestJustified
  <2> QED BY <2>1 DEF BaselinesWereLocked, TypeOK
<1>8. LoggedApprovalIsQueued'
  BY DEF LoggedApprovalIsQueued
<1>9. ReferenceNotLost'
  <2>1. request'[r] = Idle /\ \A s \in Request \ {r} : request'[s] = request[s]
    BY FinishEffect
  <2>2. "LOCKED" \in ever[request[r].budget]
    BY DEF Consistent, RequestJustified
  <2> SUFFICES ASSUME NEW y \in referenced' PROVE (HasReference(y) \/ Swapping(y) \/ Disturbed(y))'
    BY DEF ReferenceNotLost
  <2>3. CASE y = fiscalYear[request[r].budget]
    <3>1. CASE ~Exists(request[r].budget)
      BY <1>0, <2>2, <2>3, <3>1 DEF Exists, TypeOK, RowState, Disturbed
    <3>2. CASE ~IndexAllows(request[r].budget)
      BY <2>3, <3>2 DEF IndexAllows, HasReference
    <3>3. CASE Exists(request[r].budget) /\ IndexAllows(request[r].budget)
      BY <1>0, <2>3, <3>3 DEF HasReference, TypeOK
    <3> QED BY <3>1, <3>2, <3>3
  <2>4. CASE y # fiscalYear[request[r].budget]
    <3>1. y \in referenced
      BY <2>4
    <3>2. HasReference(y) => HasReference(y)'
      BY <2>4 DEF HasReference, TypeOK
    <3>3. Swapping(y) => Swapping(y)'
      BY <2>1, <2>4 DEF Swapping
    <3>4. Disturbed(y) => Disturbed(y)'
      BY <2>4 DEF Disturbed
    <3> QED BY <3>1, <3>2, <3>3, <3>4 DEF ReferenceNotLost
  <2> QED BY <2>3, <2>4
<1> QED BY <1>2, <1>3, <1>4, <1>5, <1>6, <1>7, <1>8, <1>9 DEF Consistent

\* The deletion: a reference that goes was a budget once LOCKED.
LEMMA DeleteRowsInv ==
  ASSUME Inv, NEW r \in Request, DeleteRows(r) PROVE Inv'
<1> USE DEF DeleteRows, Inv, db
<1>0. request[r].budget \in Budget /\ status[request[r].budget] # "UNUSED"
  BY DEF Consistent, RequestJustified, OnBudget, Phase
<1>1. Forward
  BY <1>0 DEF Forward, TypeOK
<1>2. TypeOK'
  <2>1. request' \in [Request -> RequestState]
    BY FinishEffect
  <2>2. status' \in [Budget -> RowState] /\ lines' \in [Budget -> Lines]
    BY AbsentAssumption DEF TypeOK, RowState, Lines, NoLines
  <2>3. parent' \in [Budget -> Budget \cup {NoBudget}] /\ isReference' \in [Budget -> BOOLEAN]
    BY DEF TypeOK
  <2> QED BY <2>1, <2>2, <2>3 DEF TypeOK
<1>3. \A s \in Request : RequestJustified(request[s])'
  BY <1>1, FinishedJustified
<1>4. \A b \in Budget : RowConsistent(b)'
  <2> SUFFICES ASSUME NEW b \in Budget PROVE RowConsistent(b)'
    OBVIOUS
  <2>1. RowConsistent(b) /\ RowConsistent(request[r].budget)
    BY <1>0 DEF Consistent
  <2> QED BY <1>0, <2>1, AbsentAssumption DEF RowConsistent, Exists, LegalStatus, Milestone, TypeOK
<1>5. AtMostOneReference'
  BY <1>0 DEF AtMostOneReference, TypeOK
<1>6. NoStageSkipped'
  BY <1>0 DEF NoStageSkipped, TypeOK
<1>7. BaselinesWereLocked'
  BY <1>0 DEF BaselinesWereLocked, TypeOK
<1>8. LoggedApprovalIsQueued'
  BY DEF LoggedApprovalIsQueued
<1>9. ReferenceNotLost'
  <2>1. \A s \in Request : request[s].at = "flag" => request'[s] = request[s]
    BY FinishEffect
  <2>2. \A b \in Budget : status[b] = "DELETED" => status'[b] = "DELETED"
    BY DEF Exists, LegalStatus, TypeOK
  <2> SUFFICES ASSUME NEW y \in referenced PROVE (HasReference(y) \/ Swapping(y) \/ Disturbed(y))'
    BY DEF ReferenceNotLost
  <2>3. CASE HasReference(y)
    <3>1. PICK c \in Budget : fiscalYear[c] = y /\ isReference[c]
      BY <2>3 DEF HasReference
    <3>2. CASE c = request[r].budget
      BY <3>1, <3>2 DEF Disturbed, BaselinesWereLocked, Consistent, RowConsistent, TypeOK
    <3>3. CASE c # request[r].budget
      BY <3>1, <3>3 DEF HasReference, TypeOK
    <3> QED BY <3>2, <3>3
  <2>4. CASE Swapping(y)
    BY <2>1, <2>4 DEF Swapping
  <2>5. CASE Disturbed(y)
    BY <2>2, <2>5 DEF Disturbed
  <2> QED BY <2>3, <2>4, <2>5 DEF ReferenceNotLost
<1> QED BY <1>2, <1>3, <1>4, <1>5, <1>6, <1>7, <1>8, <1>9 DEF Consistent

\* A request that stops half-way leaves its budget in broken; one that stops
\* between the two statements of setAsReference leaves the fiscal year in interrupted.
LEMMA FailInv ==
  ASSUME Inv, NEW r \in Request, Fail(r) PROVE Inv'
<1> USE DEF Fail, Inv, db
<1>0. /\ request[r].at \in HasWritten \cup {"flag"} =>
           request[r].budget \in Budget /\ status[request[r].budget] # "UNUSED"
      /\ request[r].at = "flag" => fiscalYear[request[r].budget] \in FiscalYear
  BY DEF Consistent, RequestJustified, OnBudget, Phase, HasWritten, RowConsistent
<1>1. Forward
  BY DEF Forward
<1>2. TypeOK'
  <2>1. request' \in [Request -> RequestState]
    BY FinishEffect
  <2> QED BY <1>0, <2>1 DEF TypeOK
<1>3. \A s \in Request : RequestJustified(request[s])'
  BY <1>1, FinishedJustified
<1>4. \A b \in Budget : RowConsistent(b)'
  BY <1>0 DEF Consistent, RowConsistent, Exists
<1>5. AtMostOneReference'
  BY DEF AtMostOneReference
<1>6. NoStageSkipped'
  BY DEF NoStageSkipped
<1>7. BaselinesWereLocked'
  BY DEF BaselinesWereLocked
<1>8. LoggedApprovalIsQueued'
  BY DEF LoggedApprovalIsQueued
<1>9. ReferenceNotLost'
  <2>1. request'[r] = Idle /\ \A s \in Request \ {r} : request'[s] = request[s]
    BY FinishEffect
  <2> SUFFICES ASSUME NEW y \in referenced PROVE (HasReference(y) \/ Swapping(y) \/ Disturbed(y))'
    BY DEF ReferenceNotLost
  <2>2. CASE Swapping(y)
    <3>1. PICK s \in Request : request[s].at = "flag" /\ fiscalYear[request[s].budget] = y
      BY <2>2 DEF Swapping
    <3>2. CASE s = r
      BY <3>1, <3>2 DEF Disturbed
    <3>3. CASE s # r
      BY <2>1, <3>1, <3>3 DEF Swapping
    <3> QED BY <3>2, <3>3
  <2>3. CASE HasReference(y) \/ Disturbed(y)
    BY <2>3 DEF HasReference, Disturbed
  <2> QED BY <2>2, <2>3 DEF ReferenceNotLost
<1> QED BY <1>2, <1>3, <1>4, <1>5, <1>6, <1>7, <1>8, <1>9 DEF Consistent

\* Reading the next version changes only the request.
LEMMA GetNextVersionInv ==
  ASSUME Inv, NEW r \in Request, GetNextVersion(r) PROVE Inv'
<1> USE DEF GetNextVersion, Inv, db
<1>1. PICK last \in LastVersion(request[r].fiscalYear) :
        request' = [request EXCEPT ![r].version = last + 1, ![r].at = "insert"]
  OBVIOUS
<1>2. last + 1 \in Nat
  BY DEF LastVersion, Siblings, TypeOK
<1>3. request[r] \in RequestState /\ RequestJustified(request[r])
  BY DEF TypeOK, Consistent
<1>4. /\ request'[r] = [request[r] EXCEPT !.version = last + 1, !.at = "insert"]
      /\ \A s \in Request \ {r} : request'[s] = request[s]
      /\ request'[r] \in RequestState
  BY <1>1, <1>2, <1>3 DEF TypeOK, RequestState, Phase
<1>5. TypeOK'
  BY <1>1, <1>4 DEF TypeOK
<1>6. RequestJustified(request[r])'
  BY <1>3, <1>4 DEF RequestJustified, RequestState, OnBudget
<1>7. Forward
  BY DEF Forward
<1>8. Consistent'
  BY <1>4, <1>6, <1>7, OthersJustified DEF Consistent, RowConsistent, Exists
<1>9. ReferenceNotLost'
  <2>1. \A s \in Request : request[s].at = "flag" => request'[s] = request[s]
    BY <1>4
  <2>2. \A y : HasReference(y) => HasReference(y)'
    BY DEF HasReference
  <2>3. \A y : Swapping(y) => Swapping(y)'
    BY <2>1 DEF Swapping
  <2>4. \A y : Disturbed(y) => Disturbed(y)'
    BY DEF Disturbed
  <2> QED BY <2>2, <2>3, <2>4 DEF ReferenceNotLost
<1> QED BY <1>5, <1>8, <1>9
  DEF AtMostOneReference, NoStageSkipped, BaselinesWereLocked, LoggedApprovalIsQueued

\* The INSERT of a budget: it refers to a parent that was LOCKED.
LEMMA InsertBudgetInv ==
  ASSUME Inv, NEW r \in Request, InsertBudget(r) PROVE Inv'
<1> USE DEF InsertBudget, Inv, db
<1> DEFINE q  == request[r]
           at == IF q.lines = NoLines THEN "audit" ELSE "copy"
<1>1. PICK b \in Budget :
        /\ status[b] = "UNUSED"
        /\ status'     = [status EXCEPT ![b] = "DRAFT"]
        /\ fiscalYear' = [fiscalYear EXCEPT ![b] = q.fiscalYear]
        /\ version'    = [version EXCEPT ![b] = q.version]
        /\ parent'     = [parent EXCEPT ![b] = q.parent]
        /\ request'    = [request EXCEPT ![r].budget = b, ![r].at = at]
  OBVIOUS
<1>2. q \in RequestState /\ RequestJustified(q) /\ q.at = "insert"
  BY DEF TypeOK, Consistent
<1>3. /\ request'[r] = [q EXCEPT !.budget = b, !.at = at]
      /\ \A s \in Request \ {r} : request'[s] = request[s]
      /\ request'[r] \in RequestState
  BY <1>1, <1>2 DEF TypeOK, RequestState, Phase
<1>4. /\ q.fiscalYear \in FiscalYear
      /\ q.parent # NoBudget =>
           /\ q.parent \in Budget /\ q.parent # b /\ status[q.parent] # "UNUSED"
           /\ "LOCKED" \in ever[q.parent] /\ fiscalYear[q.parent] = q.fiscalYear
  BY <1>1, <1>2 DEF RequestJustified, RequestState
<1>5. /\ status'[b] = "DRAFT" /\ fiscalYear'[b] = q.fiscalYear /\ parent'[b] = q.parent
      /\ \A c \in Budget \ {b} :
           status'[c] = status[c] /\ fiscalYear'[c] = fiscalYear[c] /\ parent'[c] = parent[c]
  BY <1>1 DEF TypeOK
<1>6. Forward
  BY <1>1, <1>5 DEF Forward
<1>7. TypeOK'
  BY <1>1, <1>2, <1>3 DEF TypeOK, RequestState, RowState, LegalStatus
<1>8. \A s \in Request : RequestJustified(request[s])'
  <2>1. RequestJustified(request[r])'
    BY <1>2, <1>3, <1>5 DEF RequestJustified, RequestState, OnBudget
  <2> QED BY <1>3, <1>6, <2>1, OthersJustified
<1>9. ~isReference[b] /\ b \notin broken
  BY <1>1 DEF Consistent, RowConsistent, Exists, LegalStatus
<1>10. \A c \in Budget : RowConsistent(c)'
  <2> SUFFICES ASSUME NEW c \in Budget PROVE RowConsistent(c)'
    OBVIOUS
  <2>1. RowConsistent(c)
    BY DEF Consistent
  <2>2. CASE c = b
    BY <1>4, <1>5, <1>9, <2>2 DEF RowConsistent, Exists, Milestone, LegalStatus
  <2>3. CASE c # b
    <3>1. parent[c] # NoBudget => parent[c] \in Budget
      BY DEF TypeOK
    <3> QED BY <1>5, <1>6, <2>1, <2>3, <3>1 DEF Forward, RowConsistent, Exists
  <2> QED BY <2>2, <2>3
<1>11. AtMostOneReference'
  BY <1>5, <1>9 DEF AtMostOneReference
<1>12. NoStageSkipped'
  BY <1>5 DEF NoStageSkipped
<1>13. BaselinesWereLocked'
  <2> SUFFICES ASSUME NEW c \in Budget, parent'[c] # NoBudget
               PROVE  "LOCKED" \in ever[parent'[c]] /\ fiscalYear'[parent'[c]] = fiscalYear'[c]
    BY DEF BaselinesWereLocked
  <2>1. CASE c = b
    BY <1>4, <1>5, <2>1
  <2>2. CASE c # b
    <3>1. parent[c] \in Budget /\ parent[c] # b
      BY <1>1, <1>5, <2>2 DEF TypeOK, Consistent, RowConsistent
    <3> QED BY <1>5, <2>2, <3>1 DEF BaselinesWereLocked
  <2> QED BY <2>1, <2>2
<1>14. LoggedApprovalIsQueued'
  BY DEF LoggedApprovalIsQueued
<1>15. ReferenceNotLost'
  <2> SUFFICES ASSUME NEW y \in referenced PROVE (HasReference(y) \/ Swapping(y) \/ Disturbed(y))'
    BY DEF ReferenceNotLost
  <2>1. HasReference(y) => HasReference(y)'
    BY <1>5, <1>9 DEF HasReference
  <2>2. Disturbed(y) => Disturbed(y)'
    BY <1>1, <1>5, <1>9 DEF Disturbed
  <2>3. ASSUME NEW s \in Request, request[s].at = "flag", fiscalYear[request[s].budget] = y
        PROVE  Swapping(y)'
    <3>1. request'[s] = request[s]
      BY <1>2, <1>3, <2>3
    <3>2. request[s].budget \in Budget /\ request[s].budget # b
      BY <1>1, <2>3 DEF Consistent, RequestJustified, OnBudget, Phase
    <3> QED BY <1>5, <2>3, <3>1, <3>2 DEF Swapping
  <2> QED BY <2>1, <2>2, <2>3 DEF ReferenceNotLost, Swapping
<1> QED BY <1>7, <1>8, <1>10, <1>11, <1>12, <1>13, <1>14, <1>15 DEF Consistent

\* A handler that has read and checked has changed nothing but its own request.
LEMMA BegunInv ==
  ASSUME Inv, NEW r \in Request, request[r] = Idle,
         UNCHANGED <<db, calcQueue, logged, ever, broken, referenced, interrupted>>,
         request' \in [Request -> RequestState],
         \A s \in Request \ {r} : request'[s] = request[s],
         RequestJustified(request[r])'
  PROVE  Inv'
<1> USE DEF Inv, db
<1>1. TypeOK'
  BY DEF TypeOK
<1>2. Forward
  BY DEF Forward
<1>3. Consistent'
  BY <1>2, OthersJustified DEF Consistent, RowConsistent, Exists
<1>4. ReferenceNotLost'
  <2>1. \A s \in Request : request[s].at = "flag" => request'[s] = request[s]
    BY DEF Idle
  <2> QED BY <2>1 DEF ReferenceNotLost, HasReference, Swapping, Disturbed
<1> QED BY <1>1, <1>3, <1>4
  DEF AtMostOneReference, NoStageSkipped, BaselinesWereLocked, LoggedApprovalIsQueued

\* The handlers that read a budget, check its status and then write.
LEMMA BeginInv ==
  ASSUME Inv, NEW r \in Request, NEW op \in Op, NEW at \in OnBudget, NEW b \in Budget,
         Begin(r, op, at, b), at \notin {"deleteLine", "audit"}, op = "approve" => at = "setStatus",
         at = "setStatus" /\ op \in {"approve", "reject"} => "SUBMITTED" \in ever[b],
         at = "setStatus" /\ op = "lock" => "APPROVED" \in ever[b],
         at \in {"clear", "flag"} => "LOCKED" \in ever[b]
  PROVE  Inv'
<1> DEFINE q == [Idle EXCEPT !.op = op, !.at = at, !.budget = b]
<1>1. q \in RequestState
  BY IdleType DEF RequestState, OnBudget
<1>2. /\ request' \in [Request -> RequestState] /\ request'[r] = q
      /\ \A s \in Request \ {r} : request'[s] = request[s]
  BY <1>1 DEF Begin, Inv, TypeOK
<1>3. q.at = at /\ q.op = op /\ q.budget = b
  BY DEF Idle
<1>4. status[b] # "UNUSED"
  BY DEF Begin, Exists, LegalStatus
<1>5. RequestJustified(request[r])'
  BY <1>2, <1>3, <1>4 DEF RequestJustified, OnBudget, Phase, Begin, db
<1> QED BY <1>2, <1>5, BegunInv DEF Begin

\* The handlers that read a budget and then write a line of it.
LEMMA BeginEditInv ==
  ASSUME Inv, NEW r \in Request, NEW op \in {"updateLines", "deleteLine"},
         NEW at \in {"upsert", "deleteLine"}, NEW b \in Budget,
         NEW l \in Line \cup {NoLine}, NEW a \in Amount \cup {NoLine},
         at = "deleteLine" => l \in Line, BeginEdit(r, op, at, b, l, a)
  PROVE  Inv'
<1> DEFINE q == [Idle EXCEPT !.op = op, !.at = at, !.budget = b, !.line = l, !.amount = a]
<1>1. q \in RequestState
  BY IdleType DEF RequestState, Op, Phase
<1>2. /\ request' \in [Request -> RequestState] /\ request'[r] = q
      /\ \A s \in Request \ {r} : request'[s] = request[s]
  BY <1>1 DEF BeginEdit, Inv, TypeOK
<1>3. q.at = at /\ q.op = op /\ q.budget = b /\ q.line = l
  BY DEF Idle
<1>4. status[b] # "UNUSED"
  BY DEF BeginEdit, Editable
<1>5. RequestJustified(request[r])'
  BY <1>2, <1>3, <1>4 DEF RequestJustified, BeginEdit, db
<1> QED BY <1>2, <1>5, BegunInv DEF BeginEdit

\* The creation reads a LOCKED parent, or none.
LEMMA CreateBudgetInv ==
  ASSUME Inv, NEW r \in Request, NEW p \in Budget \cup {NoBudget}, NEW y \in FiscalYear,
         CreateBudget(r, p, y)
  PROVE  Inv'
<1> DEFINE ls == IF p = NoBudget THEN NoLines ELSE lines[p]
           q  == [Idle EXCEPT !.op = "create", !.at = "version", !.parent = p, !.fiscalYear = y,
                              !.lines = ls]
<1>1. ls \in Lines
  BY DEF Inv, TypeOK, Lines, NoLines
<1>2. q \in RequestState
  BY <1>1, IdleType DEF RequestState, Op, Phase
<1>3. /\ request' \in [Request -> RequestState] /\ request'[r] = q
      /\ \A s \in Request \ {r} : request'[s] = request[s]
  BY <1>2 DEF CreateBudget, Inv, TypeOK
<1>4. q.at = "version" /\ q.op = "create" /\ q.parent = p /\ q.fiscalYear = y
  BY DEF Idle
<1>5. p # NoBudget => status[p] = "LOCKED" /\ fiscalYear[p] = y /\ "LOCKED" \in ever[p]
  BY DEF CreateBudget, MayReforecast, Inv, Consistent, RowConsistent, Milestone
<1>6. RequestJustified(request[r])'
  BY <1>3, <1>4, <1>5 DEF RequestJustified, OnBudget, CreateBudget, db
<1> QED BY <1>3, <1>6, BegunInv DEF CreateBudget

\* Whatever request begins, the invariant is preserved.
LEMMA AcceptInv ==
  ASSUME Inv, NEW r \in Request, Accept(r) PROVE Inv'
<1>1. ASSUME NEW b \in Budget, Submit(r, b) \/ DeleteBudget(r, b) PROVE Inv'
  BY <1>1, BeginInv DEF Submit, DeleteBudget, Op, OnBudget, Phase
<1>2. ASSUME NEW b \in Budget, Approve(r, b) \/ Reject(r, b) PROVE Inv'
  <2>1. status[b] = "SUBMITTED" => "SUBMITTED" \in ever[b]
    BY DEF Inv, Consistent, RowConsistent, Milestone
  <2> QED BY <1>2, <2>1, BeginInv DEF Approve, Reject, Op, OnBudget, Phase
<1>3. ASSUME NEW b \in Budget, Lock(r, b) \/ SetAsReference(r, b) PROVE Inv'
  <2>1. status[b] \in {"APPROVED", "LOCKED"} => status[b] \in ever[b]
    BY DEF Inv, Consistent, RowConsistent, Milestone
  <2> QED BY <1>3, <2>1, BeginInv DEF Lock, SetAsReference, Op, OnBudget, Phase
<1>4. ASSUME NEW b \in Budget, NEW l \in Line \cup {NoLine}, NEW a \in Amount, UpdateLines(r, b, l, a)
      PROVE  Inv'
  BY <1>4, BeginEditInv DEF UpdateLines
<1>5. ASSUME NEW b \in Budget, NEW l \in Line, DeleteLine(r, b, l) PROVE Inv'
  BY <1>5, BeginEditInv DEF DeleteLine
<1> QED BY <1>1, <1>2, <1>3, <1>4, <1>5, CreateBudgetInv DEF Accept

\* The invariant holds of the empty database.
LEMMA InitInv == Init => Inv
<1> SUFFICES ASSUME Init PROVE Inv
  OBVIOUS
<1>1. TypeOK
  BY IdleType, AbsentAssumption DEF Init, TypeOK, Lines, NoLines, RowState, LegalStatus
<1>2. Consistent
  BY DEF Init, Consistent, RequestJustified, RowConsistent, Idle, OnBudget, Milestone
<1> QED BY <1>1, <1>2 DEF Inv, Init, AtMostOneReference, NoStageSkipped, BaselinesWereLocked,
                          LoggedApprovalIsQueued, ReferenceNotLost

\* The invariant is preserved by every step: the actions one by one.
LEMMA StepInv == Inv /\ [Next]_vars => Inv'
<1> SUFFICES ASSUME Inv, [Next]_vars PROVE Inv'
  OBVIOUS
<1>1. ASSUME NEW r \in Request, Accept(r) \/ Write(r) \/ Fail(r) PROVE Inv'
  BY <1>1, AcceptInv, SetStatusInv, EnqueueRecalcInv, CreateLogInv, ClearReferencesInv,
     FlagReferenceInv, UpsertLineInv, DeleteLineByIdInv, DeleteRowsInv, GetNextVersionInv,
     InsertBudgetInv, CopyLinesInv, FailInv DEF Write
<1>2. CASE UNCHANGED vars
  BY <1>2 DEF vars, Inv, TypeOK, Consistent, RequestJustified, RowConsistent, Exists,
     AtMostOneReference, NoStageSkipped, BaselinesWereLocked, LoggedApprovalIsQueued,
     ReferenceNotLost, HasReference, Swapping, Disturbed
<1> QED BY <1>1, <1>2 DEF Next

(***************************************************************************)
(* The theorems.                                                           *)
(***************************************************************************)

\* Inv holds in every state of every behaviour.
LEMMA Invariance == Spec => []Inv
BY InitInv, StepInv, PTL DEF Spec

\* Type correctness: every variable keeps its type, whatever the requests do.
THEOREM TypeCorrect == Spec => []TypeOK
<1>1. Inv => TypeOK
  BY DEF Inv
<1> QED BY <1>1, Invariance, PTL

\* Requests in flight stay justified and rows consistent with their history.
THEOREM RowsConsistent == Spec => []Consistent
<1>1. Inv => Consistent
  BY DEF Inv
<1> QED BY <1>1, Invariance, PTL

\* setAsReference clears and flags in two statements, yet a fiscal year never has
\* two reference budgets.
THEOREM OneReference == Spec => []AtMostOneReference
<1>1. Inv => AtMostOneReference
  BY DEF Inv
<1> QED BY <1>1, Invariance, PTL

\* A fiscal year that had a reference loses it only while it is being changed, to a
\* request that stopped half-way, or with the deletion of a budget once LOCKED.
THEOREM ReferenceKept == Spec => []ReferenceNotLost
<1>1. Inv => ReferenceNotLost
  BY DEF Inv
<1> QED BY <1>1, Invariance, PTL

\* setStatus writes whatever the status has become, yet no budget is ever APPROVED
\* without having been SUBMITTED, or LOCKED without having been APPROVED.
THEOREM StagesInOrder == Spec => []NoStageSkipped
<1>1. Inv => NoStageSkipped
  BY DEF Inv
<1> QED BY <1>1, Invariance, PTL

\* References and parents of reforecasts are budgets that were LOCKED, of the same
\* fiscal year as the reforecast.
THEOREM BaselinesLocked == Spec => []BaselinesWereLocked
<1>1. Inv => BaselinesWereLocked
  BY DEF Inv
<1> QED BY <1>1, Invariance, PTL

\* approveBudget adds its recalculation job before it logs: a logged approval has one.
THEOREM ApprovalQueued == Spec => []LoggedApprovalIsQueued
<1>1. Inv => LoggedApprovalIsQueued
  BY DEF Inv
<1> QED BY <1>1, Invariance, PTL

(***************************************************************************)
(* Requests served one at a time.  What a request has checked is then      *)
(* still true when it writes, so every step is a step of BudgetLifecycle   *)
(* or leaves the rows alone, and between requests no side effect is        *)
(* missing.                                                                *)
(***************************************************************************)
Serial == \A r, u \in Request : r = u

\* What the only request has checked.
ChecksHold(q) ==
  LET b == q.budget IN
  /\ q.at \in OnBudget => Exists(b)
  /\ q.at \in {"version", "insert", "copy"} => q.op = "create"
  /\ q.at \in {"idle", "version", "insert"} => b = NoBudget
  /\ q.at = "setStatus" =>
       \/ q.op = "submit" /\ status[b] \in Editable
       \/ q.op = "approve" /\ status[b] = "SUBMITTED" /\ Total(lines[b]) # 0
       \/ q.op = "reject" /\ status[b] = "SUBMITTED"
       \/ q.op = "lock" /\ status[b] = "APPROVED" /\ Total(lines[b]) # 0
  /\ q.at \in {"upsert", "deleteLine"} => status[b] \in Editable
  /\ q.at = "deleteRows" => status[b] \notin {"LOCKED", "APPROVED"}
  /\ q.at = "copy" => status[b] = "DRAFT"
  /\ q.at \in {"clear", "flag"} => status[b] = "LOCKED"
  /\ q.at = "flag" => \A c \in Budget : fiscalYear[c] = fiscalYear[b] => ~isReference[c]

\* The audit entry and the job of a budget match its status.
SideDone(b) ==
  /\ logged[b] = status[b]
  /\ status[b] \in {"APPROVED", "LOCKED"} => b \in calcQueue

\* Before it writes the status a request has found them done; after it, they are
\* its own to do.
SidePending(q) ==
  LET b == q.budget IN
  q.at \in OnBudget /\ b \notin broken =>
    /\ q.at \in {"setStatus", "upsert", "deleteLine", "deleteRows", "clear", "flag"} => SideDone(b)
    /\ q.at \in {"enqueue", "audit"} => status[b] = Target(q.op)
    /\ q.at = "audit" /\ status[b] \in {"APPROVED", "LOCKED"} => b \in calcQueue

\* Only a LOCKED budget is a reference: no request changes its status afterwards.
ReferencesLocked == \A b \in Budget : isReference[b] => status[b] = "LOCKED"

SerialInv ==
  /\ Inv
  /\ ReferencesLocked
  /\ SideEffectsComplete
  /\ \A r \in Request : ChecksHold(request[r]) /\ SidePending(request[r])

\* What a step of request r owes: the invariant, and a step of the documented
\* workflow or none.
Documented == Lifecycle!Next \/ UNCHANGED <<status, fiscalYear, lines, isReference>>

Serves(r) ==
  /\ ReferencesLocked'
  /\ SideEffectsComplete'
  /\ ChecksHold(request[r])'
  /\ SidePending(request[r])'
  /\ Documented

\* Goto and Finish, of the fields a request in flight is judged by.
LEMMA SerialGoto ==
  ASSUME TypeOK, NEW r \in Request, NEW at \in Phase, Goto(r, at)
  PROVE  /\ request'[r].at = at /\ request'[r].op = request[r].op
         /\ request'[r].budget = request[r].budget
<1>1. request'[r] = [request[r] EXCEPT !.at = at]
  BY GotoEffect
<1>2. request[r] \in RequestState
  BY DEF TypeOK
<1> QED BY <1>1, <1>2 DEF RequestState

LEMMA SerialFinish ==
  ASSUME TypeOK, NEW r \in Request, Finish(r)
  PROVE  request'[r].at = "idle" /\ request'[r].budget = NoBudget
  BY FinishEffect DEF Idle

\* A request that is over has checked nothing and owes no side effect.
LEMMA NothingOwed ==
  ASSUME NEW r \in Request, request'[r].at = "idle" /\ request'[r].budget = NoBudget
  PROVE  ChecksHold(request[r])' /\ SidePending(request[r])'
  BY DEF ChecksHold, SidePending, OnBudget

\* Budgets other than that of the only request are quiet: their side effects
\* stay done when the step leaves their status and audit entry alone.
LEMMA SideKept ==
  ASSUME Serial, SideEffectsComplete, NEW r \in Request, NEW b, b = request[r].budget,
         \A c \in Budget : c # b => status'[c] = status[c] /\ logged'[c] = logged[c],
         broken \subseteq broken', calcQueue \subseteq calcQueue',
         request'[r].budget = b \/ (b \in Budget /\ Exists(b)' /\ b \notin broken' => SideDone(b)')
  PROVE  SideEffectsComplete'
<1> SUFFICES ASSUME NEW c \in Budget, Exists(c)', Quiet(c)', c \notin broken'
             PROVE  SideDone(c)'
  BY DEF SideEffectsComplete, SideDone
<1>1. request'[r].budget # c
  BY DEF Quiet
<1>2. CASE c = b
  BY <1>1, <1>2
<1>3. CASE c # b
  <2>1. Exists(c) /\ Quiet(c) /\ c \notin broken
    BY <1>3 DEF Exists, Quiet, Serial
  <2> QED BY <1>3, <2>1 DEF SideEffectsComplete, SideDone
<1> QED BY <1>2, <1>3

\* A request begins: nothing but the request has changed.
LEMMA SerialBegun ==
  ASSUME Serial, SerialInv, NEW r \in Request, request[r] = Idle,
         UNCHANGED <<db, calcQueue, logged, ever, broken, referenced, interrupted>>,
         Inv', ChecksHold(request[r])', request'[r].at \notin {"enqueue", "audit"}
  PROVE  Serves(r)
<1> USE DEF SerialInv, db
<1>1. \A b \in Budget : Quiet(b)
  BY AbsentAssumption DEF Quiet, Serial, Idle
<1>2. \A b \in Budget : Exists(b) /\ b \notin broken => SideDone(b)
  BY <1>1 DEF SideEffectsComplete, SideDone
<1>3. SideEffectsComplete'
  BY <1>2 DEF SideEffectsComplete, SideDone, Exists
<1>4. ReferencesLocked'
  BY DEF ReferencesLocked
<1>5. SidePending(request[r])'
  <2>1. PICK q : q = request'[r]
    OBVIOUS
  <2>2. q.at \in OnBudget => Exists(q.budget) /\ q.budget \in Budget
    BY <2>1 DEF ChecksHold, Exists, Inv, Consistent, RequestJustified
  <2> QED BY <1>2, <2>1, <2>2 DEF SidePending, SideDone
<1>6. Documented
  BY DEF Documented
<1> QED BY <1>3, <1>4, <1>5, <1>6 DEF Serves

\* Whatever request begins has just checked what it is going to rely on.
LEMMA SerialAccept ==
  ASSUME Serial, SerialInv, Inv', NEW r \in Request, Accept(r) PROVE Serves(r)
<1> USE DEF db
<1>1. ASSUME NEW op \in Op, NEW at \in OnBudget \ {"enqueue", "audit"}, NEW b \in Budget,
             Begin(r, op, at, b), at \notin {"upsert", "deleteLine", "copy", "flag"},
             at = "setStatus" =>
               \/ op = "submit" /\ status[b] \in Editable
               \/ op = "approve" /\ status[b] = "SUBMITTED" /\ Total(lines[b]) # 0
               \/ op = "reject" /\ status[b] = "SUBMITTED"
               \/ op = "lock" /\ status[b] = "APPROVED" /\ Total(lines[b]) # 0,
             at = "deleteRows" => status[b] \notin {"LOCKED", "APPROVED"},
             at = "clear" => status[b] = "LOCKED"
      PROVE  Serves(r)
  <2> DEFINE q == [Idle EXCEPT !.op = op, !.at = at, !.budget = b]
  <2>1. q.at = at /\ q.op = op /\ q.budget = b
    BY DEF Idle
  <2>2. request'[r] = q
    BY <1>1 DEF Begin, SerialInv, Inv, TypeOK
  <2> HIDE DEF q
  <2>3. UNCHANGED <<status, fiscalYear, lines, isReference>> /\ Exists(b)
    BY <1>1 DEF Begin
  <2>4. ChecksHold(request[r])'
    BY <1>1, <2>1, <2>2, <2>3 DEF ChecksHold, OnBudget, Exists
  <2>5. request[r] = Idle /\ UNCHANGED <<db, calcQueue, logged, ever, broken, referenced, interrupted>>
    BY <1>1 DEF Begin
  <2> QED BY <2>1, <2>2, <2>4, <2>5, SerialBegun
<1>2. ASSUME NEW op \in Op, NEW at \in {"upsert", "deleteLine"}, NEW b \in Budget,
             NEW l \in Line \cup {NoLine}, NEW a \in Amount \cup {NoLine},
             BeginEdit(r, op, at, b, l, a)
      PROVE  Serves(r)
  <2> DEFINE q == [Idle EXCEPT !.op = op, !.at = at, !.budget = b, !.line = l, !.amount = a]
  <2>1. q.at = at /\ q.op = op /\ q.budget = b
    BY DEF Idle
  <2>2. request'[r] = q
    BY <1>2 DEF BeginEdit, SerialInv, Inv, TypeOK
  <2> HIDE DEF q
  <2>3. status' = status /\ status[b] \in Editable
    BY <1>2 DEF BeginEdit
  <2>4. ChecksHold(request[r])'
    BY <1>2, <2>1, <2>2, <2>3 DEF ChecksHold, Exists, Editable, LegalStatus
  <2>5. request[r] = Idle /\ UNCHANGED <<db, calcQueue, logged, ever, broken, referenced, interrupted>>
    BY <1>2 DEF BeginEdit
  <2> QED BY <2>1, <2>2, <2>4, <2>5, SerialBegun
<1>3. ASSUME NEW p \in Budget \cup {NoBudget}, NEW y \in FiscalYear, CreateBudget(r, p, y)
      PROVE  Serves(r)
  <2> DEFINE q == [Idle EXCEPT !.op = "create", !.at = "version", !.parent = p, !.fiscalYear = y,
                               !.lines = IF p = NoBudget THEN NoLines ELSE lines[p]]
  <2>1. q.at = "version" /\ q.op = "create" /\ q.budget = NoBudget
    BY DEF Idle
  <2>2. request'[r] = q
    BY <1>3 DEF CreateBudget, SerialInv, Inv, TypeOK
  <2> HIDE DEF q
  <2>3. ChecksHold(request[r])'
    BY <2>1, <2>2 DEF ChecksHold, OnBudget
  <2>4. request[r] = Idle /\ UNCHANGED <<db, calcQueue, logged, ever, broken, referenced, interrupted>>
    BY <1>3 DEF CreateBudget
  <2> QED BY <2>1, <2>2, <2>3, <2>4, SerialBegun
<1>4. ASSUME NEW b \in Budget, Submit(r, b) \/ Approve(r, b) \/ Reject(r, b) \/ Lock(r, b)
      PROVE  Serves(r)
  <2>1. {"submit", "approve", "reject", "lock"} \subseteq Op
          /\ "setStatus" \in OnBudget \ {"enqueue", "audit"}
    BY DEF Op, OnBudget, Phase
  <2>2. CASE Submit(r, b)
    BY <1>1, <2>1, <2>2 DEF Submit
  <2>3. CASE Approve(r, b)
    BY <1>1, <2>1, <2>3 DEF Approve
  <2>4. CASE Reject(r, b)
    BY <1>1, <2>1, <2>4 DEF Reject
  <2>5. CASE Lock(r, b)
    BY <1>1, <2>1, <2>5 DEF Lock
  <2> QED BY <1>4, <2>2, <2>3, <2>4, <2>5
<1>5. ASSUME NEW b \in Budget, SetAsReference(r, b) \/ DeleteBudget(r, b)
      PROVE  Serves(r)
  BY <1>1, <1>5 DEF SetAsReference, DeleteBudget, Op, OnBudget, Phase
<1>6. ASSUME NEW b \in Budget, NEW l \in Line \cup {NoLine}, NEW a \in Amount, UpdateLines(r, b, l, a)
      PROVE  Serves(r)
  BY <1>2, <1>6 DEF UpdateLines, Op
<1>7. ASSUME NEW b \in Budget, NEW l \in Line, DeleteLine(r, b, l)
      PROVE  Serves(r)
  BY <1>2, <1>7 DEF DeleteLine, Op
<1> QED BY <1>3, <1>4, <1>5, <1>6, <1>7 DEF Accept

\* The status write is the documented transition.
LEMMA SerialSetStatus ==
  ASSUME Serial, SerialInv, NEW r \in Request, SetStatus(r) PROVE Serves(r)
<1> USE DEF SerialInv, Inv
<1>1. PICK b \in Budget : b = request[r].budget
  BY DEF SetStatus, Consistent, RequestJustified, OnBudget, Phase
<1>2. PICK op \in Op : op = request[r].op
  BY DEF TypeOK, RequestState
<1>3. PICK to \in LegalStatus : to = Target(op)
  BY DEF Target, LegalStatus
<1>4. \/ op = "submit" /\ to = "SUBMITTED" /\ status[b] \in Editable
      \/ op = "approve" /\ to = "APPROVED" /\ status[b] = "SUBMITTED" /\ Total(lines[b]) # 0
      \/ op = "reject" /\ to = "REJECTED" /\ status[b] = "SUBMITTED"
      \/ op = "lock" /\ to = "LOCKED" /\ status[b] = "APPROVED" /\ Total(lines[b]) # 0
  <2>1. ChecksHold(request[r]) /\ request[r].at = "setStatus"
    BY DEF SetStatus
  <2> QED BY <1>1, <1>2, <1>3, <2>1 DEF ChecksHold, Target
<1>5. /\ request'[r].at = AfterStatus(op) /\ request'[r].op = op /\ request'[r].budget = b
      /\ AfterStatus(op) = IF op = "approve" THEN "enqueue" ELSE "audit"
  BY <1>1, <1>2, SerialGoto DEF SetStatus, AfterStatus, Phase
<1>6. Exists(b)
  BY <1>4 DEF Exists, Editable, LegalStatus
<1>7. /\ status' = [status EXCEPT ![b] = to]
      /\ UNCHANGED <<fiscalYear, lines, isReference, calcQueue, logged, broken>>
  BY <1>1, <1>2, <1>3, <1>6 DEF SetStatus
<1>8. status'[b] = to /\ \A c \in Budget : c # b => status'[c] = status[c]
  BY <1>7 DEF TypeOK
<1>9. ReferencesLocked'
  BY <1>4, <1>7, <1>8 DEF ReferencesLocked, Editable
<1>10. SideEffectsComplete'
  BY <1>1, <1>5, <1>7, <1>8, SideKept
<1>11. ChecksHold(request[r])'
  BY <1>5, <1>8 DEF ChecksHold, Exists
<1>12. SidePending(request[r])'
  <2>1. b \notin broken => SideDone(b)
    BY <1>1 DEF SetStatus, SidePending, OnBudget, Phase
  <2> QED BY <1>3, <1>4, <1>5, <1>7, <1>8, <2>1 DEF SidePending, SideDone
<1>13. Lifecycle!Next
  BY <1>4, <1>7 DEF Lifecycle!Next, Lifecycle!Submit, Lifecycle!Approve, Lifecycle!Reject,
                    Lifecycle!Lock, Lifecycle!Move, Editable, Lifecycle!Editable
<1> QED BY <1>9, <1>10, <1>11, <1>12, <1>13 DEF Serves, Documented

\* The job of an approval, then its audit entry.
LEMMA SerialEnqueue ==
  ASSUME Serial, SerialInv, NEW r \in Request, EnqueueRecalc(r) PROVE Serves(r)
<1> USE DEF SerialInv, Inv
<1>1. PICK b \in Budget : b = request[r].budget
  BY DEF EnqueueRecalc, Consistent, RequestJustified, OnBudget, Phase
<1>2. /\ request'[r].at = "audit" /\ request'[r].op = request[r].op /\ request'[r].budget = b
  BY <1>1, SerialGoto DEF EnqueueRecalc, Phase
<1>3. /\ UNCHANGED <<status, fiscalYear, lines, isReference, logged, broken>>
      /\ calcQueue' = calcQueue \cup {b}
  BY <1>1 DEF EnqueueRecalc, db
<1>4. Exists(b) /\ (b \notin broken => status[b] = Target(request[r].op))
  <2>1. ChecksHold(request[r]) /\ SidePending(request[r]) /\ request[r].at = "enqueue"
    BY DEF EnqueueRecalc
  <2> QED BY <1>1, <2>1 DEF ChecksHold, SidePending, OnBudget, Phase
<1>5. ReferencesLocked'
  BY <1>3 DEF ReferencesLocked
<1>6. SideEffectsComplete'
  BY <1>1, <1>2, <1>3, SideKept
<1>7. ChecksHold(request[r])'
  BY <1>2, <1>3, <1>4 DEF ChecksHold, Exists
<1>8. SidePending(request[r])'
  BY <1>2, <1>3, <1>4 DEF SidePending, Target
<1> QED BY <1>3, <1>5, <1>6, <1>7, <1>8 DEF Serves, Documented

LEMMA SerialLog ==
  ASSUME Serial, SerialInv, NEW r \in Request, CreateLog(r) PROVE Serves(r)
<1> USE DEF SerialInv, Inv
<1>1. PICK b \in Budget : b = request[r].budget
  BY DEF CreateLog, Consistent, RequestJustified, OnBudget, Phase
<1>2. request'[r].at = "idle" /\ request'[r].budget = NoBudget
  BY SerialFinish DEF CreateLog
<1>3. /\ UNCHANGED <<status, fiscalYear, lines, isReference, calcQueue, broken>>
      /\ logged' = [logged EXCEPT ![b] = Target(request[r].op)]
  BY <1>1 DEF CreateLog, db
<1>4. b \notin broken => SideDone(b)'
  <2>1. SidePending(request[r]) /\ request[r].at = "audit"
    BY DEF CreateLog
  <2>2. b \notin broken =>
          /\ status[b] = Target(request[r].op)
          /\ status[b] \in {"APPROVED", "LOCKED"} => b \in calcQueue
    BY <1>1, <2>1 DEF SidePending, OnBudget, Phase
  <2>3. logged'[b] = Target(request[r].op)
    BY <1>3 DEF TypeOK
  <2> QED BY <1>3, <2>2, <2>3 DEF SideDone
<1>5. ReferencesLocked'
  BY <1>3 DEF ReferencesLocked
<1>6. \A c \in Budget : c # b => logged'[c] = logged[c]
  BY <1>3 DEF TypeOK
<1>7. SideEffectsComplete'
  BY <1>1, <1>3, <1>4, <1>6, SideKept
<1> QED BY <1>2, <1>3, <1>5, <1>7, NothingOwed DEF Serves, Documented

\* A request that leaves statuses, audit entries and jobs alone, whether it goes
\* on or is over.
LEMMA SideUntouched ==
  ASSUME Serial, SerialInv, NEW r \in Request, NEW b \in Budget, b = request[r].budget,
         UNCHANGED <<status, logged, calcQueue, broken>>,
         request[r].at \in {"setStatus", "upsert", "deleteLine", "deleteRows", "clear", "flag"}
  PROVE  SideEffectsComplete' /\ (b \notin broken => SideDone(b))
<1>1. b \notin broken => SideDone(b)
  BY DEF SerialInv, SidePending, OnBudget, Phase
<1>2. b \notin broken' => SideDone(b)'
  BY <1>1 DEF SideDone
<1> QED BY <1>1, <1>2, SideKept DEF SerialInv

\* The references of the year are dropped,
LEMMA SerialClear ==
  ASSUME Serial, SerialInv, NEW r \in Request, ClearReferences(r) PROVE Serves(r)
<1> USE DEF SerialInv, Inv
<1>1. PICK b \in Budget : b = request[r].budget
  BY DEF ClearReferences, Consistent, RequestJustified, OnBudget, Phase
<1>2. request'[r].at = "flag" /\ request'[r].budget = b
  BY <1>1, SerialGoto DEF ClearReferences, Phase
<1>3. PICK y \in FiscalYear : y = fiscalYear[b]
  BY <1>1 DEF ClearReferences, Consistent, RequestJustified, RowConsistent, OnBudget, Phase
<1>4. /\ UNCHANGED <<status, fiscalYear, lines, logged, calcQueue, broken>>
      /\ isReference' = [c \in Budget |-> isReference[c] /\ fiscalYear[c] # y]
      /\ request[r].at = "clear"
  BY <1>1, <1>3 DEF ClearReferences
<1>5. status[b] = "LOCKED" /\ Exists(b)
  BY <1>1, <1>4 DEF ChecksHold, OnBudget, Phase
<1>6. ReferencesLocked'
  BY <1>4 DEF ReferencesLocked
<1>7. SideEffectsComplete' /\ (b \notin broken => SideDone(b))
  BY <1>1, <1>4, SideUntouched
<1>8. ChecksHold(request[r])'
  BY <1>2, <1>3, <1>4, <1>5 DEF ChecksHold, Exists
<1>9. SidePending(request[r])'
  BY <1>2, <1>4, <1>7 DEF SidePending, SideDone
<1>10. Lifecycle!Next
  BY <1>4 DEF Lifecycle!Next, Lifecycle!DropReference
<1> QED BY <1>6, <1>7, <1>8, <1>9, <1>10 DEF Serves, Documented

\* and the new one is taken.
LEMMA SerialFlag ==
  ASSUME Serial, SerialInv, NEW r \in Request, FlagReference(r) PROVE Serves(r)
<1> USE DEF SerialInv, Inv
<1>1. PICK b \in Budget : b = request[r].budget
  BY DEF FlagReference, Consistent, RequestJustified, OnBudget, Phase
<1>2. request'[r].at = "idle" /\ request'[r].budget = NoBudget
  BY SerialFinish DEF FlagReference
<1>3. /\ UNCHANGED <<status, fiscalYear, lines, logged, calcQueue, broken>>
      /\ request[r].at = "flag"
      /\ isReference' = [isReference EXCEPT ![b] = TRUE] \/ isReference' = isReference
  BY <1>1 DEF FlagReference
<1>4. status[b] = "LOCKED" /\ \A c \in Budget : fiscalYear[c] = fiscalYear[b] => ~isReference[c]
  BY <1>1, <1>3 DEF ChecksHold
<1>5. ReferencesLocked'
  BY <1>3, <1>4 DEF ReferencesLocked, TypeOK
<1>6. SideEffectsComplete'
  BY <1>1, <1>3, SideUntouched
<1>7. Documented
  BY <1>3, <1>4 DEF Documented, Lifecycle!Next, Lifecycle!TakeReference
<1> QED BY <1>2, <1>5, <1>6, <1>7, NothingOwed DEF Serves

\* Lines are written while the budget is still editable.
LEMMA SerialEdit ==
  ASSUME Serial, SerialInv, Inv', NEW r \in Request, UpsertLine(r) \/ DeleteLineById(r) PROVE Serves(r)
<1> USE DEF SerialInv, Inv
<1>1. PICK b \in Budget : b = request[r].budget
  BY DEF UpsertLine, DeleteLineById, Consistent, RequestJustified, OnBudget, Phase
<1>2. request'[r].at = "idle" /\ request'[r].budget = NoBudget
  BY SerialFinish DEF UpsertLine, DeleteLineById
<1>3. /\ UNCHANGED <<status, fiscalYear, isReference, logged, calcQueue, broken>>
      /\ request[r].at \in {"upsert", "deleteLine"}
  BY DEF UpsertLine, DeleteLineById
<1>4. status[b] \in Editable
  BY <1>1, <1>3 DEF ChecksHold
<1>5. \A c \in Budget : c # b => lines'[c] = lines[c]
  BY <1>1 DEF UpsertLine, DeleteLineById, TypeOK
<1>6. PICK ls \in Lines : ls = lines'[b]
  BY DEF TypeOK
<1>7. lines' = [lines EXCEPT ![b] = ls]
  BY <1>5, <1>6 DEF TypeOK
<1>8. Lifecycle!EditLines(b)
  BY <1>3, <1>4, <1>7 DEF Lifecycle!EditLines, Lifecycle!Editable, Editable, Lifecycle!Lines, Lines
<1>9. ReferencesLocked' /\ SideEffectsComplete'
  BY <1>1, <1>3, SideUntouched DEF ReferencesLocked
<1> QED BY <1>2, <1>8, <1>9, NothingOwed DEF Serves, Documented, Lifecycle!Next

\* The budget deleted is neither APPROVED nor LOCKED, and so not the reference.
LEMMA SerialDelete ==
  ASSUME Serial, SerialInv, NEW r \in Request, DeleteRows(r) PROVE Serves(r)
<1> USE DEF SerialInv, Inv
<1>1. PICK b \in Budget : b = request[r].budget
  BY DEF DeleteRows, Consistent, RequestJustified, OnBudget, Phase
<1>2. request'[r].at = "idle" /\ request'[r].budget = NoBudget
  BY SerialFinish DEF DeleteRows
<1>3. status[b] \notin {"LOCKED", "APPROVED"} /\ Exists(b)
  BY <1>1 DEF DeleteRows, ChecksHold, OnBudget, Phase
<1>4. /\ UNCHANGED <<fiscalYear, logged, calcQueue, broken>>
      /\ status' = [status EXCEPT ![b] = "DELETED"]
      /\ lines' = [lines EXCEPT ![b] = NoLines]
      /\ isReference' = [isReference EXCEPT ![b] = FALSE]
  BY <1>1, <1>3 DEF DeleteRows
<1>5. ~isReference[b]
  BY <1>3 DEF ReferencesLocked
<1>6. isReference' = isReference
  <2>1. isReference[b] = FALSE
    BY <1>5 DEF TypeOK
  <2> QED BY <1>4, <2>1 DEF TypeOK
<1>7. status'[b] = "DELETED" /\ \A c \in Budget : c # b => status'[c] = status[c]
  BY <1>4 DEF TypeOK
<1>8. ReferencesLocked'
  BY <1>5, <1>6, <1>7 DEF ReferencesLocked
<1>9. SideEffectsComplete'
  BY <1>1, <1>4, <1>7, SideKept DEF Exists, LegalStatus
<1>10. Lifecycle!Delete(b)
  <2>1. status[b] \in Lifecycle!Deletable
    BY <1>3 DEF Exists, LegalStatus, Lifecycle!Deletable
  <2> QED BY <1>4, <1>6, <2>1 DEF Lifecycle!Delete, NoLines, Lifecycle!NoLines
<1> QED BY <1>2, <1>8, <1>9, <1>10, NothingOwed DEF Serves, Documented, Lifecycle!Next

\* A request of no budget yet: every budget is quiet.
LEMMA SerialVersion ==
  ASSUME Serial, SerialInv, NEW r \in Request, GetNextVersion(r) PROVE Serves(r)
<1> USE DEF SerialInv, Inv
<1>1. PICK last \in LastVersion(request[r].fiscalYear) :
        request' = [request EXCEPT ![r].version = last + 1, ![r].at = "insert"]
  BY DEF GetNextVersion
<1>2. request[r] \in RequestState /\ request[r].at = "version"
  BY DEF TypeOK, GetNextVersion
<1>3. /\ request'[r].at = "insert" /\ request'[r].op = request[r].op
      /\ request'[r].budget = request[r].budget
  BY <1>1, <1>2 DEF TypeOK, RequestState
<1>4. UNCHANGED <<status, fiscalYear, lines, isReference, logged, calcQueue, broken>>
  BY DEF GetNextVersion, db
<1>5. ChecksHold(request[r])' /\ SidePending(request[r])'
  BY <1>2, <1>3 DEF ChecksHold, SidePending, OnBudget
<1>6. SideEffectsComplete'
  <2>1. PICK b : b = request[r].budget
    OBVIOUS
  <2> QED BY <1>3, <1>4, <2>1, SideKept
<1>7. ReferencesLocked'
  BY <1>4 DEF ReferencesLocked
<1> QED BY <1>4, <1>5, <1>6, <1>7 DEF Serves, Documented

\* A budget is created; nothing is logged of it yet.
LEMMA SerialInsert ==
  ASSUME Serial, SerialInv, NEW r \in Request, InsertBudget(r) PROVE Serves(r)
<1> USE DEF SerialInv, Inv
<1> DEFINE at == IF request[r].lines = NoLines THEN "audit" ELSE "copy"
<1>1. PICK b \in Budget :
        /\ status[b] = "UNUSED"
        /\ status' = [status EXCEPT ![b] = "DRAFT"]
        /\ fiscalYear' = [fiscalYear EXCEPT ![b] = request[r].fiscalYear]
        /\ request' = [request EXCEPT ![r].budget = b, ![r].at = at]
  BY DEF InsertBudget
<1>2. request[r].at = "insert" /\ request[r] \in RequestState
        /\ UNCHANGED <<lines, isReference, logged, calcQueue, broken>>
  BY DEF InsertBudget, TypeOK
<1>3. request'[r].budget = b /\ request'[r].at \in {"audit", "copy"} /\ request'[r].op = "create"
  BY <1>1, <1>2 DEF TypeOK, RequestState, ChecksHold
<1>4. status'[b] = "DRAFT" /\ \A c \in Budget : c # b => status'[c] = status[c]
  BY <1>1 DEF TypeOK
<1>5. ReferencesLocked'
  BY <1>1, <1>2, <1>4 DEF ReferencesLocked
<1>6. SideEffectsComplete'
  <2>1. request[r].budget = NoBudget
    BY <1>2 DEF ChecksHold
  <2> SUFFICES ASSUME NEW c \in Budget, Exists(c)', Quiet(c)', c \notin broken PROVE SideDone(c)'
    BY <1>2 DEF SideEffectsComplete, SideDone
  <2>2. c # b
    BY <1>3 DEF Quiet
  <2>3. Exists(c) /\ Quiet(c)
    BY <1>4, <2>1, <2>2, AbsentAssumption DEF Exists, Quiet, Serial
  <2> QED BY <1>2, <1>4, <2>2, <2>3 DEF SideEffectsComplete, SideDone
<1>7. ChecksHold(request[r])'
  BY <1>3, <1>4 DEF ChecksHold, Exists, LegalStatus
<1>8. SidePending(request[r])'
  BY <1>3, <1>4 DEF SidePending, Target
<1>9. Lifecycle!Next
  <2>1. PICK y \in FiscalYear : y = request[r].fiscalYear
    BY <1>2 DEF Consistent, RequestJustified
  <2>2. Lifecycle!Create(b, y)
    BY <1>1, <1>2, <2>1 DEF Lifecycle!Create
  <2> QED BY <2>2 DEF Lifecycle!Next
<1> QED BY <1>5, <1>6, <1>7, <1>8, <1>9 DEF Serves, Documented

\* The new budget gets the lines of its parent while it still is DRAFT.
LEMMA SerialCopy ==
  ASSUME Serial, SerialInv, Inv', NEW r \in Request, CopyLines(r) PROVE Serves(r)
<1> USE DEF SerialInv, Inv
<1>1. PICK b \in Budget : b = request[r].budget
  BY DEF CopyLines, Consistent, RequestJustified, OnBudget, Phase
<1>2. request'[r].at = "audit" /\ request'[r].op = request[r].op /\ request'[r].budget = b
  BY <1>1, SerialGoto DEF CopyLines, Phase
<1>3. UNCHANGED <<status, fiscalYear, isReference, logged, calcQueue, broken>> /\ request[r].at = "copy"
  BY DEF CopyLines
<1>4. status[b] = "DRAFT" /\ request[r].op = "create" /\ Exists(b)
  BY <1>1, <1>3 DEF ChecksHold, OnBudget, Phase
<1>5. \A c \in Budget : c # b => lines'[c] = lines[c]
  BY <1>1 DEF CopyLines, TypeOK
<1>6. PICK ls \in Lines : ls = lines'[b]
  BY DEF TypeOK
<1>7. lines' = [lines EXCEPT ![b] = ls]
  BY <1>5, <1>6 DEF TypeOK
<1>8. Lifecycle!EditLines(b)
  BY <1>3, <1>4, <1>7 DEF Lifecycle!EditLines, Lifecycle!Editable, Lifecycle!Lines, Lines
<1>9. ReferencesLocked' /\ SideEffectsComplete'
  BY <1>1, <1>2, <1>3, SideKept DEF ReferencesLocked
<1>10. ChecksHold(request[r])' /\ SidePending(request[r])'
  BY <1>2, <1>3, <1>4 DEF ChecksHold, SidePending, Exists, Target
<1> QED BY <1>8, <1>9, <1>10 DEF Serves, Documented, Lifecycle!Next

\* A request that stops before its first write leaves nothing to do; one that
\* stops later leaves its budget in broken.
LEMMA SerialFail ==
  ASSUME Serial, SerialInv, NEW r \in Request, Fail(r) PROVE Serves(r)
<1> USE DEF SerialInv, Inv
<1>1. PICK b \in Budget \cup {NoBudget} : b = request[r].budget
  BY DEF TypeOK, RequestState
<1>2. request'[r].at = "idle" /\ request'[r].budget = NoBudget
  BY SerialFinish DEF Fail
<1>3. /\ UNCHANGED <<status, fiscalYear, lines, isReference, logged, calcQueue>>
      /\ broken \subseteq broken'
      /\ request[r].at \in HasWritten => b \in broken'
  BY <1>1 DEF Fail, db
<1>4. request[r].at \notin HasWritten /\ b \in Budget /\ b \notin broken /\ Exists(b) => SideDone(b)
  <2>1. request[r].at \in Phase
    BY DEF TypeOK, RequestState
  <2>2. CASE request[r].at \in {"setStatus", "upsert", "deleteLine", "deleteRows", "clear", "flag"}
    BY <1>1, <2>2 DEF SidePending, OnBudget, Phase
  <2>3. CASE request[r].at \in {"idle", "version", "insert"}
    BY <1>1, <2>3, AbsentAssumption DEF ChecksHold
  <2> QED BY <2>1, <2>2, <2>3 DEF HasWritten, Phase
<1>5. ReferencesLocked'
  BY <1>3 DEF ReferencesLocked
<1>6. SideEffectsComplete'
  BY <1>1, <1>3, <1>4, SideKept DEF SideDone, Exists
<1> QED BY <1>2, <1>3, <1>5, <1>6, NothingOwed DEF Serves, Documented

LEMMA SerialInit == Init => SerialInv /\ Lifecycle!Init
<1> SUFFICES ASSUME Init PROVE SerialInv /\ Lifecycle!Init
  OBVIOUS
<1>1. Inv
  BY InitInv
<1>2. ReferencesLocked /\ SideEffectsComplete
  BY DEF Init, ReferencesLocked, SideEffectsComplete, Exists, LegalStatus
<1>3. \A r \in Request : ChecksHold(request[r]) /\ SidePending(request[r])
  BY DEF Init, Idle, ChecksHold, SidePending, OnBudget
<1>4. Lifecycle!Init
  BY DEF Init, Lifecycle!Init, NoLines, Lifecycle!NoLines
<1> QED BY <1>1, <1>2, <1>3, <1>4 DEF SerialInv

\* Every step of the only request serves.
LEMMA SerialStep ==
  ASSUME Serial PROVE SerialInv /\ [Next]_vars => SerialInv' /\ [Lifecycle!Next]_(Lifecycle!vars)
<1> SUFFICES ASSUME SerialInv, [Next]_vars PROVE SerialInv' /\ [Lifecycle!Next]_(Lifecycle!vars)
  OBVIOUS
<1>1. Inv'
  BY StepInv DEF SerialInv
<1>2. CASE Next
  <2>1. PICK r \in Request : Accept(r) \/ Write(r) \/ Fail(r)
    BY <1>2 DEF Next
  <2>2. Serves(r)
    BY <1>1, <2>1, SerialAccept, SerialSetStatus, SerialEnqueue, SerialLog, SerialClear, SerialFlag,
       SerialEdit, SerialDelete, SerialVersion, SerialInsert, SerialCopy, SerialFail DEF Write
  <2>3. \A u \in Request : u = r
    BY DEF Serial
  <2> QED BY <1>1, <2>2, <2>3 DEF Serves, Documented, SerialInv, Lifecycle!vars
<1>3. CASE UNCHANGED vars
  BY <1>1, <1>3 DEF vars, SerialInv, ReferencesLocked, SideEffectsComplete, SideDone, Exists, Quiet,
     ChecksHold, SidePending, Lifecycle!vars
<1> QED BY <1>2, <1>3

LEMMA SerialInvariance ==
  ASSUME Serial PROVE Spec => []SerialInv
<1>1. Init => SerialInv
  BY SerialInit
<1>2. SerialInv /\ [Next]_vars => SerialInv'
  BY SerialStep
<1> QED BY <1>1, <1>2, PTL DEF Spec

\* Served one at a time, the handlers implement the workflow the product
\* documents: every step is one whole transition of BudgetLifecycle, or none.
THEOREM HandlersImplement ==
  ASSUME Serial PROVE Spec => Implements
<1>1. Init => Lifecycle!Init
  BY SerialInit
<1>2. SerialInv /\ [Next]_vars => [Lifecycle!Next]_(Lifecycle!vars)
  BY SerialStep
<1> QED BY <1>1, <1>2, SerialInvariance, PTL DEF Spec, Implements, Lifecycle!Spec

\* Served one at a time, requests leave no budget without the audit entry of its
\* status or, once approved, without its recalculation job, unless one stopped
\* half-way.
THEOREM SideEffectsDone ==
  ASSUME Serial PROVE Spec => []SideEffectsComplete
<1>1. SerialInv => SideEffectsComplete
  BY DEF SerialInv
<1> QED BY <1>1, SerialInvariance, PTL
(***************************************************************************)
(* What two requests at a time can break, and one cannot.                  *)
(***************************************************************************)

\* A step takes no budget out of LOCKED: it has not been rejected, approved again,
\* submitted or deleted, since the handler has found another status.
LEMMA LockedStep ==
  ASSUME SerialInv, [Next]_vars, NEW b \in Budget, status[b] = "LOCKED"
  PROVE  status'[b] = "LOCKED"
<1>1. ASSUME NEW r \in Request PROVE ChecksHold(request[r])
  BY DEF SerialInv
<1>2. status \in [Budget -> RowState]
  BY DEF SerialInv, Inv, TypeOK
<1>3. ASSUME NEW r \in Request, SetStatus(r) PROVE status'[b] = "LOCKED"
  <2>1. request[r].at = "setStatus" /\ status[request[r].budget] # "LOCKED"
    BY <1>1, <1>3 DEF SetStatus, ChecksHold, Editable
  <2> QED BY <1>2, <1>3, <2>1 DEF SetStatus
<1>4. ASSUME NEW r \in Request, DeleteRows(r) PROVE status'[b] = "LOCKED"
  <2>1. status[request[r].budget] # "LOCKED"
    BY <1>1, <1>4 DEF DeleteRows, ChecksHold
  <2> QED BY <1>2, <1>4, <2>1 DEF DeleteRows
<1>5. ASSUME NEW r \in Request, InsertBudget(r) PROVE status'[b] = "LOCKED"
  BY <1>2, <1>5 DEF InsertBudget
<1>6. ASSUME NEW r \in Request, Accept(r) PROVE status' = status
  BY <1>6 DEF Accept, Submit, Approve, Reject, Lock, SetAsReference, DeleteBudget, UpdateLines, DeleteLine,
              CreateBudget, Begin, BeginEdit, db
<1>7. ASSUME NEW r \in Request,
             \/ EnqueueRecalc(r) \/ CreateLog(r) \/ ClearReferences(r) \/ FlagReference(r) \/ UpsertLine(r)
             \/ DeleteLineById(r) \/ GetNextVersion(r) \/ CopyLines(r) \/ Fail(r)
      PROVE  status' = status
  BY <1>7 DEF EnqueueRecalc, CreateLog, ClearReferences, FlagReference, UpsertLine, DeleteLineById,
              GetNextVersion, CopyLines, Fail, db
<1>8. CASE UNCHANGED vars
  BY <1>8 DEF vars
<1> QED BY <1>3, <1>4, <1>5, <1>6, <1>7, <1>8 DEF Next, Write

\* "LOCKED : irreversible" holds of requests served one at a time; with two it does not.
THEOREM LockedWithOneRequest ==
  ASSUME Serial PROVE Spec => LockedIsFinal
<1>1. SerialInv /\ [Next]_vars => \A b \in Budget : status[b] = "LOCKED" => status'[b] = "LOCKED"
  BY LockedStep
<1> QED BY <1>1, SerialInvariance, PTL DEF Spec, LockedIsFinal

\* A reforecast is one of a budget that is LOCKED now, and so is the one that a request is
\* about to insert (budgets.service.ts:91).
ReforecastsOfLocked ==
  /\ \A b \in Budget : parent[b] # NoBudget => status[parent[b]] = "LOCKED"
  /\ \A r \in Request : request[r].at \in {"version", "insert"} /\ request[r].parent # NoBudget =>
       status[request[r].parent] = "LOCKED"

\* The budgets of a fiscal year have different versions, and the version that a request
\* has read is still above them when it inserts (budgets.service.ts:97).
VersionsDiffer ==
  /\ \A b, c \in Budget : Exists(b) /\ Exists(c) /\ fiscalYear[b] = fiscalYear[c] /\ version[b] = version[c] => b = c
  /\ \A r \in Request : request[r].at = "insert" =>
       \A b \in Siblings(request[r].fiscalYear) : version[b] < request[r].version

BaselineInv == ReforecastsOfLocked /\ VersionsDiffer

\* Steps that neither insert a budget nor begin to: rows keep their parents and versions,
\* and what requests are about to insert is what they were about to insert.
LEMMA BaselineKept ==
  ASSUME SerialInv, [Next]_vars, BaselineInv,
         fiscalYear' = fiscalYear, version' = version,
         \A b \in Budget : Exists(b)' => Exists(b),
         \A b \in Budget : parent'[b] \in {parent[b], NoBudget},
         \A r \in Request : request'[r].at \in {"version", "insert"} => request'[r] = request[r]
  PROVE  BaselineInv'
<1>1. \A b \in Budget : status[b] = "LOCKED" => status'[b] = "LOCKED"
  BY LockedStep
<1>2. \A b \in Budget : parent[b] \in Budget \cup {NoBudget}
  BY DEF SerialInv, Inv, TypeOK
<1>3. \A r \in Request : request[r].parent \in Budget \cup {NoBudget}
  BY DEF SerialInv, Inv, TypeOK, RequestState
<1>4. ReforecastsOfLocked'
  BY <1>1, <1>2, <1>3 DEF BaselineInv, ReforecastsOfLocked
<1>5. ASSUME NEW y PROVE Siblings(y)' \subseteq Siblings(y)
  BY DEF Siblings
<1>6. VersionsDiffer'
  BY <1>5 DEF BaselineInv, VersionsDiffer
<1> QED BY <1>4, <1>6 DEF BaselineInv

\* A creation begins from a LOCKED budget or from none.
LEMMA BaselineCreate ==
  ASSUME SerialInv, BaselineInv, NEW r \in Request, NEW p \in Budget \cup {NoBudget},
         NEW y \in FiscalYear, CreateBudget(r, p, y)
  PROVE  BaselineInv'
<1> DEFINE q == [Idle EXCEPT !.op = "create", !.at = "version", !.parent = p, !.fiscalYear = y,
                             !.lines = IF p = NoBudget THEN NoLines ELSE lines[p]]
<1>1. request' = [request EXCEPT ![r] = q] /\ (p # NoBudget => status[p] = "LOCKED")
  BY DEF CreateBudget, MayReforecast
<1>2. q.at = "version" /\ q.parent = p
  BY DEF Idle
<1> HIDE DEF q
<1>3. \A u \in Request : request'[u] = IF u = r THEN q ELSE request[u]
  BY <1>1 DEF SerialInv, Inv, TypeOK
<1>4. UNCHANGED <<status, fiscalYear, version, parent>>
  BY DEF CreateBudget, db
<1>5. ReforecastsOfLocked'
  BY <1>1, <1>2, <1>3, <1>4 DEF BaselineInv, ReforecastsOfLocked
<1>6. VersionsDiffer'
  BY <1>2, <1>3, <1>4 DEF BaselineInv, VersionsDiffer, Siblings, Exists
<1> QED BY <1>5, <1>6 DEF BaselineInv

\* The version that is read is above all that there are.
LEMMA BaselineVersion ==
  ASSUME SerialInv, BaselineInv, NEW r \in Request, GetNextVersion(r)
  PROVE  BaselineInv'
<1> DEFINE y == request[r].fiscalYear
<1>1. PICK last \in LastVersion(y) :
        request' = [request EXCEPT ![r].version = last + 1, ![r].at = "insert"]
  BY DEF GetNextVersion
<1>2. \A b \in Siblings(y) : version[b] <= last
  BY <1>1 DEF LastVersion
<1>3. last \in Nat /\ \A b \in Budget : version[b] \in Nat
  BY <1>1 DEF LastVersion, Siblings, SerialInv, Inv, TypeOK
<1>4. UNCHANGED <<status, fiscalYear, version, parent>>
  BY DEF GetNextVersion, db
<1>5. \A u \in Request : request[u] \in RequestState
  BY DEF SerialInv, Inv, TypeOK
<1>6. /\ request'[r] = [request[r] EXCEPT !.version = last + 1, !.at = "insert"]
      /\ \A u \in Request \ {r} : request'[u] = request[u]
  BY <1>1 DEF SerialInv, Inv, TypeOK
<1>7. /\ request'[r].at = "insert" /\ request'[r].version = last + 1
      /\ request'[r].fiscalYear = y /\ request'[r].parent = request[r].parent
  BY <1>5, <1>6 DEF RequestState
<1>8. ReforecastsOfLocked'
  <2>1. request[r].at = "version"
    BY DEF GetNextVersion
  <2>2. \A b \in Budget : parent'[b] # NoBudget => status'[parent'[b]] = "LOCKED"
    BY <1>4 DEF BaselineInv, ReforecastsOfLocked
  <2>3. ASSUME NEW u \in Request, request'[u].at \in {"version", "insert"}, request'[u].parent # NoBudget
        PROVE  status'[request'[u].parent] = "LOCKED"
    <3>1. request'[u].parent = request[u].parent /\ request[u].at \in {"version", "insert"}
      BY <1>6, <1>7, <2>1, <2>3
    <3> QED BY <1>4, <2>3, <3>1 DEF BaselineInv, ReforecastsOfLocked
  <2> QED BY <2>2, <2>3 DEF ReforecastsOfLocked
<1>9. \A z : Siblings(z)' = Siblings(z)
  BY <1>4 DEF Siblings, Exists
<1>10. VersionsDiffer'
  <2>1. \A b \in Siblings(y) : version[b] < last + 1
    <3>1. \A b \in Siblings(y) : version[b] \in Nat
      BY <1>3 DEF Siblings
    <3> QED BY <1>2, <1>3, <3>1
  <2>2. \A u \in Request : request'[u].at = "insert" =>
          \A b \in Siblings(request'[u].fiscalYear) : version[b] < request'[u].version
    BY <1>6, <1>7, <2>1 DEF BaselineInv, VersionsDiffer
  <2>3. \A b, c \in Budget : Exists(b)' /\ Exists(c)' /\ fiscalYear'[b] = fiscalYear'[c] /\ version'[b] = version'[c] => b = c
    BY <1>4 DEF BaselineInv, VersionsDiffer, Exists
  <2> QED BY <1>4, <1>9, <2>2, <2>3 DEF VersionsDiffer
<1> QED BY <1>8, <1>10 DEF BaselineInv

\* The new budget has a version of its own, and nobody else is about to insert.
LEMMA BaselineInsert ==
  ASSUME Serial, SerialInv, BaselineInv, NEW r \in Request, InsertBudget(r)
  PROVE  BaselineInv'
<1> DEFINE q == request[r]
<1>1. PICK n \in Budget :
       /\ status[n] = "UNUSED"
       /\ status'     = [status EXCEPT ![n] = "DRAFT"]
       /\ fiscalYear' = [fiscalYear EXCEPT ![n] = q.fiscalYear]
       /\ version'    = [version EXCEPT ![n] = q.version]
       /\ parent'     = [parent EXCEPT ![n] = q.parent]
       /\ request'    = [request EXCEPT ![r].budget = n,
                           ![r].at = IF q.lines = NoLines THEN "audit" ELSE "copy"]
  BY DEF InsertBudget
<1>2. q.at = "insert" /\ q \in RequestState
  BY DEF InsertBudget, SerialInv, Inv, TypeOK
<1>3. /\ status \in [Budget -> RowState] /\ version \in [Budget -> Nat]
      /\ fiscalYear \in [Budget -> FiscalYear \cup {NoYear}] /\ parent \in [Budget -> Budget \cup {NoBudget}]
      /\ request \in [Request -> RequestState]
  BY DEF SerialInv, Inv, TypeOK
<1>4. \A u \in Request : request'[u].at \notin {"version", "insert"}
  <2>1. request'[r] = [request[r] EXCEPT !.budget = n, !.at = IF q.lines = NoLines THEN "audit" ELSE "copy"]
    BY <1>1, <1>3
  <2>2. request'[r].at = IF q.lines = NoLines THEN "audit" ELSE "copy"
    BY <1>2, <2>1 DEF RequestState
  <2> QED BY <2>2 DEF Serial
<1> HIDE DEF q
<1>5. \A b \in Budget : /\ status'[b] = IF b = n THEN "DRAFT" ELSE status[b]
                        /\ fiscalYear'[b] = IF b = n THEN q.fiscalYear ELSE fiscalYear[b]
                        /\ version'[b] = IF b = n THEN q.version ELSE version[b]
                        /\ parent'[b] = IF b = n THEN q.parent ELSE parent[b]
  BY <1>1, <1>3
<1>6. q.parent \in Budget \cup {NoBudget} /\ q.version \in Nat
  BY <1>2 DEF RequestState
<1>7. q.parent # NoBudget => status[q.parent] = "LOCKED"
  BY <1>2 DEF BaselineInv, ReforecastsOfLocked, q
<1>8. \A b \in Siblings(q.fiscalYear) : version[b] < q.version
  BY <1>2 DEF BaselineInv, VersionsDiffer, q
<1>9. ReforecastsOfLocked'
  <2>1. \A b \in Budget : parent'[b] # NoBudget => status[parent'[b]] = "LOCKED" /\ parent'[b] \in Budget
    BY <1>3, <1>5, <1>6, <1>7 DEF BaselineInv, ReforecastsOfLocked
  <2>2. \A b \in Budget : status[b] = "LOCKED" => status'[b] = "LOCKED"
    BY <1>1, <1>5
  <2> QED BY <1>4, <2>1, <2>2 DEF ReforecastsOfLocked
<1>10. VersionsDiffer'
  <2> SUFFICES ASSUME NEW b \in Budget, NEW c \in Budget, Exists(b)', Exists(c)',
                      fiscalYear'[b] = fiscalYear'[c], version'[b] = version'[c], b # c
               PROVE  FALSE
    BY <1>4 DEF VersionsDiffer
  <2>1. ASSUME NEW d \in Budget, d # n, Exists(d)', fiscalYear'[d] = q.fiscalYear PROVE version'[d] # q.version
    <3>1. d \in Siblings(q.fiscalYear)
      BY <1>5, <2>1 DEF Siblings, Exists
    <3> QED BY <1>3, <1>5, <1>6, <1>8, <2>1, <3>1
  <2>2. CASE b # n /\ c # n
    BY <1>5, <2>2 DEF BaselineInv, VersionsDiffer, Exists
  <2>3. CASE b = n
    BY <1>5, <2>1, <2>3
  <2>4. CASE c = n
    BY <1>5, <2>1, <2>4
  <2> QED BY <2>2, <2>3, <2>4
<1> QED BY <1>9, <1>10 DEF BaselineInv

\* Every step.
LEMMA BaselineStep ==
  ASSUME Serial, SerialInv, BaselineInv, [Next]_vars PROVE BaselineInv'
<1>types. request \in [Request -> RequestState] /\ status \in [Budget -> RowState]
  BY DEF SerialInv, Inv, TypeOK
<1>goto. ASSUME NEW r \in Request, NEW at \in Phase \ {"version", "insert"}, Goto(r, at)
         PROVE  \A u \in Request : request'[u].at \in {"version", "insert"} => request'[u] = request[u]
  <2>1. request'[r].at = at /\ \A u \in Request \ {r} : request'[u] = request[u]
    BY <1>goto, <1>types, SerialGoto DEF Goto, SerialInv, Inv
  <2> QED BY <2>1
<1>finish. ASSUME NEW r \in Request, Finish(r)
           PROVE  \A u \in Request : request'[u].at \in {"version", "insert"} => request'[u] = request[u]
  <2>1. request'[r].at = "idle" /\ \A u \in Request \ {r} : request'[u] = request[u]
    BY <1>finish, <1>types, SerialFinish DEF Finish, SerialInv, Inv
  <2> QED BY <2>1
<1>begun. ASSUME NEW r \in Request, NEW q, q.at \notin {"version", "insert"}, request' = [request EXCEPT ![r] = q]
          PROVE  \A u \in Request : request'[u].at \in {"version", "insert"} => request'[u] = request[u]
  BY <1>begun, <1>types
<1>1. ASSUME NEW r \in Request, SetStatus(r) PROVE BaselineInv'
  <2>1. \A b \in Budget : Exists(b)' => Exists(b)
    BY <1>1, <1>types DEF SetStatus, Exists
  <2>2. AfterStatus(request[r].op) \in Phase \ {"version", "insert"}
    BY DEF AfterStatus, Phase
  <2>3. Goto(r, AfterStatus(request[r].op)) /\ UNCHANGED <<fiscalYear, version, parent>>
    BY <1>1 DEF SetStatus
  <2> QED BY <1>goto, <2>1, <2>2, <2>3, BaselineKept
<1>2. ASSUME NEW r \in Request, DeleteRows(r) PROVE BaselineInv'
  <2>1. \A b \in Budget : Exists(b)' => Exists(b)
    BY <1>2, <1>types DEF DeleteRows, Exists, LegalStatus
  <2>2. /\ Finish(r) /\ fiscalYear' = fiscalYear /\ version' = version
        /\ \A b \in Budget : parent'[b] \in {parent[b], NoBudget}
    BY <1>2 DEF DeleteRows
  <2> QED BY <1>finish, <2>1, <2>2, BaselineKept
<1>3. ASSUME UNCHANGED <<status, fiscalYear, version, parent>>,
             \A u \in Request : request'[u].at \in {"version", "insert"} => request'[u] = request[u]
      PROVE  BaselineInv'
  BY <1>3, BaselineKept DEF Exists
<1>4. ASSUME NEW r \in Request, EnqueueRecalc(r) \/ ClearReferences(r) \/ CopyLines(r) PROVE BaselineInv'
  <2>1. \E at \in Phase \ {"version", "insert"} : Goto(r, at)
    BY <1>4 DEF EnqueueRecalc, ClearReferences, CopyLines, Phase
  <2>2. UNCHANGED <<status, fiscalYear, version, parent>>
    BY <1>4 DEF EnqueueRecalc, ClearReferences, CopyLines, db
  <2> QED BY <1>3, <1>goto, <2>1, <2>2
<1>5. ASSUME NEW r \in Request,
             CreateLog(r) \/ FlagReference(r) \/ UpsertLine(r) \/ DeleteLineById(r) \/ Fail(r)
      PROVE  BaselineInv'
  <2>1. Finish(r) /\ UNCHANGED <<status, fiscalYear, version, parent>>
    BY <1>5 DEF CreateLog, FlagReference, UpsertLine, DeleteLineById, Fail, db
  <2> QED BY <1>3, <1>finish, <2>1
<1>6. ASSUME NEW r \in Request, NEW b \in Budget, NEW op, NEW at \in Phase \ {"version", "insert"}, Begin(r, op, at, b)
      PROVE  BaselineInv'
  <2> DEFINE q == [Idle EXCEPT !.op = op, !.at = at, !.budget = b]
  <2>1. q.at = at
    BY DEF Idle
  <2>2. request' = [request EXCEPT ![r] = q] /\ UNCHANGED <<status, fiscalYear, version, parent>>
    BY <1>6 DEF Begin, db
  <2> HIDE DEF q
  <2> QED BY <1>3, <1>begun, <2>1, <2>2
<1>7. ASSUME NEW r \in Request, NEW b \in Budget, NEW op, NEW at \in Phase \ {"version", "insert"}, NEW l, NEW a,
             BeginEdit(r, op, at, b, l, a)
      PROVE  BaselineInv'
  <2> DEFINE q == [Idle EXCEPT !.op = op, !.at = at, !.budget = b, !.line = l, !.amount = a]
  <2>1. q.at = at
    BY DEF Idle
  <2>2. request' = [request EXCEPT ![r] = q] /\ UNCHANGED <<status, fiscalYear, version, parent>>
    BY <1>7 DEF BeginEdit, db
  <2> HIDE DEF q
  <2> QED BY <1>3, <1>begun, <2>1, <2>2
<1>8. ASSUME NEW r \in Request, Accept(r) PROVE BaselineInv'
  <2>1. {"setStatus", "clear", "deleteRows", "upsert", "deleteLine"} \subseteq Phase \ {"version", "insert"}
    BY DEF Phase
  <2>2. ASSUME NEW b \in Budget,
               \/ Submit(r, b) \/ Approve(r, b) \/ Reject(r, b) \/ Lock(r, b)
               \/ SetAsReference(r, b) \/ DeleteBudget(r, b)
        PROVE  BaselineInv'
    BY <1>6, <2>1, <2>2 DEF Submit, Approve, Reject, Lock, SetAsReference, DeleteBudget
  <2>3. ASSUME NEW b \in Budget, NEW l, NEW a, UpdateLines(r, b, l, a) \/ DeleteLine(r, b, l) PROVE BaselineInv'
    BY <1>7, <2>1, <2>3 DEF UpdateLines, DeleteLine
  <2> QED BY <1>8, <2>2, <2>3, BaselineCreate DEF Accept
<1>9. CASE UNCHANGED vars
  BY <1>3, <1>9 DEF vars
<1> QED BY <1>1, <1>2, <1>4, <1>5, <1>8, <1>9, BaselineVersion, BaselineInsert DEF Next, Write

\* Before the first request there is nothing to compare.
LEMMA BaselineInit == Init => BaselineInv
BY DEF Init, BaselineInv, ReforecastsOfLocked, VersionsDiffer, Exists, LegalStatus, Idle

\* With one request at a time every reforecast stays one of a LOCKED budget.
THEOREM BaselinesStayLocked ==
  ASSUME Serial PROVE Spec => []ReforecastsOfLocked
<1>1. SerialInv /\ BaselineInv /\ [Next]_vars => BaselineInv'
  BY BaselineStep
<1>2. BaselineInv => ReforecastsOfLocked
  BY DEF BaselineInv
<1> QED BY <1>1, <1>2, BaselineInit, SerialInvariance, PTL DEF Spec

\* With one request at a time no two budgets of a fiscal year have the same version.
THEOREM VersionsUnique ==
  ASSUME Serial PROVE Spec => []VersionsDiffer
<1>1. SerialInv /\ BaselineInv /\ [Next]_vars => BaselineInv'
  BY BaselineStep
<1>2. BaselineInv => VersionsDiffer
  BY DEF BaselineInv
<1> QED BY <1>1, <1>2, BaselineInit, SerialInvariance, PTL DEF Spec

==============================================================================
