---------------------------- MODULE BudgetWorkflow ----------------------------
(***************************************************************************)
(* The handlers of BudgetsService (apps/api/src/modules/budgets) as they   *)
(* run: every handler first reads the budget and checks it, then writes in *)
(* database calls of their own.  Each database call is one step, because   *)
(* every await lets another request run and nothing locks the row between  *)
(* the check and the write: setStatus has no status in its WHERE clause.   *)
(*                                                                         *)
(* A request slot in Request is one HTTP request being served.  A request  *)
(* may stop at any step (Fail): the database or the queue raised, or the   *)
(* process died; the steps already taken stay in the database.             *)
(*                                                                         *)
(* Refused requests change nothing and are left out, and so are reads of   *)
(* the final response.  The role and department checks that precede a      *)
(* handler only restrict who may call it.  One line entry stands for the   *)
(* list of an updateLines request, whose loop is one database transaction. *)
(*                                                                         *)
(* A definition named Bad... is the definition that follows it with a      *)
(* plausible mistake: the runs must see the difference.                    *)
(***************************************************************************)
EXTENDS Integers, FiniteSetsExt

CONSTANTS
  Budget,      \* budget identifiers of one organisation (never reused)
  FiscalYear,  \* fiscal years of the organisation
  Line,        \* budget line identifiers
  Amount,      \* amounts a line may carry
  Request,     \* requests that can be served at the same time
  Offered,     \* operations the clients of this instance call
  NoBudget, NoLine, NoYear

ASSUME AmountAssumption == Amount \subseteq Int /\ NoLine \notin Amount
ASSUME AbsentAssumption == NoBudget \notin Budget /\ NoLine \notin Line /\ NoYear \notin FiscalYear

VARIABLES
  status,      \* budgets.status, "UNUSED" before the INSERT, "DELETED" after the DELETE
  fiscalYear,  \* budgets.fiscal_year_id
  version,     \* budgets.version
  parent,      \* budgets.parent_budget_id
  isReference, \* budgets.is_reference
  lines,       \* budget_lines of the budget: lines[b][l] is amount_budget, or NoLine
  calcQueue,   \* budgets whose 'budget-approved-recalc' job was added
  logged,      \* to_status of the last audit_logs row of the budget
  request,     \* what each request is doing and what it remembers
  ever,        \* history: the milestones the budget has passed
  broken,      \* history: budgets that a request left half-way
  referenced,  \* history: fiscal years that have had a reference
  interrupted  \* history: fiscal years whose last change of reference stopped
               \* between its two statements

db   == <<status, fiscalYear, version, parent, isReference, lines>>
vars == <<status, fiscalYear, version, parent, isReference, lines,
          calcQueue, logged, request, ever, broken, referenced, interrupted>>

LegalStatus == {"DRAFT", "SUBMITTED", "APPROVED", "REJECTED", "LOCKED"}
RowState    == LegalStatus \cup {"UNUSED", "DELETED"}
Editable    == {"DRAFT", "REJECTED"}
Milestone   == {"SUBMITTED", "APPROVED", "LOCKED"}

Lines   == [Line -> Amount \cup {NoLine}]
NoLines == [l \in Line |-> NoLine]

\* Sum of amount_budget over the lines; hasZeroBudgetedAmount is Total(ls) = 0.
Total(ls) == MapThenSumSet(LAMBDA l : ls[l], {l \in Line : ls[l] # NoLine})

Exists(b) == status[b] \in LegalStatus

Op    == {"none", "create", "updateLines", "deleteLine", "delete", "setReference",
          "submit", "approve", "reject", "lock"}
Phase == {"idle", "version", "insert", "copy", "upsert", "deleteLine", "deleteRows",
          "clear", "flag", "setStatus", "enqueue", "audit"}

OnBudget == Phase \ {"idle", "version", "insert"}

\* What a request remembers: the budget it works on, for a creation the parent,
\* its lines and the version, for an edit the line entry.
RequestState ==
  [op : Op, at : Phase, budget : Budget \cup {NoBudget},
   parent : Budget \cup {NoBudget}, fiscalYear : FiscalYear \cup {NoYear},
   version : Nat, lines : Lines, line : Line \cup {NoLine}, amount : Amount \cup {NoLine}]

Idle == [op |-> "none", at |-> "idle", budget |-> NoBudget,
         parent |-> NoBudget, fiscalYear |-> NoYear, version |-> 0,
         lines |-> NoLines, line |-> NoLine, amount |-> NoLine]

TypeOK ==
  /\ status      \in [Budget -> RowState]
  /\ fiscalYear  \in [Budget -> FiscalYear \cup {NoYear}]
  /\ version     \in [Budget -> Nat]
  /\ parent      \in [Budget -> Budget \cup {NoBudget}]
  /\ isReference \in [Budget -> BOOLEAN]
  /\ lines       \in [Budget -> Lines]
  /\ calcQueue   \subseteq Budget
  /\ logged      \in [Budget -> RowState]
  /\ request     \in [Request -> RequestState]
  /\ ever        \in [Budget -> SUBSET Milestone]
  /\ broken      \subseteq Budget
  /\ referenced  \subseteq FiscalYear
  /\ interrupted \subseteq FiscalYear

Init ==
  /\ status      = [b \in Budget |-> "UNUSED"]
  /\ fiscalYear  = [b \in Budget |-> NoYear]
  /\ version     = [b \in Budget |-> 0]
  /\ parent      = [b \in Budget |-> NoBudget]
  /\ isReference = [b \in Budget |-> FALSE]
  /\ lines       = [b \in Budget |-> NoLines]
  /\ calcQueue   = {}
  /\ logged      = [b \in Budget |-> "UNUSED"]
  /\ request     = [r \in Request |-> Idle]
  /\ ever        = [b \in Budget |-> {}]
  /\ broken      = {}
  /\ referenced  = {}
  /\ interrupted = {}

------------------------------------------------------------------------------
(* The first step of every handler on a budget: ensureOwnedBudget and the   *)
(* checks on what it read.                                                  *)

Begin(r, op, at, b) ==
  /\ request[r] = Idle
  /\ op \in Offered
  /\ Exists(b)
  /\ request' = [request EXCEPT ![r] =
                   [Idle EXCEPT !.op = op, !.at = at, !.budget = b]]
  /\ UNCHANGED <<db, calcQueue, logged, ever, broken, referenced, interrupted>>

\* The bad ones forget the status, or take the status of another handler.
BadApprove(r, b)      == Total(lines[b]) # 0 /\ Begin(r, "approve", "setStatus", b)
BadDeleteBudget(r, b) == status[b] # "LOCKED" /\ Begin(r, "delete", "deleteRows", b)

Submit(r, b)  == status[b] \in Editable /\ Begin(r, "submit", "setStatus", b)
Approve(r, b) == Total(lines[b]) # 0 /\ status[b] = "SUBMITTED" /\ Begin(r, "approve", "setStatus", b)
Reject(r, b)  == status[b] = "SUBMITTED" /\ Begin(r, "reject", "setStatus", b)
Lock(r, b)    == Total(lines[b]) # 0 /\ status[b] = "APPROVED" /\ Begin(r, "lock", "setStatus", b)

SetAsReference(r, b) == status[b] = "LOCKED" /\ Begin(r, "setReference", "clear", b)
DeleteBudget(r, b)   == status[b] \notin {"LOCKED", "APPROVED"} /\ Begin(r, "delete", "deleteRows", b)

\* An edit names an existing line or none (a new line) and the amount to write.
BeginEdit(r, op, at, b, l, a) ==
  /\ request[r] = Idle
  /\ op \in Offered
  /\ status[b] \in Editable
  /\ request' = [request EXCEPT ![r] =
                   [Idle EXCEPT !.op = op, !.at = at, !.budget = b, !.line = l, !.amount = a]]
  /\ UNCHANGED <<db, calcQueue, logged, ever, broken, referenced, interrupted>>

UpdateLines(r, b, l, a) == BeginEdit(r, "updateLines", "upsert", b, l, a)
DeleteLine(r, b, l)     == BeginEdit(r, "deleteLine", "deleteLine", b, l, NoLine)

\* A budget has no parent, or is the reforecast of a LOCKED budget of the same year.
MayReforecast(p, y) == status[p] = "LOCKED" /\ fiscalYear[p] = y

CreateBudget(r, p, y) ==
  /\ request[r] = Idle
  /\ "create" \in Offered
  /\ p # NoBudget => MayReforecast(p, y)
  /\ request' = [request EXCEPT ![r] =
                   [Idle EXCEPT !.op = "create", !.at = "version", !.parent = p, !.fiscalYear = y,
                                !.lines = IF p = NoBudget THEN NoLines ELSE lines[p]]]
  /\ UNCHANGED <<db, calcQueue, logged, ever, broken, referenced, interrupted>>

------------------------------------------------------------------------------
(* The writes.                                                              *)

Goto(r, at) == request' = [request EXCEPT ![r].at = at]
Finish(r)   == request' = [request EXCEPT ![r] = Idle]

Target(op) == CASE op = "submit"  -> "SUBMITTED"
                [] op = "approve" -> "APPROVED"
                [] op = "reject"  -> "REJECTED"
                [] op = "lock"    -> "LOCKED"
                [] OTHER          -> "DRAFT"

\* Only the approval adds a job, between its status write and its audit entry.
BadAfterStatus(op) == "audit"
AfterStatus(op)    == IF op = "approve" THEN "enqueue" ELSE "audit"

\* updateMany by id: whatever the status is by now, and nothing if the row is gone.
SetStatus(r) ==
  LET b  == request[r].budget
      to == Target(request[r].op)
  IN
  /\ request[r].at = "setStatus"
  /\ IF Exists(b)
       THEN /\ status' = [status EXCEPT ![b] = to]
            /\ ever' = [ever EXCEPT ![b] = @ \cup ({to} \cap Milestone)]
       ELSE UNCHANGED <<status, ever>>
  /\ Goto(r, AfterStatus(request[r].op))
  /\ UNCHANGED <<fiscalYear, version, parent, isReference, lines, calcQueue, logged, broken, referenced, interrupted>>

EnqueueRecalc(r) ==
  /\ request[r].at = "enqueue"
  /\ calcQueue' = calcQueue \cup {request[r].budget}
  /\ Goto(r, "audit")
  /\ UNCHANGED <<db, logged, ever, broken, referenced, interrupted>>

CreateLog(r) ==
  /\ request[r].at = "audit"
  /\ logged' = [logged EXCEPT ![request[r].budget] = Target(request[r].op)]
  /\ Finish(r)
  /\ UNCHANGED <<db, calcQueue, ever, broken, referenced, interrupted>>

\* One statement clears every reference of the fiscal year ...
ClearReferences(r) ==
  LET y == fiscalYear[request[r].budget] IN
  /\ request[r].at = "clear"
  /\ isReference' = [b \in Budget |-> isReference[b] /\ fiscalYear[b] # y]
  /\ Goto(r, "flag")
  /\ UNCHANGED <<status, fiscalYear, version, parent, lines, calcQueue, logged, ever, broken, referenced, interrupted>>

\* The partial unique index budgets_one_reference_per_org_fy refuses a second one.
BadIndexAllows(b) == TRUE
IndexAllows(b) ==
  \A c \in Budget \ {b} : fiscalYear[c] = fiscalYear[b] => ~isReference[c]

BadFlaggable(b) == Exists(b) /\ status[b] = "LOCKED" /\ IndexAllows(b)
Flaggable(b)    == Exists(b) /\ IndexAllows(b)

\* ... and another one sets the flag, or raises: on the index, or because the
\* row is gone (update re-reads it).  Either way the request is over.
FlagReference(r) ==
  LET b == request[r].budget IN
  /\ request[r].at = "flag"
  /\ IF Flaggable(b)
       THEN /\ isReference' = [isReference EXCEPT ![b] = TRUE]
            /\ referenced' = referenced \cup {fiscalYear[b]}
            /\ interrupted' = interrupted \ {fiscalYear[b]}
       ELSE UNCHANGED <<isReference, referenced, interrupted>>
  /\ Finish(r)
  /\ UNCHANGED <<status, fiscalYear, version, parent, lines, calcQueue, logged, ever, broken>>

\* Without an id the entry becomes a new line (the foreign key wants the budget);
\* with one it updates that line, if it still exists.
UpsertLine(r) ==
  LET b == request[r].budget
      a == request[r].amount
  IN
  /\ request[r].at = "upsert"
  /\ IF request[r].line = NoLine
       THEN /\ Exists(b)
            /\ \E l \in Line : /\ lines[b][l] = NoLine
                               /\ lines' = [lines EXCEPT ![b][l] = a]
       ELSE LET l == request[r].line
            IN  lines' = [lines EXCEPT ![b][l] = IF @ = NoLine THEN @ ELSE a]
  /\ Finish(r)
  /\ UNCHANGED <<status, fiscalYear, version, parent, isReference, calcQueue, logged, ever, broken, referenced, interrupted>>

DeleteLineById(r) ==
  /\ request[r].at = "deleteLine"
  /\ lines' = [lines EXCEPT ![request[r].budget][request[r].line] = NoLine]
  /\ Finish(r)
  /\ UNCHANGED <<status, fiscalYear, version, parent, isReference, calcQueue, logged, ever, broken, referenced, interrupted>>

\* The lines and the budget in one transaction; the foreign key of the
\* reforecasts is ON DELETE SET NULL.
DeleteRows(r) ==
  LET b == request[r].budget IN
  /\ request[r].at = "deleteRows"
  /\ status'      = [status EXCEPT ![b] = IF Exists(b) THEN "DELETED" ELSE @]
  /\ lines'       = [lines EXCEPT ![b] = NoLines]
  /\ isReference' = [isReference EXCEPT ![b] = FALSE]
  /\ parent'      = [c \in Budget |-> IF parent[c] = b THEN NoBudget ELSE parent[c]]
  /\ Finish(r)
  /\ UNCHANGED <<fiscalYear, version, calcQueue, logged, ever, broken, referenced, interrupted>>

Siblings(y) == {b \in Budget : Exists(b) /\ fiscalYear[b] = y}

\* The highest version of the fiscal year, 0 in an empty one (a singleton).
LastVersion(y) == {v \in {version[b] : b \in Siblings(y)} \cup {0} :
                     \A b \in Siblings(y) : version[b] <= v}

\* It is read before the INSERT, in a database call of its own.
GetNextVersion(r) ==
  /\ request[r].at = "version"
  /\ \E last \in LastVersion(request[r].fiscalYear) :
       request' = [request EXCEPT ![r].version = last + 1, ![r].at = "insert"]
  /\ UNCHANGED <<db, calcQueue, logged, ever, broken, referenced, interrupted>>

InsertBudget(r) ==
  LET q == request[r] IN
  /\ q.at = "insert"
  /\ q.parent # NoBudget => Exists(q.parent)
  /\ \E b \in Budget :
       /\ status[b] = "UNUSED"
       /\ status'     = [status EXCEPT ![b] = "DRAFT"]
       /\ fiscalYear' = [fiscalYear EXCEPT ![b] = q.fiscalYear]
       /\ version'    = [version EXCEPT ![b] = q.version]
       /\ parent'     = [parent EXCEPT ![b] = q.parent]
       /\ request'    = [request EXCEPT ![r].budget = b,
                           ![r].at = IF q.lines = NoLines THEN "audit" ELSE "copy"]
  /\ UNCHANGED <<isReference, lines, calcQueue, logged, ever, broken, referenced, interrupted>>

\* The copy inserts the parent's lines as they were read, next to the lines the
\* new budget may have by now; it raises if that budget has been deleted.  The
\* copies take the identifiers of the originals, which the new budget's other
\* lines must leave free: inserted lines choose theirs (UpsertLine).
CopyLines(r) ==
  LET b      == request[r].budget
      copied == request[r].lines
  IN
  /\ request[r].at = "copy"
  /\ Exists(b)
  /\ \A l \in Line : copied[l] = NoLine \/ lines[b][l] = NoLine
  /\ lines' = [lines EXCEPT ![b] = [l \in Line |-> IF copied[l] # NoLine THEN copied[l] ELSE @[l]]]
  /\ Goto(r, "audit")
  /\ UNCHANGED <<status, fiscalYear, version, parent, isReference, calcQueue, logged, ever, broken, referenced, interrupted>>

------------------------------------------------------------------------------
\* A call raised or the process died.  broken records a budget whose row was
\* written without what the handler owes it, interrupted a fiscal year whose
\* references were cleared and that got no other.
HasWritten == {"copy", "enqueue", "audit"}

Fail(r) ==
  /\ request[r] # Idle
  /\ broken' = IF request[r].at \in HasWritten THEN broken \cup {request[r].budget} ELSE broken
  /\ interrupted' = IF request[r].at = "flag"
                      THEN interrupted \cup {fiscalYear[request[r].budget]} ELSE interrupted
  /\ Finish(r)
  /\ UNCHANGED <<db, calcQueue, logged, ever, referenced>>

Accept(r) ==
  \/ \E b \in Budget :
       \/ Submit(r, b) \/ Approve(r, b) \/ Reject(r, b) \/ Lock(r, b)
       \/ SetAsReference(r, b) \/ DeleteBudget(r, b)
       \/ \E l \in Line \cup {NoLine}, a \in Amount : UpdateLines(r, b, l, a)
       \/ \E l \in Line : DeleteLine(r, b, l)
  \/ \E p \in Budget \cup {NoBudget}, y \in FiscalYear : CreateBudget(r, p, y)

Write(r) ==
  \/ SetStatus(r) \/ EnqueueRecalc(r) \/ CreateLog(r)
  \/ ClearReferences(r) \/ FlagReference(r)
  \/ UpsertLine(r) \/ DeleteLineById(r) \/ DeleteRows(r)
  \/ GetNextVersion(r) \/ InsertBudget(r) \/ CopyLines(r)

Next == \E r \in Request : Accept(r) \/ Write(r) \/ Fail(r)

Spec == Init /\ [][Next]_vars

------------------------------------------------------------------------------
(* What holds however the requests interleave, and wherever they stop.      *)

\* A fiscal year never has two reference budgets, although setAsReference
\* clears the old one and flags the new one in two statements.
AtMostOneReference ==
  \A b, c \in Budget :
    isReference[b] /\ isReference[c] /\ fiscalYear[b] = fiscalYear[c] => b = c

HasReference(y) == \E b \in Budget : fiscalYear[b] = y /\ isReference[b]
Swapping(y)     == \E r \in Request : request[r].at = "flag" /\ fiscalYear[request[r].budget] = y

\* A change of the year's reference stopped after it had cleared the old one and
\* none has succeeded since, or a budget that had been LOCKED was deleted.
Disturbed(y) ==
  \/ y \in interrupted
  \/ \E b \in Budget : fiscalYear[b] = y /\ status[b] = "DELETED" /\ "LOCKED" \in ever[b]

\* Racing changes of the reference never leave a fiscal year without the one it
\* had: only a setAsReference that stopped between its two statements, until the
\* next one that succeeds, or a deleted budget that had been LOCKED, can do that.
\* Failures anywhere else (an audit entry, a job, a copy) excuse nothing.
ReferenceNotLost == \A y \in referenced : HasReference(y) \/ Swapping(y) \/ Disturbed(y)

\* No race takes a budget around the workflow: it was SUBMITTED before it was ever
\* APPROVED or REJECTED, APPROVED before it was ever LOCKED.
NoStageSkipped ==
  \A b \in Budget :
    /\ status[b] = "REJECTED" \/ "APPROVED" \in ever[b] => "SUBMITTED" \in ever[b]
    /\ "LOCKED" \in ever[b] => "APPROVED" \in ever[b]

\* The reference of a fiscal year and the parent of a reforecast have been LOCKED,
\* and a reforecast stays in the fiscal year of its parent.
BaselinesWereLocked ==
  \A b \in Budget :
    /\ isReference[b] => "LOCKED" \in ever[b]
    /\ parent[b] # NoBudget =>
         "LOCKED" \in ever[parent[b]] /\ fiscalYear[parent[b]] = fiscalYear[b]

\* An approval in the audit trail has its recalculation job: approveBudget adds
\* the job before it logs.
LoggedApprovalIsQueued ==
  \A b \in Budget : logged[b] = "APPROVED" => b \in calcQueue

\* What a request in flight may rely on, however long ago it read: its budget
\* was created, passed the milestones its operation needs and keeps its fiscal
\* year, and an approval about to be logged has its job.
RequestJustified(q) ==
  /\ q.at \in OnBudget => q.budget \in Budget /\ status[q.budget] # "UNUSED"
  /\ q.at = "deleteLine" => q.line \in Line
  /\ q.op = "approve" => q.at \in {"setStatus", "enqueue", "audit"}
  /\ q.at = "setStatus" /\ q.op \in {"approve", "reject"} => "SUBMITTED" \in ever[q.budget]
  /\ q.at = "setStatus" /\ q.op = "lock" => "APPROVED" \in ever[q.budget]
  /\ q.at \in {"clear", "flag"} => "LOCKED" \in ever[q.budget]
  /\ q.at = "audit" /\ q.op = "approve" => q.budget \in calcQueue
  /\ q.at \in {"version", "insert"} =>
       /\ q.fiscalYear \in FiscalYear
       /\ q.parent # NoBudget =>
            /\ status[q.parent] # "UNUSED"
            /\ "LOCKED" \in ever[q.parent]
            /\ fiscalYear[q.parent] = q.fiscalYear

\* What the rows and the history variables agree on.
RowConsistent(b) ==
  /\ status[b] \in Milestone => status[b] \in ever[b]
  /\ status[b] # "UNUSED" => fiscalYear[b] \in FiscalYear
  /\ status[b] = "UNUSED" => b \notin broken /\ parent[b] = NoBudget
  /\ parent[b] # NoBudget => status[parent[b]] # "UNUSED"
  /\ isReference[b] => Exists(b)

\* Every request in flight is justified and every row consistent: with TypeOK and
\* the five invariants above, an inductive invariant of the specification.
Consistent ==
  /\ \A r \in Request : RequestJustified(request[r])
  /\ \A b \in Budget : RowConsistent(b)

------------------------------------------------------------------------------
(* What holds when requests are served one at a time (one slot).            *)

Quiet(b) == \A r \in Request : request[r].budget # b

\* The handlers then implement the documented workflow.
Lifecycle == INSTANCE BudgetLifecycle
               WITH status <- status, fiscalYear <- fiscalYear, lines <- lines,
                    isReference <- isReference, Budget <- Budget, FiscalYear <- FiscalYear,
                    Line <- Line, Amount <- Amount, NoLine <- NoLine, NoYear <- NoYear,
                    Total <- Total
Implements == Lifecycle!Spec

\* Between requests the last audit entry of a budget names its status, and an
\* approved budget has its recalculation job, unless a request stopped half-way.
SideEffectsComplete ==
  \A b \in Budget :
    Exists(b) /\ Quiet(b) /\ b \notin broken =>
      /\ logged[b] = status[b]
      /\ status[b] \in {"APPROVED", "LOCKED"} => b \in calcQueue

------------------------------------------------------------------------------
(* What the documents say and the code does not ensure.                     *)

\* "LOCKED : irreversible": no step takes a budget out of LOCKED.
LockedIsFinal ==
  [][\A b \in Budget : status[b] = "LOCKED" => status'[b] = "LOCKED"]_vars
==============================================================================
