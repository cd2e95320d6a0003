----------------------------- MODULE BudgetEditor -----------------------------
(***************************************************************************)
(* The page of one draft budget (apps/web/src/features/budget,             *)
(* BudgetDetailPage) on top of the calls of WebClient.  The page shows the *)
(* copy of the lines its query holds, and an edit or a duplication sends   *)
(* the whole copy back with one line changed or added: PUT                 *)
(* /budgets/:id/lines updates every line it is given (upsertBudgetLines).  *)
(* After a save the query is invalidated and loaded again before the       *)
(* form can be used for another one.                                       *)
(*                                                                         *)
(* Nobody else edits the budget: a copy that a colleague has outdated      *)
(* overwrites what he wrote.  The status of the budget, the deletion of    *)
(* lines and the departments are left to BudgetWorkflow.  A duplication    *)
(* adds a line that is not one of Line, and nobody edits it.               *)
(*                                                                         *)
(* The page is bounded: after a lost answer, two saves at once or a reload *)
(* that was cancelled (unsure) it is left or loaded again before the next  *)
(* edit.                                                                   *)
(***************************************************************************)
EXTENDS WebClient

CONSTANTS
  Line,   \* lines of the budget
  Amount, \* amounts a line may have
  None    \* no line, no copy, no call

ASSUME EditorAssumption == None \notin Line /\ None \notin Call /\ None \notin [Line -> Amount]

VARIABLES
  amount,  \* budget_lines.amount_budget in the database
  shown,   \* the copy the page shows, None when the query has no data
  payload, \* the lines a call carries, to the server or back
  saving,  \* the call each form waits for: isAddingLine and isBulkDuplicating
  ignored, \* loads the query cancelled: their answer is not shown
  runs,    \* history: how often the save of a call ran
  unsure   \* history: since the page was opened an answer was lost, two saves overlapped or the
           \* load after a save was cancelled

editor == <<amount, shown, payload, saving, ignored, runs, unsure>>
vars   == <<client, editor>>

Form   == {"edit", "add"}
Lines  == [Line -> Amount]
NoData == [lines |-> None, line |-> None]

TypeOK ==
  /\ ClientTypeOK
  /\ amount \in Lines
  /\ shown \in Lines \cup {None}
  /\ payload \in [Call -> [lines : Lines \cup {None}, line : Line \cup {None}]]
  /\ saving \in [Form -> Call \cup {None}]
  /\ ignored \subseteq Call
  /\ runs \in [Call -> 0 .. 2]
  /\ unsure \in BOOLEAN

Init ==
  /\ ClientInit
  /\ \E a \in Amount : amount = [l \in Line |-> a]
  /\ shown = None
  /\ payload = [c \in Call |-> NoData]
  /\ saving = [f \in Form |-> None]
  /\ ignored = {}
  /\ runs = [c \in Call |-> 0]
  /\ unsure = FALSE

Loading    == {c \in Call : call[c].kind = "load"} \ ignored
Busy       == \E f \in Form : saving[f] # None
Freed(cs)  == [f \in Form |-> IF saving[f] \in cs THEN None ELSE saving[f]]

------------------------------------------------------------------------------
(* The page.                                                                *)

\* useQuery(['budget', id]) of a page that has no data.
Load(c) ==
  /\ shown = None /\ Loading = {}
  /\ Send(c, "load")
  /\ UNCHANGED editor

\* Bound: a page that is unsure is not edited any more, only left or loaded again.
Submit(c, form, l, lines) ==
  /\ saving[form] = None /\ ~unsure
  /\ Send(c, form)
  /\ payload' = [payload EXCEPT ![c] = [lines |-> lines, line |-> l]]
  /\ saving' = [saving EXCEPT ![form] = c]
  /\ unsure' = Busy
  /\ UNCHANGED <<amount, shown, ignored, runs>>

\* handleAddLine on a line of the copy; Escape closes the form but not the call.
EditLine(c, l, a) ==
  /\ shown # None /\ shown[l] # a
  /\ Submit(c, "edit", l, [shown EXCEPT ![l] = a])

\* handleBulkDuplicate: the whole copy and a line more.
DuplicateLine(c) == shown # None /\ Submit(c, "add", None, shown)

\* The query is invalidated for another reason: a period that was closed, a line that was
\* deleted, an action on the budget, or one that was not confirmed.  A load in flight is
\* cancelled, and the form that waited for it is free before the page has its lines.
Invalidated(c) ==
  /\ shown # None
  /\ Send(c, "load")
  /\ ignored' = ignored \cup Loading
  /\ saving' = Freed(Loading)
  /\ unsure' = (unsure \/ \E f \in Form : saving[f] \in Loading)
  /\ UNCHANGED <<amount, shown, payload, runs>>

\* invalidateQueries: the answer of a load in flight will not be shown, a new one is sent,
\* and the forms that waited for the cancelled one are free.
BadSaved(c) ==
  /\ Answer(c) /\ call[c].kind \in Form
  /\ saving' = Freed({c})
  /\ payload' = [payload EXCEPT ![c] = NoData]
  /\ runs' = [runs EXCEPT ![c] = 0]
  /\ UNCHANGED <<amount, shown, ignored, unsure>>

Saved(c) ==
  /\ call[c].at = "ok" /\ call[c].kind \in Form
  /\ call' = [call EXCEPT ![c] = [NoCall EXCEPT !.kind = "load", !.at = "sent", !.token = access]]
  /\ ignored' = ignored \cup Loading
  /\ saving' = Freed(Loading)
  /\ payload' = [payload EXCEPT ![c] = NoData]
  /\ runs' = [runs EXCEPT ![c] = 0]
  /\ UNCHANGED <<key, cookie, url, ready, access, refreshing, exchange, tangled, leftover,
                 amount, shown, unsure>>

\* The lines of an answer replace the copy; a form that waited for them is closed.
Loaded(c) ==
  /\ call[c].kind = "load"
  /\ Answer(c)
  /\ IF c \in ignored
       THEN ignored' = ignored \ {c} /\ UNCHANGED <<shown, saving>>
       ELSE /\ shown' = payload[c].lines
            /\ saving' = Freed({c})
            /\ UNCHANGED ignored
  /\ payload' = [payload EXCEPT ![c] = NoData]
  /\ UNCHANGED <<amount, runs, unsure>>

BadFailed(c) ==
  /\ call[c].at \in {"sent", "ok"} /\ call[c].kind # "logout"
  /\ call' = [call EXCEPT ![c].at = "sent"]
  /\ UNCHANGED <<key, cookie, url, ready, access, refreshing, exchange, tangled, leftover, editor>>

\* A save that failed shows its error and nothing is loaded; a load that failed leaves the
\* old copy on the page, and closes the form all the same.
Failed(c) ==
  /\ Fail(c)
  /\ saving' = Freed({c})
  /\ ignored' = ignored \ {c}
  /\ unsure' = (unsure \/ (call[c].kind = "load" /\ c \notin ignored /\ shown # None)
                       \/ (call[c].kind \in Form /\ call[c].at = "ok"))
  /\ payload' = [payload EXCEPT ![c] = NoData]
  /\ runs' = [runs EXCEPT ![c] = 0]
  /\ UNCHANGED <<amount, shown>>

\* The page is gone with its copy and its forms.
Gone ==
  /\ shown' = None
  /\ payload' = [c \in Call |-> NoData]
  /\ saving' = [f \in Form |-> None]
  /\ ignored' = {}
  /\ runs' = [c \in Call |-> 0]
  /\ unsure' = FALSE
  /\ UNCHANGED amount

------------------------------------------------------------------------------
(* The server.                                                              *)

\* updateLines: every line that is sent gets the amount that is sent.
Save(c) ==
  /\ call[c].kind \in Form
  /\ Accept(c)
  /\ runs' = [runs EXCEPT ![c] = @ + 1]
  /\ amount' = payload[c].lines
  /\ UNCHANGED <<shown, payload, saving, ignored, unsure>>

Read(c) ==
  /\ call[c].kind = "load"
  /\ Accept(c)
  /\ payload' = [payload EXCEPT ![c].lines = amount]
  /\ UNCHANGED <<amount, shown, saving, ignored, runs, unsure>>

------------------------------------------------------------------------------
PageStep(c) ==
  \/ Load(c)
  \/ \E l \in Line, a \in Amount : EditLine(c, l, a)
  \/ DuplicateLine(c)
  \/ Invalidated(c)
  \/ (Send(c, "login") \/ Send(c, "logout")) /\ UNCHANGED editor

Serve(c) ==
  \/ Save(c)
  \/ Read(c)
  \/ (AcceptLogin(c) \/ AcceptLogout(c) \/ FailLogout(c) \/ Refuse(c)) /\ UNCHANGED editor

Settle(c) ==
  \/ Saved(c)
  \/ Loaded(c)
  \/ Failed(c)
  \/ SignedIn(c) /\ UNCHANGED editor
  \/ SignedOut(c) /\ Gone

Unauthorized(c) ==
  \/ (Wait(c) \/ Lead(c)) /\ UNCHANGED editor
  \/ GiveUp(c) /\ Gone

Refresh(k) == (Verify(k) \/ Store(k)) /\ UNCHANGED editor

Refreshed ==
  \/ (Renew \/ Booted \/ NotBooted) /\ UNCHANGED editor
  \/ NotRenewed /\ Gone

Around ==
  \/ (Expire \/ OtherBoots \/ OtherAnswered) /\ UNCHANGED editor
  \/ (Reload \/ OpenApp) /\ Gone

Next ==
  \/ \E c \in Call : PageStep(c) \/ Serve(c) \/ Settle(c) \/ Unauthorized(c)
  \/ \E k \in Source : Refresh(k)
  \/ Boot /\ UNCHANGED editor
  \/ Refreshed
  \/ Around

Spec == Init /\ [][Next]_vars

\* The server answers or the client stops waiting, and the code of the page runs.
FairSpec ==
  /\ Spec
  /\ \A c \in Call : WF_vars(Serve(c) \/ Settle(c)) /\ WF_vars(Unauthorized(c))
  /\ WF_vars(Refresh("own") \/ Refreshed) /\ WF_vars(Boot /\ UNCHANGED editor)

------------------------------------------------------------------------------
(* What must hold.                                                          *)

\* However often a call is refused, waits and is sent again, its save runs at most once:
\* the client repeats only what the server refused before it did anything (client.ts:77-150).
SavedOnce == \A c \in Call : runs[c] <= 1

\* A save of this page changes no line but its own, although it sends the whole copy back:
\* the copy is loaded again before the form is free (BudgetDetailPage.tsx:452-496), and other
\* invalidations in between do no harm.  A page that lost an answer, saved two forms at once
\* or had the load after a save cancelled (AppLayout.tsx:71) is not protected.
OwnEditsSurvive ==
  [][\A c \in Call, l \in Line :
       runs'[c] > runs[c] /\ ~unsure /\ l # payload[c].line
         => amount'[l] = amount[l]]_vars

\* Every call of the page is answered or rejected, or its page is gone: none stays in
\* pendingRequests (client.ts:36-52, 95-110).
EverySettles == \A c \in Call : call[c] # NoCall ~> call[c] = NoCall
==============================================================================
