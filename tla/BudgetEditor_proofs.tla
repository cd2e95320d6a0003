------------------------ MODULE BudgetEditor_proofs ------------------------
(***************************************************************************)
(* The invariants of WebClient and BudgetEditor, for any number of calls   *)
(* in flight, any lines and any amounts.  The first part is the session:   *)
(* which of the server and the browser is ahead of the other at each stage *)
(* of a refresh, a login or a logout, as long as no two of them overlap.   *)
(* The second is the page: which of the database and the copy it shows is  *)
(* ahead, and which load brings them together.                             *)
(***************************************************************************)
EXTENDS BudgetEditor, TLAPS

ClientTyped ==
  /\ key \in BOOLEAN
  /\ cookie \in Token
  /\ url \in {"login", "app"}
  /\ ready \in BOOLEAN
  /\ access \in Access
  /\ refreshing \in BOOLEAN
  /\ call \in [Call -> CallState]
  /\ exchange \in [Source -> ExchangeState]
  /\ tangled \in BOOLEAN
  /\ leftover \in BOOLEAN

\* A page that is being loaded has no calls, and a login is on the login page, alone.
PageCalls ==
  /\ ~ready => \A c \in Call : call[c] = NoCall
  /\ \A c \in Call : call[c].kind = "login" =>
       /\ ready /\ url = "login"
       /\ \A d \in Call \ {c} : call[d] = NoCall

Sync == cookie = IF key /\ ~leftover THEN "current" ELSE "none"

\* How far the browser is behind the server while a refresh is served.
ExchangeSync(k) ==
  /\ exchange[k].at \in {"sent", "verified", "refused"} => Sync
  /\ exchange[k].at = "stored" => key /\ exchange[k].token = "current"

\* And while the answer of a login or a logout is on its way.
SignedSync(c) ==
  /\ call[c].at = "ok" /\ call[c].kind = "login" => key /\ call[c].issued = "current"
  /\ call[c].at = "ok" /\ call[c].kind = "logout" => ~key

\* Without a disturbance, at most one of them is under way at a time.
Tokens ==
  ~tangled =>
    /\ ~(InFlight("own") /\ InFlight("other"))
    /\ ~(Exchanging /\ SignedBlind)
    /\ \A k \in Source : ExchangeSync(k)
    /\ \A c \in Call : SignedSync(c)
    /\ ~Exchanging /\ ~SignedBlind => Sync

ClientInv == ClientTyped /\ PageCalls /\ Tokens

EditorTyped ==
  /\ amount \in Lines
  /\ shown \in Lines \cup {None}
  /\ payload \in [Call -> [lines : Lines \cup {None}, line : Line \cup {None}]]
  /\ saving \in [Form -> Call \cup {None}]
  /\ ignored \subseteq Call
  /\ runs \in [Call -> 0 .. 2]
  /\ unsure \in BOOLEAN

\* A form waits for its save and then for the load that follows it; a load that is cancelled
\* is waited for by nobody, and all but one are.
Waiting ==
  /\ \A c, d \in Loading : c = d
  /\ \A c \in ignored : call[c].kind = "load"
  /\ \A c \in Call : call[c].kind \in Form => saving[call[c].kind] = c
  /\ \A f \in Form : saving[f] # None => call[saving[f]].kind = f \/ saving[f] \in Loading

\* What the calls carry; a save that ran is answered before it can be sent again.
Carried ==
  /\ \A c \in Call : call[c].kind \in Form => payload[c].lines \in Lines
  /\ \A c \in Call : call[c].kind = "load" /\ call[c].at = "ok" => payload[c].lines \in Lines
  /\ \A c \in Call : runs[c] = 0 \/ (runs[c] = 1 /\ call[c].kind \in Form /\ call[c].at = "ok")

\* A form that waits for nothing that is already in the database.
Unsaved(f) == saving[f] = None \/ (call[saving[f]].kind = f /\ call[saving[f]].at # "ok")

\* No save has run whose answer is still on its way.
NoneSaved == \A c \in Call : call[c].kind \in Form => call[c].at # "ok"

\* On a page that lost no answer and never saved two forms at once, the copy that is shown,
\* the copy that is loaded and the one that is sent differ from the database in nothing but
\* the line that is edited.
Copies ==
  ~unsure =>
    /\ saving["edit"] = None \/ saving["add"] = None
    /\ \A c \in Call : call[c].kind \in Form => shown # None
    /\ \A c \in Loading : call[c].at = "ok" /\ NoneSaved => payload[c].lines = amount
    /\ shown # None /\ (\A f \in Form : Unsaved(f)) => shown = amount
    /\ \A c \in Call, l \in Line :
         call[c].kind \in Form /\ call[c].at # "ok" /\ l # payload[c].line => payload[c].lines[l] = amount[l]

EditorInv == EditorTyped /\ Waiting /\ Carried /\ Copies

\* The inductive invariant.
Inv == ClientInv /\ EditorInv

(***************************************************************************)
(* The session of the tab.                                                 *)
(***************************************************************************)

Signed(c) == call[c].kind \in {"login", "logout"} /\ call[c].at = "ok"

\* Records of calls and refreshes with some fields set.
LEMMA NoCallType == NoCall \in CallState /\ NoExchange \in ExchangeState
BY DEF NoCall, CallState, Kind, Stage, Access, Token, NoExchange, ExchangeState

LEMMA CallFields ==
  ASSUME NEW x \in CallState, NEW at \in Stage
  PROVE  /\ [x EXCEPT !.at = at] \in CallState
         /\ [x EXCEPT !.at = at].at = at
         /\ [x EXCEPT !.at = at].kind = x.kind
         /\ [x EXCEPT !.at = at].issued = x.issued
BY DEF CallState

LEMMA OutdatedType == \A t \in Token : Outdated(t) \in Token
BY DEF Outdated, Token

\* What was issued before is outdated; nothing else about a call or a refresh changes.
LEMMA OutdatingEffect ==
  ASSUME ClientTyped
  PROVE  /\ Outdating \in [Source -> ExchangeState]
         /\ \A k \in Source : Outdating[k].at = exchange[k].at
         /\ OutdatedCalls \in [Call -> CallState]
         /\ \A c \in Call : /\ OutdatedCalls[c].at = call[c].at
                            /\ OutdatedCalls[c].kind = call[c].kind
                            /\ call[c] = NoCall => OutdatedCalls[c] = NoCall
<1>1. \A k \in Source : exchange[k] \in ExchangeState /\ Outdated(exchange[k].token) \in Token
  BY OutdatedType DEF ClientTyped, ExchangeState
<1>2. \A c \in Call : call[c] \in CallState /\ Outdated(call[c].issued) \in Token
  BY OutdatedType DEF ClientTyped, CallState
<1>3. ASSUME NEW k \in Source
      PROVE  /\ Outdating[k] = [exchange[k] EXCEPT !.token = Outdated(exchange[k].token)]
             /\ Outdating[k] \in ExchangeState
             /\ Outdating[k].at = exchange[k].at
  BY <1>1 DEF Outdating, ExchangeState
<1>4. ASSUME NEW c \in Call
      PROVE  /\ OutdatedCalls[c] \in CallState
             /\ OutdatedCalls[c].at = call[c].at
             /\ OutdatedCalls[c].kind = call[c].kind
             /\ call[c] = NoCall => OutdatedCalls[c] = NoCall
  <2>1. OutdatedCalls[c] = [call[c] EXCEPT !.issued = Outdated(call[c].issued)]
    BY DEF OutdatedCalls
  <2>2. call[c] = NoCall => OutdatedCalls[c] = NoCall
    BY <2>1 DEF NoCall, Outdated
  <2> QED BY <1>2, <2>1, <2>2 DEF CallState
<1> QED BY <1>3, <1>4 DEF Outdating, OutdatedCalls

\* A step that leaves the tokens, the refreshes and the answers of logins and logouts alone.
LEMMA QuietKeeps ==
  ASSUME ClientInv, ClientTyped', PageCalls', UNCHANGED <<key, cookie, exchange, tangled, leftover>>,
         \A c \in Call : (Signed(c)' <=> Signed(c))
                         /\ (Signed(c) => call'[c].kind = call[c].kind /\ call'[c].issued = call[c].issued)
  PROVE  ClientInv'
<1>1. (SignedBlind' <=> SignedBlind) /\ (Exchanging' <=> Exchanging) /\ (Sync' <=> Sync)
  BY DEF SignedBlind, Signed, Exchanging, InFlight, Sync
<1>2. \A k \in Source : (InFlight(k)' <=> InFlight(k)) /\ (ExchangeSync(k)' <=> ExchangeSync(k))
  BY <1>1 DEF InFlight, ExchangeSync
<1>3. \A c \in Call : SignedSync(c) => SignedSync(c)'
  BY DEF SignedSync, Signed
<1> QED BY <1>1, <1>2, <1>3 DEF ClientInv, Tokens, Source

LEMMA SendKeeps ==
  ASSUME ClientInv, NEW c \in Call, NEW kind \in Kind \ {"none"}, Send(c, kind)
  PROVE  ClientInv'
<1> DEFINE sent == [NoCall EXCEPT !.kind = kind, !.at = "sent", !.token = access]
<1>1. call[c] = NoCall /\ call' = [call EXCEPT ![c] = sent]
      /\ UNCHANGED <<key, cookie, url, ready, access, refreshing, exchange, tangled, leftover>>
  BY DEF Send
<1>2. sent \in CallState /\ sent.at = "sent" /\ sent.kind = kind
  BY NoCallType DEF ClientInv, ClientTyped, CallState, Stage
<1> HIDE DEF sent
<1>3. call'[c] = sent /\ \A d \in Call \ {c} : call'[d] = call[d]
  BY <1>1 DEF ClientInv, ClientTyped
<1>4. ClientTyped'
  BY <1>1, <1>2 DEF ClientInv, ClientTyped
<1>5. PageCalls'
  <2>1. CASE kind = "login"
    <3>1. ready /\ url = "login" /\ \A d \in Call : call[d] = NoCall
      BY <2>1 DEF Send
    <3>2. NoCall.kind = "none"
      BY DEF NoCall
    <3> QED BY <1>1, <1>3, <3>1, <3>2 DEF PageCalls
  <2>2. CASE kind # "login"
    <3>1. ready /\ url = "app"
      BY <2>2 DEF Send, InApp
    <3>2. \A d \in Call : call[d].kind # "login"
      BY <3>1 DEF ClientInv, PageCalls
    <3> QED BY <1>1, <1>2, <1>3, <2>2, <3>1, <3>2 DEF PageCalls
  <2> QED BY <2>1, <2>2
<1>6. \A d \in Call : (Signed(d)' <=> Signed(d))
                      /\ (Signed(d) => call'[d].kind = call[d].kind /\ call'[d].issued = call[d].issued)
  BY <1>1, <1>2, <1>3 DEF Signed, NoCall
<1> QED BY <1>1, <1>4, <1>5, <1>6, QuietKeeps

\* A step that moves a call from one stage to another, none of them the answer of a login or
\* a logout.
LEMMA MoveKeeps ==
  ASSUME ClientInv, NEW c \in Call, call[c] # NoCall, NEW x \in CallState, call' = [call EXCEPT ![c] = x],
         x.kind = call[c].kind, x.kind \in {"login", "logout"} => call[c].at # "ok" /\ x.at # "ok",
         UNCHANGED <<key, cookie, url, ready, access, refreshing, exchange, tangled, leftover>>
  PROVE  ClientInv'
<1>1. call'[c] = x /\ \A d \in Call \ {c} : call'[d] = call[d]
  BY DEF ClientInv, ClientTyped
<1>2. ClientTyped'
  BY DEF ClientInv, ClientTyped
<1>3. PageCalls'
  BY <1>1 DEF ClientInv, PageCalls
<1>4. \A d \in Call : (Signed(d)' <=> Signed(d))
                      /\ (Signed(d) => call'[d].kind = call[d].kind /\ call'[d].issued = call[d].issued)
  BY <1>1 DEF Signed
<1> QED BY <1>2, <1>3, <1>4, QuietKeeps

\* A step that takes away a call which is not the answer of a login or a logout.
LEMMA DropKeeps ==
  ASSUME ClientInv, NEW c \in Call, ~Signed(c), call' = [call EXCEPT ![c] = NoCall],
         UNCHANGED <<key, cookie, url, ready, access, refreshing, exchange, tangled, leftover>>
  PROVE  ClientInv'
<1>1. call'[c] = NoCall /\ \A d \in Call \ {c} : call'[d] = call[d]
  BY DEF ClientInv, ClientTyped
<1>2. ClientTyped'
  BY NoCallType DEF ClientInv, ClientTyped
<1>3. PageCalls'
  BY <1>1 DEF ClientInv, PageCalls, NoCall
<1>4. \A d \in Call : (Signed(d)' <=> Signed(d))
                      /\ (Signed(d) => call'[d].kind = call[d].kind /\ call'[d].issued = call[d].issued)
  BY <1>1 DEF Signed, NoCall
<1> QED BY <1>2, <1>3, <1>4, QuietKeeps

LEMMA AcceptKeeps == ASSUME ClientInv, NEW c \in Call, Accept(c) PROVE ClientInv'
<1>1. call[c] \in CallState /\ "ok" \in Stage /\ call[c] # NoCall
  BY DEF ClientInv, ClientTyped, Stage, Accept, NoCall
<1>2. call' = [call EXCEPT ![c] = [call[c] EXCEPT !.at = "ok"]]
  BY DEF Accept
<1>3. /\ call[c].kind \notin {"login", "logout"}
      /\ UNCHANGED <<key, cookie, url, ready, access, refreshing, exchange, tangled, leftover>>
  BY DEF Accept
<1> QED BY <1>1, <1>2, <1>3, CallFields, MoveKeeps

LEMMA RefuseKeeps == ASSUME ClientInv, NEW c \in Call, Refuse(c) PROVE ClientInv'
<1>1. call[c] \in CallState /\ "refused" \in Stage /\ call[c] # NoCall
  BY DEF ClientInv, ClientTyped, Stage, Refuse, NoCall
<1>2. call' = [call EXCEPT ![c] = [call[c] EXCEPT !.at = "refused"]]
  BY DEF Refuse
<1>3. call[c].at = "sent" /\ UNCHANGED <<key, cookie, url, ready, access, refreshing, exchange, tangled, leftover>>
  BY DEF Refuse
<1>4. [call[c] EXCEPT !.at = "refused"].at = "refused"
  BY <1>1, CallFields
<1> QED BY <1>1, <1>2, <1>3, <1>4, CallFields, MoveKeeps

LEMMA FailLogoutKeeps == ASSUME ClientInv, NEW c \in Call, FailLogout(c) PROVE ClientInv'
<1>1. call[c] \in CallState /\ "failed" \in Stage /\ call[c] # NoCall
  BY DEF ClientInv, ClientTyped, Stage, FailLogout, NoCall
<1>2. call' = [call EXCEPT ![c] = [call[c] EXCEPT !.at = "failed"]]
  BY DEF FailLogout
<1>3. call[c].at = "sent" /\ UNCHANGED <<key, cookie, url, ready, access, refreshing, exchange, tangled, leftover>>
  BY DEF FailLogout
<1>4. [call[c] EXCEPT !.at = "failed"].at = "failed"
  BY <1>1, CallFields
<1> QED BY <1>1, <1>2, <1>3, <1>4, CallFields, MoveKeeps

LEMMA WaitKeeps == ASSUME ClientInv, NEW c \in Call, Wait(c) PROVE ClientInv'
<1>1. call[c] \in CallState /\ "waiting" \in Stage /\ call[c] # NoCall
  BY DEF ClientInv, ClientTyped, Stage, Wait, NoCall
<1>2. call' = [call EXCEPT ![c] = [call[c] EXCEPT !.at = "waiting"]]
  BY DEF Wait
<1>3. call[c].at = "refused" /\ UNCHANGED <<key, cookie, url, ready, access, refreshing, exchange, tangled, leftover>>
  BY DEF Wait
<1>4. [call[c] EXCEPT !.at = "waiting"].at = "waiting"
  BY <1>1, CallFields
<1> QED BY <1>1, <1>2, <1>3, <1>4, CallFields, MoveKeeps

LEMMA AnswerKeeps == ASSUME ClientInv, NEW c \in Call, Answer(c) PROVE ClientInv'
BY DropKeeps DEF Answer, Signed

\* A login or a save that failed; a login whose answer was lost leaves the browser behind.
LEMMA FailKeeps == ASSUME ClientInv, NEW c \in Call, Fail(c) PROVE ClientInv'
<1>1. CASE ~Signed(c)
  <2>1. tangled' = tangled
    BY <1>1 DEF Fail, Signed, ClientInv, ClientTyped
  <2> QED BY <1>1, <2>1, DropKeeps DEF Fail
<1>2. CASE Signed(c)
  <2>1. tangled' = TRUE
    BY <1>2 DEF Fail, Signed
  <2>2. call'[c] = NoCall /\ \A d \in Call \ {c} : call'[d] = call[d]
    BY DEF Fail, ClientInv, ClientTyped
  <2>3. ClientTyped'
    BY <2>1, NoCallType DEF Fail, ClientInv, ClientTyped
  <2>4. PageCalls'
    BY <2>2 DEF Fail, ClientInv, PageCalls, NoCall
  <2> QED BY <2>1, <2>3, <2>4 DEF ClientInv, Tokens
<1> QED BY <1>1, <1>2

\* The token of the store expires, and with it those of the calls.
LEMMA ExpireKeeps == ASSUME ClientInv, Expire PROVE ClientInv'
<1> DEFINE expired(c) == IF call[c].token = "good" THEN "old" ELSE call[c].token
<1>1. /\ call' = [c \in Call |-> [call[c] EXCEPT !.token = expired(c)]]
      /\ access' = "old"
      /\ UNCHANGED <<key, cookie, url, ready, refreshing, exchange, tangled, leftover>>
  BY DEF Expire
<1>2. ASSUME NEW c \in Call
      PROVE  /\ call'[c] \in CallState
             /\ call'[c].kind = call[c].kind /\ call'[c].at = call[c].at /\ call'[c].issued = call[c].issued
             /\ call[c] = NoCall => call'[c] = NoCall
  <2>1. call[c] \in CallState /\ expired(c) \in Access
    BY DEF ClientInv, ClientTyped, CallState, Access
  <2>2. call'[c] = [call[c] EXCEPT !.token = expired(c)]
    BY <1>1
  <2>3. call[c] = NoCall => call'[c] = NoCall
    BY <2>2 DEF NoCall
  <2> HIDE DEF expired
  <2> QED BY <2>1, <2>2, <2>3 DEF CallState
<1>3. ClientTyped'
  BY <1>1, <1>2 DEF ClientInv, ClientTyped, Access
<1>4. PageCalls'
  BY <1>1, <1>2 DEF ClientInv, PageCalls
<1>5. \A d \in Call : (Signed(d)' <=> Signed(d))
                      /\ (Signed(d) => call'[d].kind = call[d].kind /\ call'[d].issued = call[d].issued)
  BY <1>2 DEF Signed
<1> QED BY <1>1, <1>3, <1>4, <1>5, QuietKeeps

\* A login leaves the server ahead, alone unless a refresh was under way.
LEMMA AcceptLoginKeeps == ASSUME ClientInv, NEW c \in Call, AcceptLogin(c) PROVE ClientInv'
<1> DEFINE given == [OutdatedCalls[c] EXCEPT !.at = "ok", !.issued = "current"]
<1>1. /\ call[c].kind = "login" /\ call[c].at = "sent"
      /\ key' = TRUE /\ cookie' = Outdated(cookie) /\ exchange' = Outdating /\ tangled' = Exchanging
      /\ UNCHANGED <<url, ready, access, refreshing, leftover>>
  BY DEF AcceptLogin
<1>2. call' = [OutdatedCalls EXCEPT ![c] = given]
  BY DEF AcceptLogin
<1>3. given \in CallState /\ given.kind = "login" /\ given.at = "ok" /\ given.issued = "current"
  BY <1>1, OutdatingEffect DEF ClientInv, CallState, Stage, Token
<1> HIDE DEF given
<1>4. call' \in [Call -> CallState] /\ call'[c] = given /\ \A d \in Call \ {c} : call'[d] = OutdatedCalls[d]
  BY <1>2, <1>3, OutdatingEffect DEF ClientInv
<1>5. \A d \in Call \ {c} : call'[d] = NoCall
  BY <1>1, <1>4, OutdatingEffect DEF ClientInv, PageCalls
<1>6. (\A k \in Source : InFlight(k)' <=> InFlight(k)) /\ (Exchanging' <=> Exchanging)
  BY <1>1, OutdatingEffect DEF ClientInv, InFlight, Exchanging
<1>7. ClientTyped'
  <2>1. tangled' \in BOOLEAN /\ key' \in BOOLEAN
    BY <1>1 DEF Exchanging
  <2>2. cookie' \in Token
    BY <1>1, OutdatedType DEF ClientInv, ClientTyped
  <2> QED BY <1>1, <1>4, <2>1, <2>2, OutdatingEffect DEF ClientInv, ClientTyped
<1>8. PageCalls'
  BY <1>1, <1>3, <1>4, <1>5 DEF ClientInv, PageCalls, NoCall
<1>9. Tokens'
  <2> SUFFICES ASSUME ~tangled' PROVE Tokens'
    BY DEF Tokens
  <2>1. ~Exchanging'
    BY <1>1, <1>6
  <2>2. SignedBlind'
    BY <1>3, <1>4 DEF SignedBlind
  <2>3. \A d \in Call : SignedSync(d)'
    BY <1>1, <1>3, <1>4, <1>5 DEF SignedSync, NoCall
  <2>4. \A k \in Source : exchange'[k].at = "idle"
    BY <2>1 DEF Exchanging, InFlight
  <2> QED BY <2>1, <2>2, <2>3, <2>4 DEF Tokens, ExchangeSync, InFlight, Source
<1> QED BY <1>7, <1>8, <1>9 DEF ClientInv

\* So does a logout.
LEMMA AcceptLogoutKeeps == ASSUME ClientInv, NEW c \in Call, AcceptLogout(c) PROVE ClientInv'
<1> DEFINE given == [OutdatedCalls[c] EXCEPT !.at = "ok"]
<1>1. /\ call[c].kind = "logout" /\ call[c].at = "sent"
      /\ key' = FALSE /\ cookie' = Outdated(cookie) /\ exchange' = Outdating
      /\ tangled' = (tangled \/ Exchanging)
      /\ UNCHANGED <<url, ready, access, refreshing, leftover>>
  BY DEF AcceptLogout
<1>2. call' = [OutdatedCalls EXCEPT ![c] = given]
  BY DEF AcceptLogout
<1>3. given \in CallState /\ given.kind = "logout" /\ given.at = "ok"
  <2>1. OutdatedCalls[c] \in CallState /\ OutdatedCalls[c].kind = "logout" /\ "ok" \in Stage
    BY <1>1, OutdatingEffect DEF ClientInv, Stage
  <2> QED BY <2>1, CallFields
<1> HIDE DEF given
<1>4. call' \in [Call -> CallState] /\ call'[c] = given /\ \A d \in Call \ {c} : call'[d] = OutdatedCalls[d]
  BY <1>2, <1>3, OutdatingEffect DEF ClientInv
<1>5. \A d \in Call : d # c => call'[d].kind = call[d].kind /\ (call[d] = NoCall => call'[d] = NoCall)
  BY <1>4, OutdatingEffect DEF ClientInv
<1>6. (\A k \in Source : InFlight(k)' <=> InFlight(k)) /\ (Exchanging' <=> Exchanging)
  BY <1>1, OutdatingEffect DEF ClientInv, InFlight, Exchanging
<1>7. call[c] # NoCall /\ \A d \in Call : call[d].kind # "login"
  BY <1>1 DEF ClientInv, PageCalls, NoCall
<1>8. ClientTyped'
  <2>1. tangled' \in BOOLEAN /\ key' \in BOOLEAN
    BY <1>1 DEF ClientInv, ClientTyped, Exchanging
  <2>2. cookie' \in Token
    BY <1>1, OutdatedType DEF ClientInv, ClientTyped
  <2> QED BY <1>1, <1>4, <2>1, <2>2, OutdatingEffect DEF ClientInv, ClientTyped
<1>9. \A d \in Call : call'[d].kind # "login"
  BY <1>3, <1>4, <1>5, <1>7
<1>10. PageCalls'
  BY <1>1, <1>7, <1>9 DEF ClientInv, PageCalls
<1>11. Tokens'
  <2> SUFFICES ASSUME ~tangled' PROVE Tokens'
    BY DEF Tokens
  <2>1. ~Exchanging'
    BY <1>1, <1>6
  <2>2. SignedBlind'
    BY <1>3, <1>4 DEF SignedBlind
  <2>3. \A d \in Call : SignedSync(d)'
    BY <1>1, <1>9 DEF SignedSync
  <2>4. \A k \in Source : exchange'[k].at = "idle"
    BY <2>1 DEF Exchanging, InFlight
  <2> QED BY <2>1, <2>2, <2>3, <2>4 DEF Tokens, ExchangeSync, InFlight, Source
<1> QED BY <1>8, <1>10, <1>11 DEF ClientInv

\* The browser stores the token of its login.
LEMMA SignedInKeeps == ASSUME ClientInv, NEW c \in Call, SignedIn(c) PROVE ClientInv'
<1>1. /\ call[c].at = "ok" /\ call[c].kind = "login"
      /\ cookie' = call[c].issued /\ ~leftover' /\ leftover' \in BOOLEAN /\ access' = "good" /\ url' = "app"
      /\ call' = [call EXCEPT ![c] = NoCall]
      /\ UNCHANGED <<key, ready, refreshing, exchange, tangled>>
  BY DEF SignedIn
<1>2. \A d \in Call : call'[d] = NoCall
  BY <1>1 DEF ClientInv, ClientTyped, PageCalls
<1>3. ClientTyped'
  <2>1. call[c].issued \in Token
    BY DEF ClientInv, ClientTyped, CallState
  <2> QED BY <1>1, <2>1, NoCallType DEF ClientInv, ClientTyped, Access
<1>4. PageCalls'
  BY <1>2 DEF PageCalls, NoCall
<1>5. Tokens'
  <2> SUFFICES ASSUME ~tangled' PROVE Tokens'
    BY DEF Tokens
  <2>1. SignedBlind /\ ~Exchanging
    BY <1>1 DEF ClientInv, Tokens, SignedBlind
  <2>2. key /\ call[c].issued = "current"
    BY <1>1 DEF ClientInv, Tokens, SignedSync
  <2>3. Sync' /\ ~Exchanging' /\ \A k \in Source : exchange'[k].at = "idle"
    BY <1>1, <2>1, <2>2 DEF Sync, Exchanging, InFlight
  <2>4. \A d \in Call : SignedSync(d)'
    BY <1>2 DEF SignedSync, NoCall
  <2> QED BY <2>3, <2>4 DEF Tokens, ExchangeSync, InFlight, Source
<1> QED BY <1>3, <1>4, <1>5 DEF ClientInv

\* A page that is loaded again; what becomes of its refresh is a disturbance, or it had none.
LEMMA UnloadTypes ==
  ASSUME ClientInv, NEW to \in {"login", "app"}, Unload(to), key' = key, cookie' \in Token, tangled' \in BOOLEAN,
         leftover' \in BOOLEAN
  PROVE  ClientTyped' /\ PageCalls' /\ ~SignedBlind' /\ \A c \in Call : SignedSync(c)'
<1>1. Abandoned \in [Source -> ExchangeState]
  <2>1. Ended("own") \in [Source -> ExchangeState]
    BY NoCallType DEF ClientInv, ClientTyped, Ended
  <2>2. exchange["own"] \in ExchangeState
    BY DEF ClientInv, ClientTyped, Source
  <2>3. [own |-> NoExchange, other |-> exchange["own"]] \in [Source -> ExchangeState]
    BY <2>2, NoCallType DEF Source
  <2> QED BY <2>1, <2>3 DEF Abandoned
<1>2. \A c \in Call : call'[c] = NoCall
  BY DEF Unload
<1> QED BY <1>1, <1>2, NoCallType
        DEF Unload, ClientInv, ClientTyped, PageCalls, SignedBlind, SignedSync, NoCall, Access

LEMMA UnloadKeeps ==
  ASSUME ClientInv, NEW to \in {"login", "app"}, Unload(to), key' = key, cookie' \in Token, leftover' \in BOOLEAN,
         tangled' \in BOOLEAN,
         ~tangled' => /\ ~tangled /\ ~InFlight("own")
                      /\ Sync' \/ (~SignedBlind /\ UNCHANGED <<cookie, leftover>>)
  PROVE  ClientInv'
<1>1. ClientTyped' /\ PageCalls' /\ ~SignedBlind' /\ \A c \in Call : SignedSync(c)'
  BY UnloadTypes DEF ClientInv, ClientTyped
<1>2. Tokens'
  <2> SUFFICES ASSUME ~tangled' PROVE Tokens'
    BY DEF Tokens
  <2>1. ~tangled /\ ~InFlight("own") /\ (Sync' \/ (~SignedBlind /\ UNCHANGED <<cookie, leftover>>))
    OBVIOUS
  <2>2. exchange'["own"] = NoExchange /\ NoExchange.at = "idle"
    BY NoCallType DEF Unload, Abandoned, Ended, NoExchange, ClientInv, ClientTyped, Source
  <2>3. exchange'["other"] = exchange["other"] \/ (exchange'["other"].at = "idle" /\ exchange["other"].at = "idle")
    BY <2>1 DEF Unload, Abandoned, Ended, InFlight, ClientInv, ClientTyped, Source
  <2>4. (Sync => Sync') /\ key' = key
    BY <2>1 DEF Sync
  <2>5. InFlight("other")' <=> InFlight("other")
    BY <2>3 DEF InFlight
  <2>6. ~InFlight("own")' /\ (Exchanging' <=> Exchanging)
    BY <2>1, <2>2, <2>5 DEF InFlight, Exchanging, Source
  <2>7. ExchangeSync("own")'
    BY <2>2 DEF ExchangeSync
  <2>8. ExchangeSync("other")'
    BY <2>1, <2>3, <2>4 DEF ClientInv, Tokens, ExchangeSync, Source
  <2>9. ~Exchanging' => Sync'
    BY <2>1, <2>4, <2>6 DEF ClientInv, Tokens
  <2> QED BY <1>1, <2>6, <2>7, <2>8, <2>9 DEF Tokens, Source
<1> QED BY <1>1, <1>2 DEF ClientInv

\* The tab logs out; without an answer only if the server may know nothing of it.
LEMMA SignedOutKeeps == ASSUME ClientInv, NEW c \in Call, SignedOut(c) PROVE ClientInv'
<1>1. Unload("login") /\ key' = key /\ call[c].kind = "logout"
  BY DEF SignedOut
<1>2. CASE call[c].at = "ok" /\ cookie' = "none" /\ leftover' = leftover /\ tangled' = (tangled \/ InFlight("own"))
  <2>1. tangled' \in BOOLEAN /\ cookie' \in Token /\ leftover' \in BOOLEAN
    BY <1>2 DEF ClientInv, ClientTyped, InFlight, Token
  <2>2. ClientTyped' /\ PageCalls' /\ ~SignedBlind' /\ \A d \in Call : SignedSync(d)'
    BY <1>1, <2>1, UnloadTypes
  <2>3. Tokens'
    <3> SUFFICES ASSUME ~tangled' PROVE Tokens'
      BY DEF Tokens
    <3>1. ~tangled /\ SignedBlind
      BY <1>1, <1>2 DEF SignedBlind
    <3>2. ~Exchanging /\ ~key
      BY <1>1, <1>2, <3>1 DEF ClientInv, Tokens, SignedSync
    <3>3. exchange["own"].at = "idle" /\ exchange["other"].at = "idle"
      BY <3>2 DEF Exchanging, InFlight, Source
    <3>4. exchange'["own"].at = "idle" /\ exchange'["other"].at = "idle"
      BY <1>1, <3>3 DEF Unload, Abandoned, Ended, NoExchange, InFlight, ClientInv, ClientTyped, Source
    <3>5. Sync'
      BY <1>1, <1>2, <3>2 DEF Sync
    <3> QED BY <2>2, <3>4, <3>5 DEF Tokens, ExchangeSync, Exchanging, InFlight, Source
  <2> QED BY <2>2, <2>3 DEF ClientInv
<1>3. CASE UNCHANGED <<cookie, leftover>> /\ tangled' = (tangled \/ InFlight("own") \/ SignedBlind)
  <2>1. tangled' \in BOOLEAN /\ cookie' \in Token /\ leftover' \in BOOLEAN
    BY <1>3 DEF ClientInv, ClientTyped, InFlight, SignedBlind
  <2> QED BY <1>1, <1>3, <2>1, UnloadKeeps
<1>4. CASE call[c].at = "failed" /\ cookie' = "none" /\ leftover' = TRUE /\ tangled' = (tangled \/ InFlight("own"))
  <2>1. tangled' \in BOOLEAN /\ cookie' \in Token /\ leftover' \in BOOLEAN
    BY <1>4 DEF ClientInv, ClientTyped, InFlight, Token
  <2>2. Sync'
    BY <1>4 DEF Sync
  <2> QED BY <1>1, <1>4, <2>1, <2>2, UnloadKeeps
<1>5. call[c].at \in {"sent", "ok", "failed"} /\ leftover \in BOOLEAN
  BY DEF SignedOut, ClientInv, ClientTyped
<1> QED BY <1>2, <1>3, <1>4, <1>5 DEF SignedOut

\* The tab gives its session up, or is loaded again.
LEMMA LeaveKeeps ==
  ASSUME ClientInv, NEW to \in {"login", "app"}, Unload(to), UNCHANGED <<key, cookie, leftover>>,
         tangled' = (tangled \/ InFlight("own") \/ Signing)
  PROVE  ClientInv'
<1>1. tangled' \in BOOLEAN /\ cookie' \in Token /\ leftover' \in BOOLEAN
  BY DEF ClientInv, ClientTyped, InFlight, Signing
<1>2. SignedBlind => Signing
  BY DEF SignedBlind, Signing
<1> QED BY <1>1, <1>2, UnloadKeeps

LEMMA GiveUpKeeps == ASSUME ClientInv, NEW c \in Call, GiveUp(c) PROVE ClientInv'
BY LeaveKeeps DEF GiveUp

LEMMA ReloadKeeps == ASSUME ClientInv, Reload PROVE ClientInv'
BY LeaveKeeps DEF Reload, ClientInv, ClientTyped

LEMMA OpenAppKeeps == ASSUME ClientInv, OpenApp PROVE ClientInv'
BY LeaveKeeps DEF OpenApp

\* A refresh begins where the browser and the server agree.
LEMMA StartKeeps ==
  ASSUME ClientInv, NEW k \in Source, ~InFlight(k), exchange' = Started(k), UNCHANGED <<key, cookie, leftover>>,
         ClientTyped', PageCalls', \A c \in Call : Signed(c)' => Signed(c),
         ~tangled' => ~tangled /\ ~Exchanging /\ ~SignedBlind
  PROVE  ClientInv'
<1> SUFFICES ASSUME ~tangled' PROVE Tokens'
  BY DEF ClientInv, Tokens
<1>1. ~Exchanging /\ ~SignedBlind /\ Sync /\ Sync'
  BY DEF ClientInv, Tokens, Sync
<1>2. exchange'[k].at = "sent" /\ exchange'[k].token = cookie /\ \A j \in Source \ {k} : exchange'[j] = exchange[j]
  BY DEF Started, ClientInv, ClientTyped
<1>3. \A j \in Source \ {k} : exchange'[j].at = "idle"
  BY <1>1, <1>2 DEF Exchanging, InFlight
<1>4. \A c \in Call : ~Signed(c) /\ ~Signed(c)'
  BY <1>1 DEF SignedBlind, Signed
<1>5. ~SignedBlind' /\ \A c \in Call : SignedSync(c)'
  BY <1>4 DEF SignedBlind, SignedSync, Signed
<1>6. \A j \in Source : ExchangeSync(j)'
  BY <1>1, <1>2, <1>3 DEF ExchangeSync
<1>7. Exchanging' /\ (~InFlight("own") \/ ~InFlight("other"))'
  BY <1>2, <1>3 DEF Exchanging, InFlight, Source
<1> QED BY <1>5, <1>6, <1>7 DEF Tokens

LEMMA StartedType ==
  ASSUME ClientTyped, NEW k \in Source
  PROVE  Started(k) \in [Source -> ExchangeState]
<1>1. [at |-> "sent", token |-> cookie] \in ExchangeState
  BY DEF ClientTyped, ExchangeState
<1> QED BY <1>1 DEF ClientTyped, Started

LEMMA LeadKeeps == ASSUME ClientInv, NEW c \in Call, Lead(c) PROVE ClientInv'
<1> DEFINE led == [call[c] EXCEPT !.at = "leading", !.retried = TRUE]
<1>1. /\ call[c].at = "refused" /\ ~InFlight("own")
      /\ call' = [call EXCEPT ![c] = led]
      /\ refreshing' = TRUE /\ exchange' = Started("own")
      /\ tangled' = (tangled \/ Exchanging \/ Signing)
      /\ UNCHANGED <<key, cookie, url, ready, access, leftover>>
  <2>1. call' = [call EXCEPT ![c].at = "leading", ![c].retried = TRUE]
    BY DEF Lead
  <2>2. call' = [call EXCEPT ![c] = led]
    BY <2>1 DEF ClientInv, ClientTyped, CallState
  <2> QED BY <2>2 DEF Lead
<1>2. led \in CallState /\ led.kind = call[c].kind /\ led.at = "leading"
  BY DEF ClientInv, ClientTyped, CallState, Stage
<1> HIDE DEF led
<1>3. call'[c] = led /\ \A d \in Call \ {c} : call'[d] = call[d]
  BY <1>1 DEF ClientInv, ClientTyped
<1>4. ClientTyped'
  <2>1. tangled' \in BOOLEAN
    BY <1>1 DEF ClientInv, ClientTyped, Exchanging, Signing
  <2> QED BY <1>1, <1>2, <2>1, StartedType DEF ClientInv, ClientTyped, Source
<1>5. PageCalls'
  <2>1. call[c] # NoCall
    BY <1>1 DEF NoCall
  <2> QED BY <1>1, <1>2, <1>3, <2>1 DEF ClientInv, PageCalls
<1>6. \A d \in Call : Signed(d)' => Signed(d)
  BY <1>2, <1>3 DEF Signed
<1>7. SignedBlind => Signing
  BY DEF SignedBlind, Signing
<1> QED BY <1>1, <1>4, <1>5, <1>6, <1>7, StartKeeps DEF Source

LEMMA BootKeeps == ASSUME ClientInv, Boot PROVE ClientInv'
<1>1. /\ ~ready /\ ~InFlight("own") /\ exchange' = Started("own")
      /\ tangled' = (tangled \/ Exchanging)
      /\ UNCHANGED <<key, cookie, url, ready, access, refreshing, call, leftover>>
  BY DEF Boot
<1>2. tangled' \in BOOLEAN
  BY <1>1 DEF ClientInv, ClientTyped, Exchanging
<1>3. ClientTyped'
  BY <1>1, <1>2, StartedType DEF ClientInv, ClientTyped, Source
<1>4. PageCalls' /\ ~SignedBlind
  BY <1>1 DEF ClientInv, PageCalls, SignedBlind, NoCall
<1>5. \A d \in Call : Signed(d)' => Signed(d)
  BY <1>1 DEF Signed
<1> QED BY <1>1, <1>3, <1>4, <1>5, StartKeeps DEF Source

LEMMA OtherBootsKeeps == ASSUME ClientInv, OtherBoots PROVE ClientInv'
<1>1. /\ ~InFlight("other") /\ exchange' = Started("other")
      /\ tangled' = (tangled \/ Exchanging \/ Signing)
      /\ UNCHANGED <<key, cookie, url, ready, access, refreshing, call, leftover>>
  BY DEF OtherBoots
<1>2. tangled' \in BOOLEAN
  BY <1>1 DEF ClientInv, ClientTyped, Exchanging, Signing
<1>3. ClientTyped'
  BY <1>1, <1>2, StartedType DEF ClientInv, ClientTyped, Source
<1>4. PageCalls'
  BY <1>1 DEF ClientInv, PageCalls
<1>5. \A d \in Call : Signed(d)' => Signed(d)
  BY <1>1 DEF Signed
<1>6. SignedBlind => Signing
  BY DEF SignedBlind, Signing
<1> QED BY <1>1, <1>3, <1>4, <1>5, <1>6, StartKeeps DEF Source

\* A refresh ends where they agree again.
LEMMA EndKeeps ==
  ASSUME ClientInv, NEW k \in Source, ClientTyped', PageCalls', \A c \in Call : Signed(c)' => Signed(c), key' = key,
         ~tangled' => /\ ~tangled /\ InFlight(k) /\ exchange' = Ended(k)
                      /\ \/ exchange[k].at = "stored" /\ cookie' = exchange[k].token /\ ~leftover'
                         \/ exchange[k].at = "refused" /\ UNCHANGED <<cookie, leftover>>
  PROVE  ClientInv'
<1> SUFFICES ASSUME ~tangled' PROVE Tokens'
  BY DEF ClientInv, Tokens
<1>1. ~SignedBlind /\ ExchangeSync(k)
  BY DEF ClientInv, Tokens, Exchanging
<1>2. Sync'
  BY <1>1 DEF ExchangeSync, Sync
<1>3. \A j \in Source \ {k} : exchange[j].at = "idle"
  BY DEF ClientInv, Tokens, InFlight, Source
<1>4. \A j \in Source : exchange'[j].at = "idle"
  BY <1>3 DEF Ended, NoExchange, ClientInv, ClientTyped
<1>5. \A c \in Call : ~Signed(c)'
  BY <1>1 DEF SignedBlind, Signed
<1>6. ~SignedBlind' /\ \A c \in Call : SignedSync(c)'
  BY <1>5 DEF SignedBlind, SignedSync, Signed
<1> QED BY <1>2, <1>4, <1>6 DEF Tokens, ExchangeSync, Exchanging, InFlight, Source

LEMMA EndedType ==
  ASSUME ClientTyped, NEW k \in Source
  PROVE  Ended(k) \in [Source -> ExchangeState] /\ exchange[k].token \in Token
BY NoCallType DEF ClientTyped, Ended, ExchangeState

\* The refresh answers, and the calls it held are sent again.
LEMMA RenewKeeps == ASSUME ClientInv, Renew PROVE ClientInv'
<1> DEFINE resent(c) == [call[c] EXCEPT !.at = "sent", !.token = "good", !.again = TRUE]
<1>1. /\ exchange["own"].at = "stored" /\ access' = "good" /\ cookie' = exchange["own"].token
      /\ leftover' = FALSE
      /\ refreshing' = FALSE /\ exchange' = Ended("own")
      /\ call' = [c \in Call |-> IF c \in Held THEN resent(c) ELSE call[c]]
      /\ UNCHANGED <<key, url, ready, tangled>>
  BY DEF Renew
<1>2. ASSUME NEW c \in Call
      PROVE  /\ call'[c] \in CallState /\ call'[c].kind = call[c].kind
             /\ Signed(c)' => Signed(c)
             /\ call[c] = NoCall => call'[c] = NoCall
  <2>1. call[c] \in CallState
    BY DEF ClientInv, ClientTyped
  <2>2. resent(c) \in CallState /\ resent(c).kind = call[c].kind /\ resent(c).at = "sent"
    BY <2>1 DEF CallState, Stage, Access
  <2>3. call[c] = NoCall => c \notin Held
    BY DEF NoCall, Held
  <2> HIDE DEF resent
  <2> QED BY <1>1, <2>1, <2>2, <2>3 DEF Signed
<1>3. ClientTyped'
  <2>1. call' \in [Call -> CallState]
    BY <1>1, <1>2
  <2> QED BY <1>1, <2>1, EndedType DEF ClientInv, ClientTyped, Source, Access
<1>4. PageCalls'
  BY <1>1, <1>2 DEF ClientInv, PageCalls
<1> QED BY <1>1, <1>2, <1>3, <1>4, EndKeeps DEF Source, InFlight

LEMMA BootedKeeps == ASSUME ClientInv, Booted PROVE ClientInv'
<1>1. /\ ~ready /\ exchange["own"].at = "stored" /\ cookie' = exchange["own"].token /\ exchange' = Ended("own")
      /\ access' = "good" /\ ready' = TRUE /\ leftover' = FALSE
      /\ UNCHANGED <<key, url, refreshing, call, tangled>>
  BY DEF Booted
<1>2. ClientTyped'
  BY <1>1, EndedType DEF ClientInv, ClientTyped, Source, Access
<1>3. PageCalls'
  BY <1>1 DEF ClientInv, PageCalls
<1>4. \A c \in Call : Signed(c)' => Signed(c)
  BY <1>1 DEF Signed
<1> QED BY <1>1, <1>2, <1>3, <1>4, EndKeeps DEF Source, InFlight

LEMMA NotBootedKeeps == ASSUME ClientInv, NotBooted PROVE ClientInv'
<1>1. /\ ~ready /\ InFlight("own") /\ exchange' = Ended("own") /\ ready' = TRUE /\ url' = "login"
      /\ tangled' = (tangled \/ exchange["own"].at # "refused")
      /\ UNCHANGED <<key, cookie, access, refreshing, call, leftover>>
  BY DEF NotBooted
<1>2. ClientTyped'
  <2>1. tangled' \in BOOLEAN
    BY <1>1 DEF ClientInv, ClientTyped
  <2> QED BY <1>1, <2>1, EndedType DEF ClientInv, ClientTyped, Source
<1>3. PageCalls'
  BY <1>1 DEF ClientInv, PageCalls, NoCall
<1>4. \A c \in Call : Signed(c)' => Signed(c)
  BY <1>1 DEF Signed
<1> QED BY <1>1, <1>2, <1>3, <1>4, EndKeeps DEF Source

\* The answer of a refresh nobody waits for changes the cookie of the browser all the same.
LEMMA OtherAnsweredKeeps == ASSUME ClientInv, OtherAnswered PROVE ClientInv'
<1>1. /\ InFlight("other") /\ exchange' = Ended("other")
      /\ UNCHANGED <<key, url, ready, access, refreshing, call>>
  BY DEF OtherAnswered
<1>2. \/ exchange["other"].at = "stored" /\ cookie' = exchange["other"].token /\ leftover' = FALSE /\ tangled' = tangled
      \/ UNCHANGED <<cookie, leftover>> /\ tangled' = (tangled \/ exchange["other"].at # "refused")
  BY DEF OtherAnswered
<1>3. ClientTyped'
  <2>1. tangled' \in BOOLEAN /\ cookie' \in Token /\ leftover' \in BOOLEAN
    BY <1>2, EndedType DEF ClientInv, ClientTyped, Source
  <2> QED BY <1>1, <2>1, EndedType DEF ClientInv, ClientTyped, Source
<1>4. PageCalls'
  BY <1>1 DEF ClientInv, PageCalls
<1>5. \A c \in Call : Signed(c)' => Signed(c)
  BY <1>1 DEF Signed
<1>6. ~tangled' => /\ ~tangled
                   /\ \/ exchange["other"].at = "stored" /\ cookie' = exchange["other"].token /\ ~leftover'
                      \/ exchange["other"].at = "refused" /\ UNCHANGED <<cookie, leftover>>
  BY <1>2
<1>7. "other" \in Source
  BY DEF Source
<1> QED BY <1>1, <1>3, <1>4, <1>5, <1>6, <1>7, EndKeeps

\* The refresh of a running tab is refused or lost, and its session with it.
LEMMA NotRenewedKeeps == ASSUME ClientInv, NotRenewed PROVE ClientInv'
<1>1. InFlight("own") /\ Unload("login") /\ UNCHANGED <<key, cookie, leftover>>
  BY DEF NotRenewed
<1>2. \/ exchange["own"].at = "refused" /\ tangled' = (tangled \/ Signing)
      \/ tangled' = TRUE
  BY DEF NotRenewed
<1>3. tangled' \in BOOLEAN
  BY <1>2 DEF ClientInv, ClientTyped, Signing
<1>4. ClientTyped' /\ PageCalls'
  BY <1>1, <1>3, UnloadTypes DEF ClientInv, ClientTyped
<1>5. \A c \in Call : Signed(c)' => Signed(c)
  BY <1>1 DEF Unload, Signed, NoCall
<1>6. ~tangled' => exchange["own"].at = "refused" /\ ~tangled
  BY <1>2
<1>7. exchange["own"].at = "refused" => exchange' = Ended("own")
  BY <1>1 DEF Unload, Abandoned
<1> QED BY <1>1, <1>4, <1>5, <1>6, <1>7, EndKeeps DEF Source

\* The server verifies the refresh token it was sent.
LEMMA VerifyKeeps == ASSUME ClientInv, NEW k \in Source, Verify(k) PROVE ClientInv'
<1> DEFINE stage == IF exchange[k].token = "current" THEN "verified" ELSE "refused"
<1>1. /\ exchange[k].at = "sent" /\ exchange' = [exchange EXCEPT ![k].at = stage]
      /\ UNCHANGED <<key, cookie, url, ready, access, refreshing, call, tangled, leftover>>
  BY DEF Verify
<1>2. exchange' \in [Source -> ExchangeState] /\ exchange'[k].at = stage
      /\ \A j \in Source \ {k} : exchange'[j] = exchange[j]
  BY <1>1 DEF ClientInv, ClientTyped, ExchangeState
<1>3. ClientTyped' /\ PageCalls'
  BY <1>1, <1>2 DEF ClientInv, ClientTyped, PageCalls
<1>4. Tokens'
  <2> SUFFICES ASSUME ~tangled' PROVE Tokens'
    BY DEF Tokens
  <2>1. ~tangled /\ Exchanging /\ ~SignedBlind /\ Sync
    BY <1>1 DEF ClientInv, Tokens, Exchanging, InFlight, ExchangeSync
  <2>2. ~SignedBlind' /\ Sync' /\ \A c \in Call : SignedSync(c)'
    BY <1>1, <2>1 DEF ClientInv, Tokens, SignedBlind, SignedSync, Sync
  <2>3. ExchangeSync(k)'
    BY <1>1, <1>2, <2>1, <2>2 DEF ExchangeSync, Sync
  <2>4. \A j \in Source \ {k} : exchange'[j].at = "idle"
    BY <1>1, <1>2, <2>1 DEF ClientInv, Tokens, InFlight, Source
  <2>5. \A j \in Source : ExchangeSync(j)'
    BY <2>3, <2>4 DEF ExchangeSync
  <2> QED BY <2>2, <2>4, <2>5 DEF Tokens, InFlight, Source
<1> QED BY <1>3, <1>4 DEF ClientInv

\* It replaces its own, and is ahead of the browser.
LEMMA StoreKeeps == ASSUME ClientInv, NEW k \in Source, Store(k) PROVE ClientInv'
<1>1. /\ exchange[k].at = "verified" /\ key' = TRUE /\ cookie' = Outdated(cookie)
      /\ exchange' = [Outdating EXCEPT ![k] = [at |-> "stored", token |-> "current"]]
      /\ call' = OutdatedCalls
      /\ UNCHANGED <<url, ready, access, refreshing, tangled, leftover>>
  BY DEF Store
<1>2. [at |-> "stored", token |-> "current"] \in ExchangeState
  BY DEF ExchangeState, Token
<1>3. /\ exchange' \in [Source -> ExchangeState]
      /\ exchange'[k].at = "stored" /\ exchange'[k].token = "current"
      /\ \A j \in Source \ {k} : exchange'[j].at = exchange[j].at
  BY <1>1, <1>2, OutdatingEffect DEF ClientInv
<1>4. ClientTyped'
  BY <1>1, <1>3, OutdatingEffect, OutdatedType DEF ClientInv, ClientTyped
<1>5. PageCalls'
  BY <1>1, OutdatingEffect DEF ClientInv, PageCalls
<1>6. Tokens'
  <2> SUFFICES ASSUME ~tangled' PROVE Tokens'
    BY DEF Tokens
  <2>1. ~tangled /\ ~SignedBlind
    BY <1>1 DEF ClientInv, Tokens, Exchanging, InFlight
  <2>2. \A c \in Call : ~Signed(c)'
    BY <1>1, <2>1, OutdatingEffect DEF ClientInv, SignedBlind, Signed
  <2>3. ~SignedBlind' /\ \A c \in Call : SignedSync(c)'
    BY <2>2 DEF SignedBlind, SignedSync, Signed
  <2>4. ExchangeSync(k)'
    BY <1>1, <1>3 DEF ExchangeSync
  <2>5. \A j \in Source \ {k} : exchange'[j].at = "idle"
    BY <1>1, <1>3, <2>1 DEF ClientInv, Tokens, InFlight, Source
  <2>6. \A j \in Source : ExchangeSync(j)'
    BY <2>4, <2>5 DEF ExchangeSync
  <2>7. Exchanging'
    BY <1>3 DEF Exchanging, InFlight
  <2> QED BY <2>3, <2>5, <2>6, <2>7 DEF Tokens, InFlight, Source
<1> QED BY <1>4, <1>5, <1>6 DEF ClientInv

\* A save that is answered becomes the load that follows it.
LEMMA SavedKeeps == ASSUME ClientInv, NEW c \in Call, Saved(c) PROVE ClientInv'
<1> DEFINE load == [NoCall EXCEPT !.kind = "load", !.at = "sent", !.token = access]
<1>1. /\ call[c].at = "ok" /\ call[c].kind \in Form /\ call' = [call EXCEPT ![c] = load]
      /\ UNCHANGED <<key, cookie, url, ready, access, refreshing, exchange, tangled, leftover>>
  BY DEF Saved
<1>2. load \in CallState /\ load.at = "sent" /\ load.kind = "load"
  BY NoCallType DEF ClientInv, ClientTyped, CallState, Stage, Kind
<1> HIDE DEF load
<1>3. call'[c] = load /\ \A d \in Call \ {c} : call'[d] = call[d]
  BY <1>1 DEF ClientInv, ClientTyped
<1>4. ClientTyped'
  BY <1>1, <1>2 DEF ClientInv, ClientTyped
<1>5. PageCalls'
  <2>1. call[c] # NoCall
    BY <1>1 DEF NoCall
  <2> QED BY <1>1, <1>2, <1>3, <2>1 DEF ClientInv, PageCalls
<1>6. \A d \in Call : (Signed(d)' <=> Signed(d))
                      /\ (Signed(d) => call'[d].kind = call[d].kind /\ call'[d].issued = call[d].issued)
  BY <1>1, <1>2, <1>3 DEF Signed, Form
<1> QED BY <1>1, <1>4, <1>5, <1>6, QuietKeeps

(***************************************************************************)
(* The page.                                                               *)
(***************************************************************************)

\* What the page says of its calls: which they are, and whether they are answered.
LEMMA SameCalls ==
  ASSUME EditorInv, UNCHANGED editor,
         \A c \in Call : \/ call'[c].kind = call[c].kind /\ (call'[c].at = "ok" <=> call[c].at = "ok")
                         \/ /\ call[c].kind \notin Form \cup {"load"}
                            /\ call'[c].kind \notin Form \cup {"load"}
  PROVE  EditorInv'
<1>1. UNCHANGED <<amount, shown, payload, saving, ignored, runs, unsure>>
  BY DEF editor
<1>2. \A c \in Call, kind \in Form \cup {"load"} :
        /\ call'[c].kind = kind <=> call[c].kind = kind
        /\ call'[c].kind = kind => (call'[c].at = "ok" <=> call[c].at = "ok")
  OBVIOUS
<1>3. \A c \in Call : (call'[c].kind = "load" <=> call[c].kind = "load") /\ (call'[c].kind \in Form <=> call[c].kind \in Form)
  BY <1>2
<1>4. Loading' = Loading
  BY <1>1, <1>3 DEF Loading
<1>5. EditorTyped'
  BY <1>1 DEF EditorInv, EditorTyped, Lines
<1>6. Waiting'
  <2>1. \A c \in ignored' : call'[c].kind = "load"
    BY <1>1, <1>3 DEF EditorInv, EditorTyped, Waiting
  <2>2. \A c \in Call : call'[c].kind \in Form => saving'[call'[c].kind] = c
    BY <1>1, <1>2, <1>3 DEF EditorInv, Waiting
  <2>3. ASSUME NEW f \in Form, saving'[f] # None PROVE call'[saving'[f]].kind = f \/ saving'[f] \in Loading'
    <3>1. saving[f] \in Call
      BY <1>1, <2>3 DEF EditorInv, EditorTyped
    <3> QED BY <1>1, <1>2, <1>4, <2>3, <3>1 DEF EditorInv, Waiting
  <2> QED BY <1>1, <1>4, <2>1, <2>2, <2>3 DEF EditorInv, Waiting
<1>7. Carried'
  BY <1>1, <1>2, <1>3 DEF EditorInv, Carried, Lines
<1>8. Copies'
  <2> SUFFICES ASSUME ~unsure' PROVE Copies'
    BY DEF Copies
  <2>1. ~unsure
    BY <1>1
  <2>2. ASSUME NEW f \in Form, Unsaved(f)' PROVE Unsaved(f)
    <3>1. CASE saving[f] = None
      BY <3>1 DEF Unsaved
    <3>2. CASE saving[f] # None
      <4>1. saving[f] \in Call
        BY <3>2 DEF EditorInv, EditorTyped
      <4> QED BY <1>1, <1>2, <2>2, <3>2, <4>1 DEF Unsaved
    <3> QED BY <3>1, <3>2
  <2>3. \A c \in Loading' : call'[c].at = "ok" /\ NoneSaved' => payload'[c].lines = amount'
    BY <1>1, <1>2, <1>3, <1>4, <2>1 DEF EditorInv, Copies, Loading, NoneSaved
  <2>4. shown' # None /\ (\A f \in Form : Unsaved(f)') => shown' = amount'
    BY <1>1, <2>1, <2>2 DEF EditorInv, Copies
  <2>5. \A c \in Call, l \in Line :
          call'[c].kind \in Form /\ call'[c].at # "ok" /\ l # payload'[c].line => payload'[c].lines[l] = amount'[l]
    BY <1>1, <1>2, <1>3, <2>1 DEF EditorInv, Copies
  <2>6. \A c \in Call : call'[c].kind \in Form => shown' # None
    BY <1>1, <1>3, <2>1 DEF EditorInv, Copies
  <2>7. saving'["edit"] = None \/ saving'["add"] = None
    BY <1>1, <2>1 DEF EditorInv, Copies
  <2> QED BY <2>3, <2>4, <2>5, <2>6, <2>7 DEF Copies
<1> QED BY <1>5, <1>6, <1>7, <1>8 DEF EditorInv

\* A page that is gone holds nothing.
LEMMA GoneKeeps ==
  ASSUME EditorInv, Gone, \A c \in Call : call'[c] = NoCall
  PROVE  EditorInv'
<1>1. \A c \in Call : call'[c].kind = "none"
  BY DEF NoCall
<1>2. Loading' = {}
  BY <1>1 DEF Loading
<1>3. EditorTyped'
  <2>1. NoData \in [lines : Lines \cup {None}, line : Line \cup {None}] /\ 0 \in 0 .. 2
    BY DEF NoData
  <2> HIDE DEF NoData
  <2> QED BY <2>1 DEF EditorInv, EditorTyped, Gone, Lines
<1>4. Waiting' /\ Carried'
  BY <1>1, <1>2 DEF Waiting, Carried, Gone, Form
<1>5. Copies'
  BY <1>1, <1>2 DEF Copies, Gone, Form
<1> QED BY <1>3, <1>4, <1>5 DEF EditorInv

\* On such a page, a save is in flight alone.
LEMMA LoneForm ==
  ASSUME EditorInv, ~unsure, NEW c \in Call, call[c].kind \in Form
  PROVE  \A d \in Call : call[d].kind \in Form => d = c
<1>1. shown # None /\ (saving["edit"] = None \/ saving["add"] = None)
  BY DEF EditorInv, Copies
<1>2. saving[call[c].kind] = c /\ None \notin Call
  BY EditorAssumption DEF EditorInv, Waiting
<1>3. \A f \in Form : f # call[c].kind => saving[f] = None
  BY <1>1, <1>2 DEF Form
<1>4. ASSUME NEW d \in Call, call[d].kind \in Form PROVE d = c
  <2>1. saving[call[d].kind] = d
    BY <1>4 DEF EditorInv, Waiting
  <2> QED BY <1>2, <1>3, <1>4, <2>1
<1> QED BY <1>4

\* The first load of a page.
LEMMA LoadKeeps == ASSUME ClientInv, EditorInv, NEW c \in Call, Load(c) PROVE EditorInv'
<1> DEFINE load == [NoCall EXCEPT !.kind = "load", !.at = "sent", !.token = access]
<1>1. /\ shown = None /\ Loading = {} /\ call[c] = NoCall /\ call' = [call EXCEPT ![c] = load]
      /\ UNCHANGED <<amount, shown, payload, saving, ignored, runs, unsure>>
  BY DEF Load, Send, editor
<1>2. load.kind = "load" /\ load.at = "sent" /\ call[c].kind = "none" /\ call[c].at = "idle"
  BY <1>1 DEF NoCall
<1> HIDE DEF load
<1>3. call'[c] = load /\ \A d \in Call \ {c} : call'[d] = call[d]
  BY <1>1 DEF ClientInv, ClientTyped
<1>4. c \notin ignored
  BY <1>2 DEF EditorInv, Waiting
<1>5. Loading' = {c}
  BY <1>1, <1>2, <1>3, <1>4 DEF Loading
<1>6. EditorTyped'
  BY <1>1 DEF EditorInv, EditorTyped, Lines
<1>7. Waiting'
  <2>1. \A d \in ignored' : call'[d].kind = "load"
    BY <1>1, <1>3, <1>4 DEF EditorInv, EditorTyped, Waiting
  <2>2. \A d \in Call : call'[d].kind \in Form => saving'[call'[d].kind] = d
    BY <1>1, <1>2, <1>3 DEF EditorInv, Waiting, Form
  <2>3. ASSUME NEW f \in Form, saving'[f] # None PROVE call'[saving'[f]].kind = f \/ saving'[f] \in Loading'
    <3>1. saving[f] \in Call /\ call[saving[f]].kind = f
      BY <1>1, <2>3 DEF EditorInv, EditorTyped, Waiting
    <3>2. saving[f] # c
      BY <1>2, <3>1 DEF Form
    <3> QED BY <1>1, <1>3, <3>1, <3>2
  <2> QED BY <1>1, <1>5, <2>1, <2>2, <2>3 DEF Waiting
<1>8. Carried'
  BY <1>1, <1>2, <1>3 DEF EditorInv, Carried, Form, Lines
<1>9. Copies'
  <2> SUFFICES ASSUME ~unsure' PROVE Copies'
    BY DEF Copies
  <2>1. \A d \in Call : call'[d].kind \notin Form
    BY <1>1, <1>2, <1>3 DEF EditorInv, Copies, Form
  <2>2. saving'["edit"] = None \/ saving'["add"] = None
    BY <1>1 DEF EditorInv, Copies
  <2> QED BY <1>1, <1>2, <1>3, <1>5, <2>1, <2>2 DEF Copies
<1> QED BY <1>6, <1>7, <1>8, <1>9 DEF EditorInv

\* The copy that is shown is sent, with one line changed or one more.
LEMMA SubmitKeeps ==
  ASSUME ClientInv, EditorInv, NEW c \in Call, NEW form \in Form, NEW l \in Line \cup {None}, NEW lines \in Lines,
         shown # None, \A m \in Line : m # l => lines[m] = shown[m], Submit(c, form, l, lines)
  PROVE  EditorInv'
<1> DEFINE sent == [NoCall EXCEPT !.kind = form, !.at = "sent", !.token = access]
           carried == [lines |-> lines, line |-> l]
<1>1. /\ saving[form] = None /\ ~unsure /\ call[c] = NoCall
      /\ call' = [call EXCEPT ![c] = sent]
      /\ payload' = [payload EXCEPT ![c] = carried]
      /\ saving' = [saving EXCEPT ![form] = c]
      /\ unsure' = Busy
      /\ UNCHANGED <<amount, shown, ignored, runs>>
  BY DEF Submit, Send
<1>2. sent.kind = form /\ sent.at = "sent" /\ call[c].kind = "none" /\ call[c].at = "idle"
  BY <1>1 DEF NoCall
<1>3. carried \in [lines : Lines \cup {None}, line : Line \cup {None}] /\ carried.lines = lines /\ carried.line = l
  OBVIOUS
<1> HIDE DEF sent, carried
<1>4. call'[c] = sent /\ \A d \in Call \ {c} : call'[d] = call[d]
  BY <1>1 DEF ClientInv, ClientTyped
<1>5. payload'[c] = carried /\ \A d \in Call \ {c} : payload'[d] = payload[d]
  BY <1>1 DEF EditorInv, EditorTyped
<1>6. saving'[form] = c /\ \A f \in Form \ {form} : saving'[f] = saving[f]
  BY <1>1 DEF EditorInv, EditorTyped
<1>7. c \notin ignored
  BY <1>2 DEF EditorInv, Waiting
<1>8. Loading' = Loading /\ c \notin Loading
  BY <1>1, <1>2, <1>4, <1>7 DEF Loading, Form
<1>9. EditorTyped'
  <2>1. unsure' \in BOOLEAN
    BY <1>1 DEF Busy
  <2> QED BY <1>1, <1>3, <2>1 DEF EditorInv, EditorTyped, Lines
<1>10. Waiting'
  <2>1. \A d \in ignored' : call'[d].kind = "load"
    BY <1>1, <1>4, <1>7 DEF EditorInv, EditorTyped, Waiting
  <2>2. ASSUME NEW d \in Call, call'[d].kind \in Form PROVE saving'[call'[d].kind] = d
    <3>1. CASE d = c
      BY <1>2, <1>4, <1>6, <3>1
    <3>2. CASE d # c
      <4>1. saving[call[d].kind] = d /\ d # None
        BY <1>4, <2>2, <3>2, EditorAssumption DEF EditorInv, Waiting
      <4> QED BY <1>1, <1>4, <1>6, <2>2, <3>2, <4>1
    <3> QED BY <3>1, <3>2
  <2>3. ASSUME NEW f \in Form, saving'[f] # None PROVE call'[saving'[f]].kind = f \/ saving'[f] \in Loading'
    <3>1. CASE f = form
      BY <1>2, <1>4, <1>6, <3>1
    <3>2. CASE f # form
      <4>1. saving'[f] = saving[f]
        BY <1>6, <3>2
      <4>2. saving[f] \in Call /\ (call[saving[f]].kind = f \/ saving[f] \in Loading)
        BY <2>3, <4>1 DEF EditorInv, EditorTyped, Waiting
      <4>3. saving[f] # c
        BY <1>2, <1>8, <4>2 DEF Form
      <4> QED BY <1>4, <1>8, <4>1, <4>2, <4>3
    <3> QED BY <3>1, <3>2
  <2>4. \A d, e \in Loading' : d = e
    BY <1>8 DEF EditorInv, Waiting
  <2> QED BY <2>1, <2>2, <2>3, <2>4 DEF Waiting
<1>11. Carried'
  BY <1>1, <1>2, <1>3, <1>4, <1>5 DEF EditorInv, Carried, Form, Lines
<1>12. Copies'
  <2> SUFFICES ASSUME ~unsure' PROVE Copies'
    BY DEF Copies
  <2>1. ~Busy
    BY <1>1
  <2>2. \A f \in Form : saving[f] = None
    BY <2>1 DEF Busy
  <2>3. shown = amount
    BY <1>1, <2>2 DEF EditorInv, Copies, Unsaved
  <2>4. \A d \in Call : call[d].kind \notin Form
    BY <2>2, EditorAssumption DEF EditorInv, Waiting
  <2>5. \A d \in Loading' : call'[d].at = "ok" => payload'[d].lines = amount'
    BY <1>1, <1>4, <1>5, <1>8, <2>4 DEF EditorInv, Copies, NoneSaved, Loading
  <2>6. saving'["edit"] = None \/ saving'["add"] = None
    BY <1>6, <2>2 DEF Form
  <2>7. ASSUME NEW d \in Call, NEW m \in Line, call'[d].kind \in Form, call'[d].at # "ok", m # payload'[d].line
        PROVE  payload'[d].lines[m] = amount'[m]
    BY <1>1, <1>3, <1>4, <1>5, <2>3, <2>4, <2>7
  <2> QED BY <1>1, <1>8, <2>3, <2>5, <2>6, <2>7 DEF Copies
<1> QED BY <1>9, <1>10, <1>11, <1>12 DEF EditorInv

LEMMA EditKeeps ==
  ASSUME ClientInv, EditorInv, NEW c \in Call, NEW l \in Line, NEW a \in Amount, EditLine(c, l, a)
  PROVE  EditorInv'
<1>1. shown # None /\ Submit(c, "edit", l, [shown EXCEPT ![l] = a])
  BY DEF EditLine
<1>2. shown \in Lines
  BY <1>1 DEF EditorInv, EditorTyped
<1>3. [shown EXCEPT ![l] = a] \in Lines /\ \A m \in Line : m # l => [shown EXCEPT ![l] = a][m] = shown[m]
  BY <1>2 DEF Lines
<1> QED BY <1>1, <1>3, SubmitKeeps DEF Form

LEMMA DuplicateKeeps ==
  ASSUME ClientInv, EditorInv, NEW c \in Call, DuplicateLine(c)
  PROVE  EditorInv'
<1>1. shown # None /\ Submit(c, "add", None, shown)
  BY DEF DuplicateLine
<1>2. shown \in Lines
  BY <1>1 DEF EditorInv, EditorTyped
<1> QED BY <1>1, <1>2, SubmitKeeps DEF Form

\* The server writes what the call carries, the database is ahead of the page.
LEMMA SaveKeeps == ASSUME ClientInv, EditorInv, NEW c \in Call, Save(c) PROVE EditorInv'
<1>1. /\ call[c].kind \in Form /\ call[c].at = "sent"
      /\ call' = [call EXCEPT ![c].at = "ok"]
      /\ runs' = [runs EXCEPT ![c] = runs[c] + 1]
      /\ amount' = payload[c].lines
      /\ UNCHANGED <<shown, payload, saving, ignored, unsure>>
  BY DEF Save, Accept
<1>2. /\ call'[c].kind = call[c].kind /\ call'[c].at = "ok"
      /\ \A d \in Call \ {c} : call'[d] = call[d]
  BY <1>1 DEF ClientInv, ClientTyped, CallState
<1>3. runs[c] = 0 /\ runs'[c] = 1 /\ \A d \in Call \ {c} : runs'[d] = runs[d]
  BY <1>1 DEF EditorInv, EditorTyped, Carried
<1>4. \A d \in Call : call'[d].kind = call[d].kind
  BY <1>2
<1>5. Loading' = Loading
  BY <1>1, <1>4 DEF Loading
<1>6. EditorTyped'
  <2>1. amount' \in Lines
    BY <1>1 DEF EditorInv, Carried
  <2>2. runs' \in [Call -> 0 .. 2]
    BY <1>1, <1>3 DEF EditorInv, EditorTyped
  <2> QED BY <1>1, <2>1, <2>2 DEF EditorInv, EditorTyped, Lines
<1>7. Waiting'
  <2>1. \A d \in ignored' : call'[d].kind = "load"
    BY <1>1, <1>4 DEF EditorInv, EditorTyped, Waiting
  <2>2. \A d \in Call : call'[d].kind \in Form => saving'[call'[d].kind] = d
    BY <1>1, <1>4 DEF EditorInv, Waiting
  <2>3. ASSUME NEW f \in Form, saving'[f] # None PROVE call'[saving'[f]].kind = f \/ saving'[f] \in Loading'
    <3>1. saving[f] \in Call
      BY <1>1, <2>3 DEF EditorInv, EditorTyped
    <3> QED BY <1>1, <1>4, <1>5, <2>3, <3>1 DEF EditorInv, Waiting
  <2> QED BY <1>1, <1>5, <2>1, <2>2, <2>3 DEF EditorInv, Waiting
<1>8. Carried'
  <2>1. \A d \in Call : call'[d].kind \in Form => payload'[d].lines \in Lines'
    BY <1>1, <1>4 DEF EditorInv, Carried, Lines
  <2>2. \A d \in Call : call'[d].kind = "load" /\ call'[d].at = "ok" => payload'[d].lines \in Lines'
    BY <1>1, <1>2 DEF EditorInv, Carried, Lines, Form
  <2>3. \A d \in Call : runs'[d] = 0 \/ (runs'[d] = 1 /\ call'[d].kind \in Form /\ call'[d].at = "ok")
    BY <1>1, <1>2, <1>3 DEF EditorInv, Carried
  <2> QED BY <2>1, <2>2, <2>3 DEF Carried
<1>9. Copies'
  <2> SUFFICES ASSUME ~unsure' PROVE Copies'
    BY DEF Copies
  <2>1. ~unsure
    BY <1>1
  <2>2. ~NoneSaved' /\ \A d \in Call : call[d].kind \in Form => d = c
    BY <1>1, <1>2, <2>1, LoneForm DEF NoneSaved
  <2>3. saving'["edit"] = None \/ saving'["add"] = None
    BY <1>1, <2>1 DEF EditorInv, Copies
  <2>4. \A d \in Call : call'[d].kind \in Form => shown' # None
    BY <1>1, <1>4, <2>1 DEF EditorInv, Copies
  <2>5. ~Unsaved(call[c].kind)'
    <3>1. saving'[call[c].kind] = c /\ c # None
      BY <1>1, EditorAssumption DEF EditorInv, Waiting
    <3> QED BY <1>2, <3>1 DEF Unsaved
  <2>6. \A d \in Call : ~(call'[d].kind \in Form /\ call'[d].at # "ok")
    BY <1>2, <1>4, <2>2
  <2> QED BY <1>1, <1>5, <2>2, <2>3, <2>4, <2>5, <2>6 DEF Copies
<1> QED BY <1>6, <1>7, <1>8, <1>9 DEF EditorInv

\* A load carries the lines of the database.
LEMMA ReadKeeps == ASSUME ClientInv, EditorInv, NEW c \in Call, Read(c) PROVE EditorInv'
<1>1. /\ call[c].kind = "load" /\ call[c].at = "sent"
      /\ call' = [call EXCEPT ![c].at = "ok"]
      /\ payload' = [payload EXCEPT ![c].lines = amount]
      /\ UNCHANGED <<amount, shown, saving, ignored, runs, unsure>>
  BY DEF Read, Accept
<1>2. /\ call'[c].kind = "load" /\ call'[c].at = "ok"
      /\ \A d \in Call \ {c} : call'[d] = call[d]
  BY <1>1 DEF ClientInv, ClientTyped, CallState
<1>3. \A d \in Call : call'[d].kind = call[d].kind
  BY <1>1, <1>2
<1>4. Loading' = Loading
  BY <1>1, <1>3 DEF Loading
<1>5. /\ payload' \in [Call -> [lines : Lines \cup {None}, line : Line \cup {None}]]
      /\ payload'[c].lines = amount
      /\ \A d \in Call \ {c} : payload'[d] = payload[d]
  BY <1>1 DEF EditorInv, EditorTyped
<1>6. EditorTyped'
  BY <1>1, <1>5 DEF EditorInv, EditorTyped, Lines
<1>7. Waiting'
  <2>1. \A d \in ignored' : call'[d].kind = "load"
    BY <1>1, <1>3 DEF EditorInv, EditorTyped, Waiting
  <2>2. \A d \in Call : call'[d].kind \in Form => saving'[call'[d].kind] = d
    BY <1>1, <1>3 DEF EditorInv, Waiting
  <2>3. ASSUME NEW f \in Form, saving'[f] # None PROVE call'[saving'[f]].kind = f \/ saving'[f] \in Loading'
    <3>1. saving[f] \in Call
      BY <1>1, <2>3 DEF EditorInv, EditorTyped
    <3> QED BY <1>1, <1>3, <1>4, <2>3, <3>1 DEF EditorInv, Waiting
  <2> QED BY <1>1, <1>4, <2>1, <2>2, <2>3 DEF EditorInv, Waiting
<1>8. Carried'
  <2>1. \A d \in Call : call'[d].kind \in Form => payload'[d].lines \in Lines'
    BY <1>1, <1>3, <1>5 DEF EditorInv, Carried, Lines, Form
  <2>2. \A d \in Call : call'[d].kind = "load" /\ call'[d].at = "ok" => payload'[d].lines \in Lines'
    BY <1>1, <1>2, <1>5 DEF EditorInv, EditorTyped, Carried, Lines
  <2>3. \A d \in Call : runs'[d] = 0 \/ (runs'[d] = 1 /\ call'[d].kind \in Form /\ call'[d].at = "ok")
    BY <1>1, <1>2 DEF EditorInv, Carried, Form
  <2> QED BY <2>1, <2>2, <2>3 DEF Carried
<1>9. Copies'
  <2> SUFFICES ASSUME ~unsure' PROVE Copies'
    BY DEF Copies
  <2>1. ~unsure
    BY <1>1
  <2>2. saving'["edit"] = None \/ saving'["add"] = None
    BY <1>1, <2>1 DEF EditorInv, Copies
  <2>3. \A d \in Call : call'[d].kind \in Form => shown' # None
    BY <1>1, <1>3, <2>1 DEF EditorInv, Copies
  <2>4. \A d \in Loading' : call'[d].at = "ok" /\ NoneSaved' => payload'[d].lines = amount'
    BY <1>1, <1>2, <1>3, <1>4, <1>5, <2>1 DEF EditorInv, Copies, Loading, NoneSaved, Form
  <2>5. ASSUME NEW f \in Form, Unsaved(f)' PROVE Unsaved(f)
    <3>1. saving[f] # c
      BY <1>1, <1>2, <2>5, EditorAssumption DEF Unsaved, Form
    <3>2. saving[f] \in Call \cup {None}
      BY DEF EditorInv, EditorTyped
    <3> QED BY <1>1, <1>2, <2>5, <3>1, <3>2 DEF Unsaved
  <2>6. shown' # None /\ (\A f \in Form : Unsaved(f)') => shown' = amount'
    BY <1>1, <2>1, <2>5 DEF EditorInv, Copies
  <2>7. \A d \in Call, l \in Line :
          call'[d].kind \in Form /\ call'[d].at # "ok" /\ l # payload'[d].line => payload'[d].lines[l] = amount'[l]
    BY <1>1, <1>2, <1>5, <2>1 DEF EditorInv, Copies, Form
  <2> QED BY <2>2, <2>3, <2>4, <2>6, <2>7 DEF Copies
<1> QED BY <1>6, <1>7, <1>8, <1>9 DEF EditorInv

\* A form that is freed waits for nothing; the others wait as before.
LEMMA FreedEffect ==
  ASSUME EditorInv, NEW cs
  PROVE  /\ Freed(cs) \in [Form -> Call \cup {None}]
         /\ \A f \in Form : Freed(cs)[f] = IF saving[f] \in cs THEN None ELSE saving[f]
BY DEF EditorInv, EditorTyped, Freed

\* A save is answered: its call is the load that follows, and the form keeps waiting.
LEMMA SavedPageKeeps == ASSUME ClientInv, EditorInv, NEW c \in Call, Saved(c) PROVE EditorInv'
<1> DEFINE load == [NoCall EXCEPT !.kind = "load", !.at = "sent", !.token = access]
<1>1. /\ call[c].kind \in Form /\ call[c].at = "ok" /\ call' = [call EXCEPT ![c] = load]
      /\ ignored' = ignored \cup Loading /\ saving' = Freed(Loading)
      /\ payload' = [payload EXCEPT ![c] = NoData]
      /\ runs' = [runs EXCEPT ![c] = 0]
      /\ UNCHANGED <<amount, shown, unsure>>
  BY DEF Saved
<1>2. load.kind = "load" /\ load.at = "sent"
  BY DEF NoCall
<1> HIDE DEF load
<1>3. call'[c] = load /\ \A d \in Call \ {c} : call'[d] = call[d]
  BY <1>1 DEF ClientInv, ClientTyped
<1>4. c \notin ignored /\ c \notin Loading
  BY <1>1 DEF EditorInv, Waiting, Loading, Form
<1>5. Loading' = {c}
  <2>1. \A d \in Call : call'[d].kind = "load" <=> d = c \/ call[d].kind = "load"
    BY <1>2, <1>3
  <2>2. ignored' = {d \in Call : call[d].kind = "load"}
    BY <1>1 DEF EditorInv, EditorTyped, Waiting, Loading
  <2>3. call[c].kind # "load"
    BY <1>1 DEF Form
  <2> QED BY <2>1, <2>2, <2>3 DEF Loading
<1>6. \A f \in Form : saving'[f] = IF saving[f] \in Loading THEN None ELSE saving[f]
  BY <1>1, FreedEffect
<1>7. EditorTyped'
  <2>1. NoData \in [lines : Lines \cup {None}, line : Line \cup {None}] /\ 0 \in 0 .. 2
    BY DEF NoData
  <2>2. ignored' \subseteq Call
    BY <1>1 DEF EditorInv, EditorTyped, Loading
  <2>3. saving' \in [Form -> Call \cup {None}]
    BY <1>1, FreedEffect
  <2> HIDE DEF NoData
  <2> QED BY <1>1, <2>1, <2>2, <2>3 DEF EditorInv, EditorTyped, Lines
<1>8. saving[call[c].kind] = c /\ saving'[call[c].kind] = c
  BY <1>1, <1>4, <1>6 DEF EditorInv, Waiting
<1>9. Waiting'
  <2>1. \A d \in ignored' : call'[d].kind = "load"
    BY <1>1, <1>2, <1>3 DEF EditorInv, EditorTyped, Waiting, Loading
  <2>2. ASSUME NEW d \in Call, call'[d].kind \in Form PROVE saving'[call'[d].kind] = d
    <3>1. d # c
      BY <1>2, <1>3, <2>2 DEF Form
    <3>2. saving[call[d].kind] = d /\ d \notin Loading
      BY <1>3, <2>2, <3>1 DEF EditorInv, Waiting, Loading, Form
    <3> QED BY <1>3, <1>6, <2>2, <3>1, <3>2
  <2>3. ASSUME NEW f \in Form, saving'[f] # None PROVE call'[saving'[f]].kind = f \/ saving'[f] \in Loading'
    <3>1. saving'[f] = saving[f] /\ saving[f] \notin Loading
      BY <1>6, <2>3
    <3>2. saving[f] \in Call /\ call[saving[f]].kind = f
      BY <2>3, <3>1 DEF EditorInv, EditorTyped, Waiting
    <3> QED BY <1>3, <1>5, <3>1, <3>2
  <2> QED BY <1>1, <1>5, <1>8, <2>1, <2>2, <2>3 DEF Waiting
<1>10. payload'[c] = NoData /\ \A d \in Call \ {c} : payload'[d] = payload[d]
  BY <1>1 DEF EditorInv, EditorTyped
<1>11. runs'[c] = 0 /\ \A d \in Call \ {c} : runs'[d] = runs[d]
  BY <1>1 DEF EditorInv, EditorTyped
<1>12. Carried'
  <2>1. \A d \in Call : call'[d].kind \in Form => payload'[d].lines \in Lines'
    BY <1>2, <1>3, <1>10 DEF EditorInv, Carried, Lines, Form
  <2>2. \A d \in Call : call'[d].kind = "load" /\ call'[d].at = "ok" => payload'[d].lines \in Lines'
    BY <1>2, <1>3, <1>10 DEF EditorInv, Carried, Lines
  <2>3. \A d \in Call : runs'[d] = 0 \/ (runs'[d] = 1 /\ call'[d].kind \in Form /\ call'[d].at = "ok")
    BY <1>3, <1>11 DEF EditorInv, Carried
  <2> QED BY <2>1, <2>2, <2>3 DEF Carried
<1>13. Copies'
  <2> SUFFICES ASSUME ~unsure' PROVE Copies'
    BY DEF Copies
  <2>1. ~unsure
    BY <1>1
  <2>2. \A d \in Call : call'[d].kind \notin Form
    BY <1>1, <1>2, <1>3, <2>1, LoneForm DEF Form
  <2>3. saving'["edit"] = None \/ saving'["add"] = None
    BY <1>6, <2>1 DEF EditorInv, Copies, Form
  <2>4. \E form \in Form : ~Unsaved(form)'
    <3>1. PICK form \in Form : form = call[c].kind
      BY <1>1
    <3> QED BY <1>2, <1>3, <1>8, <3>1, EditorAssumption DEF Unsaved, Form
  <2> QED BY <1>1, <1>2, <1>3, <1>5, <2>2, <2>3, <2>4 DEF Copies
<1> QED BY <1>7, <1>9, <1>12, <1>13 DEF EditorInv

\* Another invalidation: the load it cancels is ignored, and its form is free too early.
LEMMA InvalidatedKeeps == ASSUME ClientInv, EditorInv, NEW c \in Call, Invalidated(c) PROVE EditorInv'
<1> DEFINE load == [NoCall EXCEPT !.kind = "load", !.at = "sent", !.token = access]
<1>1. /\ shown # None /\ call[c] = NoCall /\ call' = [call EXCEPT ![c] = load]
      /\ ignored' = ignored \cup Loading /\ saving' = Freed(Loading)
      /\ unsure' = (unsure \/ \E f \in Form : saving[f] \in Loading)
      /\ UNCHANGED <<amount, shown, payload, runs>>
  BY DEF Invalidated, Send
<1>2. load.kind = "load" /\ load.at = "sent" /\ call[c].kind = "none" /\ call[c].at = "idle"
  BY <1>1 DEF NoCall
<1> HIDE DEF load
<1>3. call'[c] = load /\ \A d \in Call \ {c} : call'[d] = call[d]
  BY <1>1 DEF ClientInv, ClientTyped
<1>4. c \notin ignored /\ c \notin Loading
  BY <1>2 DEF EditorInv, Waiting, Loading
<1>5. Loading' = {c}
  <2>1. \A d \in Call : call'[d].kind = "load" <=> d = c \/ call[d].kind = "load"
    BY <1>2, <1>3
  <2>2. ignored' = {d \in Call : call[d].kind = "load"}
    BY <1>1 DEF EditorInv, EditorTyped, Waiting, Loading
  <2> QED BY <1>2, <2>1, <2>2 DEF Loading
<1>6. \A f \in Form : saving'[f] = IF saving[f] \in Loading THEN None ELSE saving[f]
  BY <1>1, FreedEffect
<1>7. EditorTyped'
  <2>1. ignored' \subseteq Call /\ unsure' \in BOOLEAN
    BY <1>1 DEF EditorInv, EditorTyped, Loading
  <2>2. saving' \in [Form -> Call \cup {None}]
    BY <1>1, FreedEffect
  <2> QED BY <1>1, <2>1, <2>2 DEF EditorInv, EditorTyped, Lines
<1>8. \A d \in Call : call'[d].kind \in Form => d # c /\ call'[d] = call[d]
  BY <1>2, <1>3 DEF Form
<1>9. Waiting'
  <2>1. \A d \in ignored' : call'[d].kind = "load"
    BY <1>1, <1>2, <1>3 DEF EditorInv, EditorTyped, Waiting, Loading
  <2>2. ASSUME NEW d \in Call, call'[d].kind \in Form PROVE saving'[call'[d].kind] = d
    <3>1. saving[call[d].kind] = d /\ d \notin Loading
      BY <1>8, <2>2 DEF EditorInv, Waiting, Loading, Form
    <3> QED BY <1>6, <1>8, <2>2, <3>1
  <2>3. ASSUME NEW f \in Form, saving'[f] # None PROVE call'[saving'[f]].kind = f \/ saving'[f] \in Loading'
    <3>1. saving'[f] = saving[f] /\ saving[f] \notin Loading
      BY <1>6, <2>3
    <3>2. saving[f] \in Call /\ call[saving[f]].kind = f
      BY <2>3, <3>1 DEF EditorInv, EditorTyped, Waiting
    <3>3. saving[f] # c
      BY <1>2, <3>2 DEF Form
    <3> QED BY <1>3, <3>1, <3>2, <3>3
  <2>4. \A d, e \in Loading' : d = e
    BY <1>5
  <2> QED BY <2>1, <2>2, <2>3, <2>4 DEF Waiting
<1>10. Carried'
  <2>1. \A d \in Call : call'[d].kind \in Form => payload'[d].lines \in Lines'
    BY <1>1, <1>8 DEF EditorInv, Carried, Lines
  <2>2. \A d \in Call : call'[d].kind = "load" /\ call'[d].at = "ok" => payload'[d].lines \in Lines'
    BY <1>1, <1>2, <1>3 DEF EditorInv, Carried, Lines
  <2>3. \A d \in Call : runs'[d] = 0 \/ (runs'[d] = 1 /\ call'[d].kind \in Form /\ call'[d].at = "ok")
    BY <1>1, <1>2, <1>3 DEF EditorInv, Carried, Form
  <2> QED BY <2>1, <2>2, <2>3 DEF Carried
<1>11. Copies'
  <2> SUFFICES ASSUME ~unsure' PROVE Copies'
    BY DEF Copies
  <2>1. ~unsure /\ \A f \in Form : saving[f] \notin Loading
    BY <1>1
  <2>2. \A f \in Form : saving'[f] = saving[f]
    BY <1>6, <2>1
  <2>3. saving'["edit"] = None \/ saving'["add"] = None
    BY <2>1, <2>2 DEF EditorInv, Copies, Form
  <2>4. \A d \in Loading' : call'[d].at # "ok"
    BY <1>2, <1>3, <1>5
  <2>5. ASSUME NEW f \in Form, Unsaved(f)' PROVE Unsaved(f)
    <3>1. CASE saving[f] = None
      BY <3>1 DEF Unsaved
    <3>2. CASE saving[f] # None
      <4>1. saving[f] \in Call /\ call[saving[f]].kind = f
        BY <2>1, <3>2 DEF EditorInv, EditorTyped, Waiting
      <4>2. saving[f] # c
        BY <1>2, <4>1 DEF Form
      <4> QED BY <1>3, <2>2, <2>5, <3>2, <4>1, <4>2 DEF Unsaved
    <3> QED BY <3>1, <3>2
  <2>6. shown' # None /\ (\A f \in Form : Unsaved(f)') => shown' = amount'
    BY <1>1, <2>1, <2>5 DEF EditorInv, Copies
  <2>7. \A d \in Call, l \in Line :
          call'[d].kind \in Form /\ call'[d].at # "ok" /\ l # payload'[d].line => payload'[d].lines[l] = amount'[l]
    BY <1>1, <1>8, <2>1 DEF EditorInv, Copies
  <2> QED BY <1>1, <2>3, <2>4, <2>6, <2>7 DEF Copies
<1> QED BY <1>7, <1>9, <1>10, <1>11 DEF EditorInv

\* A load is answered: if nobody cancelled it, its lines are shown and its form is free.
LEMMA LoadedKeeps == ASSUME ClientInv, EditorInv, NEW c \in Call, Loaded(c) PROVE EditorInv'
<1>1. /\ call[c].kind = "load" /\ call[c].at = "ok" /\ call' = [call EXCEPT ![c] = NoCall]
      /\ payload' = [payload EXCEPT ![c] = NoData]
      /\ UNCHANGED <<amount, runs, unsure>>
  BY DEF Loaded, Answer
<1>2. NoCall.kind = "none" /\ NoCall.at = "idle"
  BY DEF NoCall
<1>3. call'[c] = NoCall /\ \A d \in Call \ {c} : call'[d] = call[d]
  BY <1>1 DEF ClientInv, ClientTyped
<1>4. payload'[c] = NoData /\ \A d \in Call \ {c} : payload'[d] = payload[d]
  BY <1>1 DEF EditorInv, EditorTyped
<1>5. payload' \in [Call -> [lines : Lines \cup {None}, line : Line \cup {None}]]
  <2>1. NoData \in [lines : Lines \cup {None}, line : Line \cup {None}]
    BY DEF NoData
  <2> HIDE DEF NoData
  <2> QED BY <1>1, <2>1 DEF EditorInv, EditorTyped
<1>6. Carried'
  <2>1. \A d \in Call : call'[d].kind \in Form => payload'[d].lines \in Lines'
    BY <1>2, <1>3, <1>4 DEF EditorInv, Carried, Lines, Form
  <2>2. \A d \in Call : call'[d].kind = "load" /\ call'[d].at = "ok" => payload'[d].lines \in Lines'
    BY <1>2, <1>3, <1>4 DEF EditorInv, Carried, Lines
  <2>3. \A d \in Call : runs'[d] = 0 \/ (runs'[d] = 1 /\ call'[d].kind \in Form /\ call'[d].at = "ok")
    BY <1>1, <1>3 DEF EditorInv, Carried, Form
  <2> QED BY <2>1, <2>2, <2>3 DEF Carried
<1>7. \A d \in Call : call'[d].kind \in Form => d # c /\ call[d].kind \in Form
  BY <1>2, <1>3 DEF Form
<1>8. CASE c \in ignored
  <2>1. ignored' = ignored \ {c} /\ UNCHANGED <<shown, saving>>
    BY <1>8 DEF Loaded
  <2>2. Loading' = Loading /\ c \notin Loading
    BY <1>1, <1>2, <1>3, <1>8, <2>1 DEF Loading
  <2>3. EditorTyped'
    BY <1>1, <1>5, <2>1 DEF EditorInv, EditorTyped, Lines
  <2>4. \A f \in Form : saving[f] # c
    BY <1>1, <2>2, EditorAssumption DEF EditorInv, Waiting, Form
  <2>5. Waiting'
    <3>1. \A d \in ignored' : call'[d].kind = "load"
      BY <1>3, <2>1 DEF EditorInv, EditorTyped, Waiting
    <3>2. \A d \in Call : call'[d].kind \in Form => saving'[call'[d].kind] = d
      BY <1>3, <1>7, <2>1 DEF EditorInv, Waiting
    <3>3. ASSUME NEW f \in Form, saving'[f] # None PROVE call'[saving'[f]].kind = f \/ saving'[f] \in Loading'
      <4>1. saving[f] \in Call \ {c}
        BY <2>1, <2>4, <3>3 DEF EditorInv, EditorTyped
      <4> QED BY <1>3, <2>1, <2>2, <3>3, <4>1 DEF EditorInv, Waiting
    <3> QED BY <2>1, <2>2, <3>1, <3>2, <3>3 DEF EditorInv, Waiting
  <2>6. Copies'
    <3> SUFFICES ASSUME ~unsure' PROVE Copies'
      BY DEF Copies
    <3>1. ~unsure
      BY <1>1
    <3>2. saving'["edit"] = None \/ saving'["add"] = None
      BY <2>1, <3>1 DEF EditorInv, Copies
    <3>3. \A d \in Call : call'[d].kind \in Form => shown' # None
      BY <1>7, <2>1, <3>1 DEF EditorInv, Copies
    <3>4. \A d \in Loading' : call'[d].at = "ok" /\ NoneSaved' => payload'[d].lines = amount'
      BY <1>1, <1>3, <1>4, <2>2, <3>1 DEF EditorInv, Copies, Loading, NoneSaved, Form
    <3>5. ASSUME NEW f \in Form, Unsaved(f)' PROVE Unsaved(f)
      <4>1. saving[f] \in (Call \cup {None}) \ {c}
        BY <2>4 DEF EditorInv, EditorTyped
      <4> QED BY <1>3, <2>1, <3>5, <4>1 DEF Unsaved
    <3>6. shown' # None /\ (\A f \in Form : Unsaved(f)') => shown' = amount'
      BY <1>1, <2>1, <3>1, <3>5 DEF EditorInv, Copies
    <3>7. \A d \in Call, l \in Line :
            call'[d].kind \in Form /\ call'[d].at # "ok" /\ l # payload'[d].line => payload'[d].lines[l] = amount'[l]
      BY <1>1, <1>3, <1>4, <1>7, <3>1 DEF EditorInv, Copies
    <3> QED BY <3>2, <3>3, <3>4, <3>6, <3>7 DEF Copies
  <2> QED BY <1>6, <2>3, <2>5, <2>6 DEF EditorInv
<1>9. CASE c \notin ignored
  <2>1. shown' = payload[c].lines /\ saving' = Freed({c}) /\ ignored' = ignored
    BY <1>9 DEF Loaded
  <2>2. c \in Loading /\ Loading' = Loading \ {c}
    BY <1>1, <1>2, <1>3, <1>9, <2>1 DEF Loading
  <2>3. \A f \in Form : saving'[f] = IF saving[f] = c THEN None ELSE saving[f]
    BY <2>1, FreedEffect
  <2>4. EditorTyped'
    <3>1. shown' \in Lines
      BY <1>1, <2>1 DEF EditorInv, Carried
    <3>2. saving' \in [Form -> Call \cup {None}]
      BY <2>1, FreedEffect
    <3> QED BY <1>1, <1>5, <2>1, <3>1, <3>2 DEF EditorInv, EditorTyped, Lines
  <2>5. Waiting'
    <3>1. \A d \in ignored' : call'[d].kind = "load"
      BY <1>3, <1>9, <2>1 DEF EditorInv, EditorTyped, Waiting
    <3>2. \A d \in Call : call'[d].kind \in Form => saving'[call'[d].kind] = d
      BY <1>3, <1>7, <2>3 DEF EditorInv, Waiting
    <3>3. ASSUME NEW f \in Form, saving'[f] # None PROVE call'[saving'[f]].kind = f \/ saving'[f] \in Loading'
      <4>1. saving'[f] = saving[f] /\ saving[f] \in Call \ {c}
        BY <2>3, <3>3 DEF EditorInv, EditorTyped
      <4> QED BY <1>3, <2>2, <3>3, <4>1 DEF EditorInv, Waiting
    <3>4. Loading' = {}
      BY <2>2 DEF EditorInv, Waiting
    <3> QED BY <3>1, <3>2, <3>3, <3>4 DEF Waiting
  <2>6. Copies'
    <3> SUFFICES ASSUME ~unsure' PROVE Copies'
      BY DEF Copies
    <3>1. ~unsure
      BY <1>1
    <3>2. saving'["edit"] = None \/ saving'["add"] = None
      BY <2>3, <3>1 DEF EditorInv, Copies, Form
    <3>3. shown' # None
      BY <1>1, <2>1, EditorAssumption DEF EditorInv, Carried, Lines
    <3>4. Loading' = {}
      BY <2>2 DEF EditorInv, Waiting
    <3>5. ASSUME \A f \in Form : Unsaved(f)' PROVE shown' = amount'
      <4>1. ASSUME NEW d \in Call, call[d].kind \in Form, call[d].at = "ok" PROVE FALSE
        <5>1. d # c /\ saving[call[d].kind] = d
          BY <1>1, <4>1 DEF EditorInv, Waiting, Form
        <5>2. saving'[call[d].kind] = d /\ d # None /\ call'[d] = call[d]
          BY <1>3, <2>3, <4>1, <5>1, EditorAssumption
        <5> QED BY <3>5, <4>1, <5>2 DEF Unsaved
      <4>2. NoneSaved
        BY <4>1 DEF NoneSaved
      <4> QED BY <1>1, <2>1, <2>2, <3>1, <4>2 DEF EditorInv, Copies
    <3>6. \A d \in Call, l \in Line :
            call'[d].kind \in Form /\ call'[d].at # "ok" /\ l # payload'[d].line => payload'[d].lines[l] = amount'[l]
      BY <1>1, <1>3, <1>4, <1>7, <3>1 DEF EditorInv, Copies
    <3> QED BY <3>2, <3>3, <3>4, <3>5, <3>6 DEF Copies
  <2> QED BY <1>6, <2>4, <2>5, <2>6 DEF EditorInv
<1> QED BY <1>8, <1>9

\* A call fails.  A form call that fails unanswered leaves the page as it was; one that ran,
\* or a load, leaves it behind the database.
LEMMA FailedKeeps == ASSUME ClientInv, EditorInv, NEW c \in Call, Failed(c) PROVE EditorInv'
<1>1. /\ call[c].at \in {"sent", "ok"} /\ call' = [call EXCEPT ![c] = NoCall]
      /\ saving' = Freed({c})
      /\ ignored' = ignored \ {c}
      /\ unsure' = (unsure \/ (call[c].kind = "load" /\ c \notin ignored /\ shown # None)
                           \/ (call[c].kind \in Form /\ call[c].at = "ok"))
      /\ payload' = [payload EXCEPT ![c] = NoData]
      /\ runs' = [runs EXCEPT ![c] = 0]
      /\ UNCHANGED <<amount, shown>>
  BY DEF Failed, Fail
<1>2. NoCall.kind = "none" /\ NoCall.at = "idle"
  BY DEF NoCall
<1>3. call'[c] = NoCall /\ \A d \in Call \ {c} : call'[d] = call[d]
  BY <1>1 DEF ClientInv, ClientTyped
<1>4. payload'[c] = NoData /\ \A d \in Call \ {c} : payload'[d] = payload[d]
  BY <1>1 DEF EditorInv, EditorTyped
<1>5. runs'[c] = 0 /\ \A d \in Call \ {c} : runs'[d] = runs[d]
  BY <1>1 DEF EditorInv, EditorTyped
<1>6. \A f \in Form : saving'[f] = IF saving[f] = c THEN None ELSE saving[f]
  BY <1>1, FreedEffect
<1>7. \A d \in Call : call'[d].kind \in Form => d # c /\ call[d].kind \in Form
  BY <1>2, <1>3 DEF Form
<1>8. Loading' = Loading \ {c}
  BY <1>1, <1>2, <1>3 DEF Loading
<1>9. EditorTyped'
  <2>1. NoData \in [lines : Lines \cup {None}, line : Line \cup {None}] /\ 0 \in 0 .. 2
    BY DEF NoData
  <2>2. unsure' \in BOOLEAN
    BY <1>1 DEF EditorInv, EditorTyped
  <2>3. saving' \in [Form -> Call \cup {None}]
    BY <1>1, FreedEffect
  <2> HIDE DEF NoData
  <2> QED BY <1>1, <2>1, <2>2, <2>3 DEF EditorInv, EditorTyped, Lines
<1>10. Waiting'
  <2>1. \A d \in ignored' : call'[d].kind = "load"
    BY <1>1, <1>3 DEF EditorInv, EditorTyped, Waiting
  <2>2. \A d \in Call : call'[d].kind \in Form => saving'[call'[d].kind] = d
    BY <1>3, <1>6, <1>7 DEF EditorInv, Waiting
  <2>3. ASSUME NEW f \in Form, saving'[f] # None PROVE call'[saving'[f]].kind = f \/ saving'[f] \in Loading'
    <3>1. saving'[f] = saving[f] /\ saving[f] \in Call \ {c}
      BY <1>6, <2>3 DEF EditorInv, EditorTyped
    <3> QED BY <1>3, <1>8, <2>3, <3>1 DEF EditorInv, Waiting
  <2>4. \A d, e \in Loading' : d = e
    BY <1>8 DEF EditorInv, Waiting
  <2> QED BY <2>1, <2>2, <2>3, <2>4 DEF Waiting
<1>11. Carried'
  <2>1. \A d \in Call : call'[d].kind \in Form => payload'[d].lines \in Lines'
    BY <1>3, <1>4, <1>7 DEF EditorInv, Carried, Lines
  <2>2. \A d \in Call : call'[d].kind = "load" /\ call'[d].at = "ok" => payload'[d].lines \in Lines'
    BY <1>2, <1>3, <1>4 DEF EditorInv, Carried, Lines
  <2>3. \A d \in Call : runs'[d] = 0 \/ (runs'[d] = 1 /\ call'[d].kind \in Form /\ call'[d].at = "ok")
    BY <1>3, <1>5 DEF EditorInv, Carried
  <2> QED BY <2>1, <2>2, <2>3 DEF Carried
<1>12. Copies'
  <2> SUFFICES ASSUME ~unsure' PROVE Copies'
    BY DEF Copies
  <2>1. ~unsure /\ ~(call[c].kind = "load" /\ c \notin ignored /\ shown # None)
        /\ ~(call[c].kind \in Form /\ call[c].at = "ok")
    BY <1>1
  <2>2. saving'["edit"] = None \/ saving'["add"] = None
    BY <1>6, <2>1 DEF EditorInv, Copies, Form
  <2>3. \A d \in Call : call'[d].kind \in Form => shown' # None
    BY <1>1, <1>7, <2>1 DEF EditorInv, Copies
  <2>4. \A d \in Loading' : call'[d].at = "ok" /\ NoneSaved' => payload'[d].lines = amount'
    BY <1>1, <1>3, <1>4, <1>8, <2>1 DEF EditorInv, Copies, Loading, NoneSaved
  <2>5. ASSUME NEW f \in Form, Unsaved(f)', shown # None PROVE Unsaved(f)
    <3>1. CASE saving[f] = c
      <4>1. call[c].kind = f \/ c \in Loading
        BY <3>1, EditorAssumption DEF EditorInv, Waiting
      <4>2. call[c].kind = f /\ call[c].at # "ok"
        BY <2>1, <2>5, <4>1 DEF Loading
      <4> QED BY <3>1, <4>2 DEF Unsaved
    <3>2. CASE saving[f] # c
      <4>1. saving'[f] = saving[f] /\ saving[f] \in (Call \cup {None}) \ {c}
        BY <1>6, <3>2 DEF EditorInv, EditorTyped
      <4> QED BY <1>3, <2>5, <4>1 DEF Unsaved
    <3> QED BY <3>1, <3>2
  <2>6. shown' # None /\ (\A f \in Form : Unsaved(f)') => shown' = amount'
    BY <1>1, <2>1, <2>5 DEF EditorInv, Copies
  <2>7. \A d \in Call, l \in Line :
          call'[d].kind \in Form /\ call'[d].at # "ok" /\ l # payload'[d].line => payload'[d].lines[l] = amount'[l]
    BY <1>1, <1>3, <1>4, <1>7, <2>1 DEF EditorInv, Copies
  <2> QED BY <2>2, <2>3, <2>4, <2>6, <2>7 DEF Copies
<1> QED BY <1>9, <1>10, <1>11, <1>12 DEF EditorInv

(***************************************************************************)
(* What the session of the tab does to the calls of the page.              *)
(***************************************************************************)

\* The calls of the page stay what they are, answered or not.
CallsKept ==
  \A c \in Call : \/ call'[c].kind = call[c].kind /\ (call'[c].at = "ok" <=> call[c].at = "ok")
                  \/ /\ call[c].kind \notin Form \cup {"load"}
                     /\ call'[c].kind \notin Form \cup {"load"}

LEMMA OneCallKept ==
  ASSUME ClientInv, NEW c \in Call, NEW x, call' = [call EXCEPT ![c] = x],
         \/ x.kind = call[c].kind /\ (x.at = "ok" <=> call[c].at = "ok")
         \/ call[c].kind \notin Form \cup {"load"} /\ x.kind \notin Form \cup {"load"}
  PROVE  CallsKept
<1>1. call'[c] = x /\ \A d \in Call \ {c} : call'[d] = call[d]
  BY DEF ClientInv, ClientTyped
<1> QED BY <1>1 DEF CallsKept

\* A login or a logout is no call of the page.
LEMMA SignCallsKept ==
  ASSUME ClientInv, NEW c \in Call,
         Send(c, "login") \/ Send(c, "logout") \/ AcceptLogin(c) \/ AcceptLogout(c) \/ FailLogout(c) \/ SignedIn(c)
  PROVE  CallsKept
<1>1. CASE Send(c, "login") \/ Send(c, "logout")
  <2>1. PICK kind \in {"login", "logout"} : Send(c, kind)
    BY <1>1
  <2> DEFINE sent == [NoCall EXCEPT !.kind = kind, !.at = "sent", !.token = access]
  <2>2. call' = [call EXCEPT ![c] = sent] /\ call[c] = NoCall
    BY <2>1 DEF Send
  <2>3. sent.kind = kind /\ NoCall.kind = "none"
    BY DEF NoCall
  <2> HIDE DEF sent
  <2>4. call[c].kind \notin Form \cup {"load"} /\ sent.kind \notin Form \cup {"load"}
    BY <2>2, <2>3 DEF Form
  <2> QED BY <2>2, <2>4, OneCallKept
<1>2. CASE AcceptLogin(c) \/ AcceptLogout(c)
  <2>1. call[c].kind \in {"login", "logout"}
    BY <1>2 DEF AcceptLogin, AcceptLogout
  <2>2. /\ \A d \in Call \ {c} : call'[d] = OutdatedCalls[d]
        /\ call'[c].kind = OutdatedCalls[c].kind
    <3>1. OutdatedCalls \in [Call -> CallState]
      BY OutdatingEffect DEF ClientInv
    <3> QED BY <1>2, <3>1 DEF AcceptLogin, AcceptLogout, CallState
  <2>3. \A d \in Call : OutdatedCalls[d].kind = call[d].kind /\ OutdatedCalls[d].at = call[d].at
    BY OutdatingEffect DEF ClientInv
  <2> QED BY <2>1, <2>2, <2>3 DEF CallsKept, Form
<1>3. CASE SignedIn(c)
  <2>1. call' = [call EXCEPT ![c] = NoCall] /\ call[c].kind = "login" /\ NoCall.kind = "none"
    BY <1>3 DEF SignedIn, NoCall
  <2> QED BY <2>1, OneCallKept DEF Form
<1>4. CASE FailLogout(c)
  <2>1. call' = [call EXCEPT ![c] = [call[c] EXCEPT !.at = "failed"]] /\ call[c].kind = "logout"
    BY <1>4 DEF FailLogout
  <2>2. [call[c] EXCEPT !.at = "failed"].kind = "logout"
    BY <2>1 DEF ClientInv, ClientTyped, CallState
  <2> QED BY <2>1, <2>2, OneCallKept DEF Form
<1> QED BY <1>1, <1>2, <1>3, <1>4

\* A 401 holds a call back and a refresh sends it again; neither answers it.
LEMMA HeldCallsKept ==
  ASSUME ClientInv, NEW c \in Call, Refuse(c) \/ Wait(c) \/ Lead(c)
  PROVE  CallsKept
<1>1. /\ call[c].at # "ok" /\ call'[c].at # "ok" /\ call'[c].kind = call[c].kind
      /\ \A d \in Call \ {c} : call'[d] = call[d]
  BY DEF ClientInv, ClientTyped, CallState, Refuse, Wait, Lead
<1> QED BY <1>1 DEF CallsKept

LEMMA AllCallsKept ==
  ASSUME ClientInv,
         \/ \E k \in Source : Verify(k) \/ Store(k)
         \/ Renew \/ Booted \/ NotBooted \/ Boot \/ Expire \/ OtherBoots \/ OtherAnswered
  PROVE  CallsKept
<1>1. CASE \E k \in Source : Store(k)
  BY <1>1, OutdatingEffect DEF Store, CallsKept, ClientInv
<1>2. CASE Renew
  BY <1>2 DEF Renew, Held, CallsKept, ClientInv, ClientTyped, CallState
<1>3. CASE Expire
  BY <1>3 DEF Expire, CallsKept, ClientInv, ClientTyped, CallState
<1>4. CASE (\E k \in Source : Verify(k)) \/ Booted \/ NotBooted \/ Boot \/ OtherBoots \/ OtherAnswered
  BY <1>4 DEF Verify, Booted, NotBooted, Boot, OtherBoots, OtherAnswered, CallsKept
<1> QED BY <1>1, <1>2, <1>3, <1>4

LEMMA QuietPage == ASSUME EditorInv, CallsKept, UNCHANGED editor PROVE EditorInv'
BY SameCalls DEF CallsKept

(***************************************************************************)
(* The theorems.                                                           *)
(***************************************************************************)

LEMMA InitKeeps == Init => Inv
<1> SUFFICES ASSUME Init PROVE Inv
  OBVIOUS
<1>1. \A c \in Call : call[c] = NoCall /\ call[c].kind = "none" /\ call[c].at = "idle"
  BY DEF Init, ClientInit, NoCall
<1>2. \A k \in Source : exchange[k].at = "idle"
  BY DEF Init, ClientInit, NoExchange
<1>3. ClientTyped
  BY NoCallType DEF Init, ClientInit, ClientTyped, Token, Access
<1>4. ClientInv
  BY <1>1, <1>2, <1>3
  DEF Init, ClientInit, ClientInv, PageCalls, Tokens, ExchangeSync, SignedSync, Sync, Exchanging, InFlight,
      SignedBlind, Source
<1>5. EditorTyped
  <2>1. NoData \in [lines : Lines \cup {None}, line : Line \cup {None}] /\ 0 \in 0 .. 2
    BY DEF NoData
  <2> HIDE DEF NoData
  <2> QED BY <2>1 DEF Init, EditorTyped, Lines
<1>6. Loading = {}
  BY <1>1 DEF Loading
<1>7. EditorInv
  BY <1>1, <1>5, <1>6 DEF Init, EditorInv, Waiting, Carried, Copies, Form
<1> QED BY <1>4, <1>7 DEF Inv

LEMMA StutterKeeps == Inv /\ UNCHANGED vars => Inv'
<1> SUFFICES ASSUME Inv, UNCHANGED vars PROVE Inv'
  OBVIOUS
<1>1. UNCHANGED <<key, cookie, url, ready, access, refreshing, call, exchange, tangled, leftover>> /\ UNCHANGED editor
  BY DEF vars, client
<1>2. ClientTyped' /\ PageCalls'
  BY <1>1 DEF Inv, ClientInv, ClientTyped, PageCalls
<1>3. ClientInv'
  BY <1>1, <1>2, QuietKeeps DEF Inv, Signed
<1>4. CallsKept
  BY <1>1 DEF CallsKept
<1> QED BY <1>1, <1>3, <1>4, QuietPage DEF Inv

\* Every way a call of the page, or the call of a login or a logout, goes on.
LEMMA CallKeeps ==
  ASSUME Inv, NEW c \in Call, PageStep(c) \/ Serve(c) \/ Settle(c) \/ Unauthorized(c)
  PROVE  Inv'
<1> USE DEF Inv
<1>1. CASE PageStep(c)
  <2>1. CASE Load(c)
    BY <2>1, LoadKeeps, SendKeeps DEF Load, Kind
  <2>2. CASE \E l \in Line, a \in Amount : EditLine(c, l, a)
    BY <2>2, EditKeeps, SendKeeps DEF EditLine, Submit, Kind
  <2>3. CASE DuplicateLine(c)
    BY <2>3, DuplicateKeeps, SendKeeps DEF DuplicateLine, Submit, Kind
  <2>4. CASE (Send(c, "login") \/ Send(c, "logout")) /\ UNCHANGED editor
    BY <2>4, SendKeeps, SignCallsKept, QuietPage DEF Kind
  <2>5. CASE Invalidated(c)
    BY <2>5, InvalidatedKeeps, SendKeeps DEF Invalidated, Kind
  <2> QED BY <1>1, <2>1, <2>2, <2>3, <2>4, <2>5 DEF PageStep
<1>2. CASE Serve(c)
  <2>1. CASE Save(c)
    BY <2>1, SaveKeeps, AcceptKeeps DEF Save
  <2>2. CASE Read(c)
    BY <2>2, ReadKeeps, AcceptKeeps DEF Read
  <2>3. CASE (AcceptLogin(c) \/ AcceptLogout(c) \/ FailLogout(c) \/ Refuse(c)) /\ UNCHANGED editor
    BY <2>3, AcceptLoginKeeps, AcceptLogoutKeeps, FailLogoutKeeps, RefuseKeeps, SignCallsKept, HeldCallsKept, QuietPage
  <2> QED BY <1>2, <2>1, <2>2, <2>3 DEF Serve
<1>3. CASE Settle(c)
  <2>1. CASE Saved(c)
    BY <2>1, SavedKeeps, SavedPageKeeps
  <2>2. CASE Loaded(c)
    BY <2>2, LoadedKeeps, AnswerKeeps DEF Loaded
  <2>3. CASE Failed(c)
    BY <2>3, FailedKeeps, FailKeeps DEF Failed
  <2>4. CASE SignedIn(c) /\ UNCHANGED editor
    BY <2>4, SignedInKeeps, SignCallsKept, QuietPage
  <2>5. CASE SignedOut(c) /\ Gone
    <3>1. \A d \in Call : call'[d] = NoCall
      BY <2>5 DEF SignedOut, Unload
    <3> QED BY <2>5, <3>1, SignedOutKeeps, GoneKeeps
  <2> QED BY <1>3, <2>1, <2>2, <2>3, <2>4, <2>5 DEF Settle
<1>4. CASE Unauthorized(c)
  <2>1. CASE (Wait(c) \/ Lead(c)) /\ UNCHANGED editor
    BY <2>1, WaitKeeps, LeadKeeps, HeldCallsKept, QuietPage
  <2>2. CASE GiveUp(c) /\ Gone
    <3>1. \A d \in Call : call'[d] = NoCall
      BY <2>2 DEF GiveUp, Unload
    <3> QED BY <2>2, <3>1, GiveUpKeeps, GoneKeeps
  <2> QED BY <1>4, <2>1, <2>2 DEF Unauthorized
<1> QED BY <1>1, <1>2, <1>3, <1>4

\* The refreshes, and what else happens to the tab.
LEMMA TabKeeps ==
  ASSUME Inv, (\E k \in Source : Refresh(k)) \/ (Boot /\ UNCHANGED editor) \/ Refreshed \/ Around
  PROVE  Inv'
<1> USE DEF Inv
<1>1. CASE \E k \in Source : Refresh(k)
  BY <1>1, VerifyKeeps, StoreKeeps, AllCallsKept, QuietPage DEF Refresh
<1>2. CASE Boot /\ UNCHANGED editor
  BY <1>2, BootKeeps, AllCallsKept, QuietPage
<1>3. CASE Refreshed
  <2>1. CASE (Renew \/ Booted \/ NotBooted) /\ UNCHANGED editor
    BY <2>1, RenewKeeps, BootedKeeps, NotBootedKeeps, AllCallsKept, QuietPage
  <2>2. CASE NotRenewed /\ Gone
    <3>1. \A d \in Call : call'[d] = NoCall
      BY <2>2 DEF NotRenewed, Unload
    <3> QED BY <2>2, <3>1, NotRenewedKeeps, GoneKeeps
  <2> QED BY <1>3, <2>1, <2>2 DEF Refreshed
<1>4. CASE Around
  <2>1. CASE (Expire \/ OtherBoots \/ OtherAnswered) /\ UNCHANGED editor
    BY <2>1, ExpireKeeps, OtherBootsKeeps, OtherAnsweredKeeps, AllCallsKept, QuietPage
  <2>2. CASE (Reload \/ OpenApp) /\ Gone
    <3>1. \A d \in Call : call'[d] = NoCall
      BY <2>2 DEF Reload, OpenApp, Unload
    <3> QED BY <2>2, <3>1, ReloadKeeps, OpenAppKeeps, GoneKeeps
  <2> QED BY <1>4, <2>1, <2>2 DEF Around
<1> QED BY <1>1, <1>2, <1>3, <1>4

LEMMA NextKeeps == Inv /\ [Next]_vars => Inv'
BY CallKeeps, TabKeeps, StutterKeeps DEF Next

\* The invariant holds in every reachable state, whichever answers are late or lost.
THEOREM EditorInvariance == Spec => []Inv
BY InitKeeps, NextKeeps, PTL DEF Spec

\* The tab, the server and the page keep their types, and so do the calls between them.
THEOREM EditorTypes == Spec => []TypeOK
<1>1. Inv => TypeOK
  BY DEF Inv, ClientInv, ClientTyped, EditorInv, EditorTyped, TypeOK, ClientTypeOK
<1> QED BY <1>1, EditorInvariance, PTL

\* With nothing in flight and nothing overlapped or lost, the browser holds the refresh token
\* the server holds (auth.service.ts:154-222, client.ts:90-140).
THEOREM CookieInSync == Spec => []InSync
<1>1. Inv => InSync
  <2>1. SignedBlind => Signing
    BY DEF SignedBlind, Signing
  <2> QED BY <2>1 DEF Inv, ClientInv, Tokens, InSync, Sync
<1> QED BY <1>1, EditorInvariance, PTL

\* No save runs twice, although the client sends a refused call again (client.ts:77-150).
THEOREM SavesRunOnce == Spec => []SavedOnce
<1>1. Inv => SavedOnce
  <2>1. ASSUME Inv, NEW c \in Call PROVE runs[c] = 0 \/ runs[c] = 1
    BY <2>1 DEF Inv, EditorInv, Carried
  <2>2. ASSUME Inv, NEW c \in Call PROVE runs[c] <= 1
    <3>1. runs[c] = 0 \/ runs[c] = 1
      BY <2>1, <2>2
    <3> QED BY <3>1
  <2> QED BY <2>2 DEF SavedOnce
<1> QED BY <1>1, EditorInvariance, PTL

\* Only the server's save counts a run, and no other step does.
LEMMA OnlySaveRuns ==
  ASSUME Inv, [Next]_vars, NEW c \in Call, runs'[c] > runs[c]
  PROVE  Save(c)
<1>1. runs \in [Call -> 0 .. 2]
  BY DEF Inv, EditorInv, EditorTyped
<1>2. runs' # runs /\ runs'[c] # 0
  BY <1>1
<1>3. ASSUME NEW d \in Call, Save(d) PROVE d = c
  BY <1>1, <1>3 DEF Save
<1>4. ~UNCHANGED editor /\ ~Gone
  BY <1>2 DEF editor, Gone
<1>5. ASSUME NEW d \in Call PROVE ~(Load(d) \/ DuplicateLine(d) \/ Invalidated(d) \/ Read(d) \/ Loaded(d))
  BY <1>2, <1>4 DEF Load, DuplicateLine, Submit, Invalidated, Read, Loaded
<1>6. ASSUME NEW d \in Call, NEW l \in Line, NEW a \in Amount PROVE ~EditLine(d, l, a)
  BY <1>2 DEF EditLine, Submit
<1>7. ASSUME NEW d \in Call PROVE ~(Saved(d) \/ Failed(d))
  <2>1. runs' # [runs EXCEPT ![d] = 0]
    BY <1>1, <1>2
  <2> QED BY <2>1 DEF Saved, Failed
<1>8. ~UNCHANGED vars
  BY <1>4 DEF vars
<1>9. PICK d \in Call : PageStep(d) \/ Serve(d) \/ Settle(d) \/ Unauthorized(d)
  BY <1>4, <1>8 DEF Next, Refresh, Refreshed, Around
<1>10. Save(d)
  BY <1>4, <1>5, <1>6, <1>7, <1>9 DEF PageStep, Serve, Settle, Unauthorized
<1> QED BY <1>3, <1>10

\* A save of a page that lost no answer and never saved two forms at once changes no line but
\* its own, although it sends the whole copy back (BudgetDetailPage.tsx:452-496).
THEOREM EditsSurvive == Spec => OwnEditsSurvive
<1> DEFINE Survives == \A c \in Call, l \in Line :
             runs'[c] > runs[c] /\ ~unsure /\ l # payload[c].line => amount'[l] = amount[l]
<1>1. Inv /\ [Next]_vars => [Survives]_vars
  <2> SUFFICES ASSUME Inv, [Next]_vars, NEW c \in Call, NEW l \in Line,
                      runs'[c] > runs[c], ~unsure, l # payload[c].line
               PROVE  amount'[l] = amount[l]
    OBVIOUS
  <2>1. Save(c)
    BY OnlySaveRuns
  <2>2. call[c].kind \in Form /\ call[c].at # "ok" /\ amount' = payload[c].lines
    BY <2>1 DEF Save, Accept
  <2> QED BY <2>2 DEF Inv, EditorInv, Copies
<1> QED BY <1>1, EditorInvariance, PTL DEF Spec, OwnEditsSurvive
=============================================================================
