------------------------------- MODULE WebClient -------------------------------
(***************************************************************************)
(* How a browser tab keeps its session: the interceptors of                *)
(* apps/web/src/api/client.ts, the store of stores/auth.store.ts and the   *)
(* refresh and logout routes they call.  The access token lives in the     *)
(* memory of the tab; the refresh token is a cookie that every tab of the  *)
(* browser shares, and the server keeps one current token of the user, its *)
(* key.  A refresh replaces key and cookie, in two calls of the server and *)
(* one answer, and a second tab that is loading refreshes on its own.      *)
(*                                                                         *)
(* One user and one tab, with "other": the refresh of another tab, or one  *)
(* that this tab no longer waits for.  A call the client gave up is not    *)
(* executed afterwards.  A refresh token is "current" when it is the one   *)
(* the key holds, "old" when another has replaced it or the key is gone.   *)
(* What the calls of the pages do is left to the module that extends this  *)
(* one.                                                                    *)
(*                                                                         *)
(* A definition named Bad... is the one that follows it with a plausible   *)
(* mistake.                                                                *)
(***************************************************************************)
EXTENDS Integers

CONSTANT Call \* calls the tab can have in flight at the same time

VARIABLES
  key,        \* refresh:<user> is in Redis
  cookie,     \* the cookie refresh_token of the browser
  url,        \* the page the tab is on, "login" or "app"; it survives a reload
  ready,      \* App has finished tryRefresh
  access,     \* accessToken of the store
  refreshing, \* isRefreshing
  call,       \* the calls of the tab
  exchange,   \* the refreshes being served
  tangled,    \* history: key and cookie were written by exchanges that overlap or got lost
  leftover    \* history: a logout that failed has cleared the cookie, and none came since

client == <<key, cookie, url, ready, access, refreshing, call, exchange, tangled, leftover>>

Kind   == {"none", "login", "logout", "load", "edit", "add"}
Stage  == {"idle", "sent", "ok", "failed", "refused", "waiting", "leading"}
Source == {"own", "other"}
Token  == {"none", "current", "old"}
Access == {"none", "good", "old"}

\* A call with the access token it carries and the refresh token a login got; whether it is
\* marked _retry, and whether it was sent again.
CallState == [kind : Kind, at : Stage, token : Access, issued : Token, retried : BOOLEAN, again : BOOLEAN]

NoCall == [kind |-> "none", at |-> "idle", token |-> "none", issued |-> "none",
           retried |-> FALSE, again |-> FALSE]

ExchangeState == [at : {"idle", "sent", "verified", "stored", "refused"}, token : Token]

NoExchange == [at |-> "idle", token |-> "none"]

ClientTypeOK ==
  /\ cookie \in Token
  /\ url \in {"login", "app"} /\ access \in Access
  /\ {key, ready, refreshing, tangled, leftover} \subseteq BOOLEAN
  /\ call \in [Call -> CallState]
  /\ exchange \in [Source -> ExchangeState]

\* The login page of a browser nobody has used yet.
ClientInit ==
  /\ key = FALSE /\ cookie = "none"
  /\ url = "login" /\ ready = TRUE /\ access = "none"
  /\ refreshing = FALSE /\ tangled = FALSE /\ leftover = FALSE
  /\ call = [c \in Call |-> NoCall]
  /\ exchange = [k \in Source |-> NoExchange]

InFlight(k) == exchange[k].at # "idle"
Exchanging  == \E k \in Source : InFlight(k)
Signing     == \E c \in Call : call[c].kind \in {"login", "logout"} /\ call[c].at \in {"sent", "ok", "failed"}

\* The server has signed the user in or out and the browser does not know.
SignedBlind == \E c \in Call : call[c].kind \in {"login", "logout"} /\ call[c].at = "ok"

\* What becomes of the tokens when the key is replaced or deleted.
Outdated(t) == IF t = "current" THEN "old" ELSE t
Outdating   == [k \in Source |-> [exchange[k] EXCEPT !.token = Outdated(@)]]
OutdatedCalls == [c \in Call |-> [call[c] EXCEPT !.issued = Outdated(@)]]

------------------------------------------------------------------------------
(* Refreshes in the server: AuthController.refresh and AuthService.refresh. *)

Started(k) == [exchange EXCEPT ![k] = [at |-> "sent", token |-> cookie]]
Ended(k)   == [exchange EXCEPT ![k] = NoExchange]

\* The key is read and the token of the cookie verified against it.
Verify(k) ==
  /\ exchange[k].at = "sent"
  /\ exchange' = [exchange EXCEPT ![k].at =
                    IF exchange[k].token = "current" THEN "verified" ELSE "refused"]
  /\ UNCHANGED <<key, cookie, url, ready, access, refreshing, call, tangled, leftover>>

\* Two new tokens are signed, then the key is replaced.
Store(k) ==
  /\ exchange[k].at = "verified"
  /\ key' = TRUE
  /\ cookie' = Outdated(cookie)
  /\ exchange' = [Outdating EXCEPT ![k] = [at |-> "stored", token |-> "current"]]
  /\ call' = OutdatedCalls
  /\ UNCHANGED <<url, ready, access, refreshing, tangled, leftover>>

------------------------------------------------------------------------------
(* Calls.                                                                   *)

InApp == ready /\ url = "app" /\ access # "none"

\* The request interceptor puts the token of the store on the call.
Send(c, kind) ==
  /\ call[c] = NoCall
  /\ IF kind = "login" THEN ready /\ url = "login" /\ call = [d \in Call |-> NoCall] ELSE InApp
  /\ call' = [call EXCEPT ![c] = [NoCall EXCEPT !.kind = kind, !.at = "sent", !.token = access]]
  /\ UNCHANGED <<key, cookie, url, ready, access, refreshing, exchange, tangled, leftover>>

\* A token just obtained outlives the calls sent again with it: 15 minutes against the
\* 30 seconds a call may take.
Expire ==
  /\ access = "good"
  /\ \A c \in Call : ~(call[c].at = "sent" /\ call[c].again)
  /\ access' = "old"
  /\ call' = [c \in Call |-> [call[c] EXCEPT !.token = IF @ = "good" THEN "old" ELSE @]]
  /\ UNCHANGED <<key, cookie, url, ready, refreshing, exchange, tangled, leftover>>

\* The guards and the handler of a call that is accepted.
Accept(c) ==
  /\ call[c].at = "sent" /\ call[c].kind \notin {"login", "logout"} /\ call[c].token = "good"
  /\ call' = [call EXCEPT ![c].at = "ok"]
  /\ UNCHANGED <<key, cookie, url, ready, access, refreshing, exchange, tangled, leftover>>

\* A login stores a refresh token of its own.
AcceptLogin(c) ==
  /\ call[c].at = "sent" /\ call[c].kind = "login"
  /\ key' = TRUE
  /\ cookie' = Outdated(cookie)
  /\ exchange' = Outdating
  /\ call' = [OutdatedCalls EXCEPT ![c].at = "ok", ![c].issued = "current"]
  /\ tangled' = Exchanging
  /\ UNCHANGED <<url, ready, access, refreshing, leftover>>

\* A logout clears the cookie of its answer, then deletes the key, whoever stored it.
AcceptLogout(c) ==
  /\ call[c].at = "sent" /\ call[c].kind = "logout" /\ call[c].token = "good"
  /\ key' = FALSE
  /\ cookie' = Outdated(cookie)
  /\ exchange' = Outdating
  /\ call' = [OutdatedCalls EXCEPT ![c].at = "ok"]
  /\ tangled' = (tangled \/ Exchanging)
  /\ UNCHANGED <<url, ready, access, refreshing, leftover>>

\* Redis does not delete it: a 500, which clears the cookie all the same.
FailLogout(c) ==
  /\ call[c].at = "sent" /\ call[c].kind = "logout" /\ call[c].token = "good"
  /\ call' = [call EXCEPT ![c].at = "failed"]
  /\ UNCHANGED <<key, cookie, url, ready, access, refreshing, exchange, tangled, leftover>>

\* 401: a token that is missing or has expired, or the wrong password.
Refuse(c) ==
  /\ call[c].at = "sent"
  /\ call[c].kind = "login" \/ call[c].token # "good"
  /\ call' = [call EXCEPT ![c].at = "refused"]
  /\ UNCHANGED <<key, cookie, url, ready, access, refreshing, exchange, tangled, leftover>>

\* "other" remembers one refresh; a second one that nobody waits for is a lost one.
Abandoned == IF InFlight("other") \/ exchange["own"].at = "refused" THEN Ended("own")
             ELSE [own |-> NoExchange, other |-> exchange["own"]]

\* store.logout() loads /login, a reload loads the page again: the calls of the tab are
\* gone, and a refresh in flight goes on in the server without anybody waiting for it.
Unload(to) ==
  /\ url' = to
  /\ ready' = FALSE
  /\ access' = "none"
  /\ refreshing' = FALSE
  /\ call' = [c \in Call |-> NoCall]
  /\ exchange' = Abandoned

\* The answer of a call arrives; a login puts the tab in the application.
Answer(c) ==
  /\ call[c].at = "ok" /\ call[c].kind \notin {"login", "logout"}
  /\ call' = [call EXCEPT ![c] = NoCall]
  /\ UNCHANGED <<key, cookie, url, ready, access, refreshing, exchange, tangled, leftover>>

SignedIn(c) ==
  /\ call[c].at = "ok" /\ call[c].kind = "login"
  /\ cookie' = call[c].issued
  /\ leftover' = FALSE
  /\ access' = "good"
  /\ url' = "app"
  /\ call' = [call EXCEPT ![c] = NoCall]
  /\ UNCHANGED <<key, ready, refreshing, exchange, tangled>>

\* onSettled of useLogout, whatever became of the call: any answer of the handler clears the
\* cookie, a 500 too.
SignedOut(c) ==
  /\ call[c].at \in {"sent", "ok", "failed"} /\ call[c].kind = "logout"
  /\ \/ /\ call[c].at # "sent"
        /\ cookie' = "none"
        /\ leftover' = (leftover \/ call[c].at = "failed")
        /\ tangled' = (tangled \/ InFlight("own"))
     \/ /\ UNCHANGED <<cookie, leftover>>
        /\ tangled' = (tangled \/ InFlight("own") \/ SignedBlind)
  /\ Unload("login")
  /\ UNCHANGED key

\* 30 seconds, the network, a 403 or a 500: the call is rejected, before or after it ran.
Fail(c) ==
  /\ call[c].at \in {"sent", "ok"} /\ call[c].kind # "logout"
  /\ call' = [call EXCEPT ![c] = NoCall]
  /\ tangled' = (tangled \/ (call[c].kind = "login" /\ call[c].at = "ok"))
  /\ UNCHANGED <<key, cookie, url, ready, access, refreshing, exchange, leftover>>

------------------------------------------------------------------------------
(* A 401.                                                                   *)

BadWait(c) ==
  /\ call[c].at = "refused" /\ ~call[c].retried /\ refreshing
  /\ ~InFlight("other")
  /\ call' = [call EXCEPT ![c].at = "waiting"]
  /\ exchange' = Started("other")
  /\ UNCHANGED <<key, cookie, url, ready, access, refreshing, tangled, leftover>>

\* While a refresh is running the call waits in pendingRequests, and is not marked.
Wait(c) ==
  /\ call[c].at = "refused" /\ ~call[c].retried /\ refreshing
  /\ call' = [call EXCEPT ![c].at = "waiting"]
  /\ UNCHANGED <<key, cookie, url, ready, access, refreshing, exchange, tangled, leftover>>

\* Otherwise it refreshes, and is marked _retry.
Lead(c) ==
  /\ call[c].at = "refused" /\ ~call[c].retried /\ ~refreshing /\ ~InFlight("own")
  /\ call' = [call EXCEPT ![c].at = "leading", ![c].retried = TRUE]
  /\ refreshing' = TRUE
  /\ exchange' = Started("own")
  /\ tangled' = (tangled \/ Exchanging \/ Signing)
  /\ UNCHANGED <<key, cookie, url, ready, access, leftover>>

\* A marked call that is refused again ends the session of the tab.
GiveUp(c) ==
  /\ call[c].at = "refused" /\ call[c].retried
  /\ Unload("login")
  /\ tangled' = (tangled \/ InFlight("own") \/ Signing)
  /\ UNCHANGED <<key, cookie, leftover>>

Held == {c \in Call : call[c].at \in {"waiting", "leading"}}

BadRenew ==
  /\ refreshing /\ exchange["own"].at = "stored"
  /\ access' = "good"
  /\ cookie' = exchange["own"].token
  /\ leftover' = FALSE
  /\ refreshing' = FALSE
  /\ exchange' = Ended("own")
  /\ call' = [c \in Call |-> IF call[c].at = "leading"
                              THEN [call[c] EXCEPT !.at = "sent", !.token = "good", !.again = TRUE]
                              ELSE call[c]]
  /\ UNCHANGED <<key, url, ready, tangled>>

\* The refresh answers: setTokens, processQueue, and the call that led is sent again.
Renew ==
  /\ refreshing /\ exchange["own"].at = "stored"
  /\ access' = "good"
  /\ cookie' = exchange["own"].token
  /\ leftover' = FALSE
  /\ refreshing' = FALSE
  /\ exchange' = Ended("own")
  /\ call' = [c \in Call |-> IF c \in Held
                              THEN [call[c] EXCEPT !.at = "sent", !.token = "good", !.again = TRUE]
                              ELSE call[c]]
  /\ UNCHANGED <<key, url, ready, tangled>>

\* It is refused or lost: processQueue rejects the calls, then store.logout().  A server
\* that is still busy with it goes on.
NotRenewed ==
  /\ refreshing /\ InFlight("own")
  /\ \/ exchange["own"].at = "refused" /\ tangled' = (tangled \/ Signing)
     \/ tangled' = TRUE
  /\ Unload("login")
  /\ UNCHANGED <<key, cookie, leftover>>

------------------------------------------------------------------------------
(* Loading the application: App calls tryRefresh before it shows anything.  *)

Reload ==
  /\ ready
  /\ Unload(url)
  /\ tangled' = (tangled \/ InFlight("own") \/ Signing)
  /\ UNCHANGED <<key, cookie, leftover>>

Boot ==
  /\ ~ready /\ ~InFlight("own")
  /\ exchange' = Started("own")
  /\ tangled' = (tangled \/ Exchanging)
  /\ UNCHANGED <<key, cookie, url, ready, access, refreshing, call, leftover>>

Booted ==
  /\ ~ready /\ exchange["own"].at = "stored"
  /\ cookie' = exchange["own"].token
  /\ leftover' = FALSE
  /\ access' = "good"
  /\ ready' = TRUE
  /\ exchange' = Ended("own")
  /\ UNCHANGED <<key, url, refreshing, call, tangled>>

\* Refused or lost: the tab has no token and ProtectedRoute goes to the login page.
NotBooted ==
  /\ ~ready /\ InFlight("own")
  /\ ready' = TRUE
  /\ url' = "login"
  /\ exchange' = Ended("own")
  /\ tangled' = (tangled \/ exchange["own"].at # "refused")
  /\ UNCHANGED <<key, cookie, access, refreshing, call, leftover>>

\* The user asks for a page of the application from the login page.
OpenApp ==
  /\ ready /\ url = "login"
  /\ Unload("app")
  /\ tangled' = (tangled \/ InFlight("own") \/ Signing)
  /\ UNCHANGED <<key, cookie, leftover>>

\* Another tab of the browser loads the application.  Bound: not after a disturbance, which
\* a second one does not make worse.
OtherBoots ==
  /\ ~InFlight("other") /\ ~tangled
  /\ exchange' = Started("other")
  /\ tangled' = (tangled \/ Exchanging \/ Signing)
  /\ UNCHANGED <<key, cookie, url, ready, access, refreshing, call, leftover>>

\* The answer of a refresh this tab does not wait for; it may be lost.
OtherAnswered ==
  /\ InFlight("other")
  /\ exchange' = Ended("other")
  /\ \/ /\ exchange["other"].at = "stored"
        /\ cookie' = exchange["other"].token
        /\ leftover' = FALSE
        /\ UNCHANGED tangled
     \/ /\ UNCHANGED <<cookie, leftover>>
        /\ tangled' = (tangled \/ exchange["other"].at # "refused")
  /\ UNCHANGED <<key, url, ready, access, refreshing, call>>

------------------------------------------------------------------------------
(* What must hold.                                                          *)

\* When nothing is in flight the cookie of the browser is the token the server holds,
\* so that the next refresh or the next page is not refused, unless two exchanges
\* overlapped or the answer of one was lost (client.ts:90-140, auth.store.ts:56-80,
\* auth.service.ts:154-222: the key changes before the browser knows).  A logout that could
\* not delete the key leaves it there without a cookie (auth.controller.ts:72).
InSync == ~tangled /\ ~Exchanging /\ ~Signing => cookie = IF key /\ ~leftover THEN "current" ELSE "none"
==============================================================================
