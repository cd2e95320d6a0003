--------------------------- MODULE Session_proofs ---------------------------
(***************************************************************************)
(* The invariants of Session, for any number of accounts, any limit of     *)
(* failed logins and any finite number of concurrent requests.  The three  *)
(* concerns of the module are proved apart, each over the same typing:     *)
(* the sessions (a request that passed its checks may store a session long *)
(* after they stopped being true), the scopes (two writes that only agree  *)
(* at the end) and the counter of failed logins.                           *)
(***************************************************************************)
EXTENDS Session, FiniteSetTheorems, TLAPS

\* The types, but for the bound on the counters, which LockoutBound gives; a request
\* that is served is about an account.
Typed ==
  /\ standing \in [User -> {"unused", "active", "inactive", "deleted"}]
  /\ role     \in [User -> Role]
  /\ scoped   \subseteq User
  /\ key      \subseteq User
  /\ attempts \in [User -> Nat]
  /\ expiring \subseteq User
  /\ request  \in [Request -> RequestState]
  /\ old      \subseteq key
  /\ late     \subseteq User
  /\ missed   \subseteq User
  /\ torn     \subseteq User
  /\ \A r \in Request : request[r].at # "idle" => request[r].user \in User

\* A session that no later change outdates belongs to an active account, and so does one
\* that a request is about to store.
SessionsKept ==
  /\ \A u \in key \ old : standing[u] = "active"
  /\ \A r \in Request :
       request[r].at \in {"clear", "store"} /\ ~request[r].outdated => standing[request[r].user] = "active"
  /\ SessionsEnd

ScopeWrites == {"clear scopes", "replace scopes", "role"}

\* What a request that updates an account relies on, unless updates of it overlap: the
\* scopes match the role until its first write, and then the role it is about to write.
Relying(r) ==
  \A u \in User \ torn : request[r].user = u /\ Exists(u) =>
    /\ request[r].at \in {"clear scopes", "replace scopes"} => (u \in scoped <=> role[u] = "CONTRIBUTEUR")
    /\ request[r].at = "clear scopes" => NextRole(u, request[r].to) # "CONTRIBUTEUR"
    /\ request[r].at = "replace scopes" => NextRole(u, request[r].to) = "CONTRIBUTEUR"
    /\ request[r].at = "role" => (u \in scoped <=> NextRole(u, request[r].to) = "CONTRIBUTEUR")

ScopesKept ==
  /\ \A u \in User : standing[u] = "unused" => u \notin scoped
  /\ \A r \in Request : request[r].at \in ScopeWrites => standing[request[r].user] # "unused"
  /\ \A r, s \in Request :
       request[r].at \in ScopeWrites /\ request[s].at \in ScopeWrites
         /\ request[r].user = request[s].user /\ r # s => request[r].user \in torn
  /\ \A r \in Request : Relying(r)
  /\ ScopesMatchRole

\* The inductive invariant.
Inv == Typed /\ SessionsKept /\ ScopesKept /\ LockoutBound

(***************************************************************************)
(* What a step does to the requests.                                       *)
(***************************************************************************)

\* A free request slot has the type of a request.
LEMMA IdleType == Idle \in RequestState
BY DEF Idle, RequestState, Phase

\* Begin takes a free slot.
LEMMA BeginEffect ==
  ASSUME Typed, NEW r \in Request, NEW u \in User, NEW at \in Phase, Begin(r, u, at)
  PROVE  /\ request' \in [Request -> RequestState]
         /\ request[r] = Idle
         /\ request'[r] = [Idle EXCEPT !.at = at, !.user = u]
         /\ \A s \in Request \ {r} : request'[s] = request[s]
<1>1. [Idle EXCEPT !.at = at, !.user = u] \in RequestState
  BY IdleType DEF RequestState
<1>2. request' = [request EXCEPT ![r] = [Idle EXCEPT !.at = at, !.user = u]]
  BY DEF Begin, Typed
<1> QED BY <1>1, <1>2 DEF Begin, Typed

\* Goto moves one request.
LEMMA GotoEffect ==
  ASSUME Typed, NEW r \in Request, NEW at \in Phase, Goto(r, at)
  PROVE  /\ request' \in [Request -> RequestState]
         /\ request'[r] = [request[r] EXCEPT !.at = at]
         /\ \A s \in Request \ {r} : request'[s] = request[s]
<1>1. [request[r] EXCEPT !.at = at] \in RequestState
  BY DEF Typed, RequestState
<1> QED BY <1>1 DEF Typed, Goto

\* Finish frees one slot.
LEMMA FinishEffect ==
  ASSUME Typed, NEW r \in Request, Finish(r)
  PROVE  /\ request' \in [Request -> RequestState]
         /\ request'[r] = Idle
         /\ \A s \in Request \ {r} : request'[s] = request[s]
BY IdleType DEF Typed, Finish

\* Outdate moves one request and marks those that are about to store a session of u; it
\* leaves where the others stand.
LEMMA OutdateEffect ==
  ASSUME Typed, NEW r \in Request, NEW u \in User, NEW next \in RequestState, Outdate(r, u, next)
  PROVE  /\ request' \in [Request -> RequestState]
         /\ request'[r] = next
         /\ \A s \in Request \ {r} :
              /\ request'[s].at = request[s].at /\ request'[s].user = request[s].user
              /\ request'[s].to = request[s].to /\ request'[s].active = request[s].active
              /\ request'[s].outdated =
                   (request[s].outdated \/ (request[s].user = u /\ request[s].at \in {"clear", "store"}))
         /\ old' = old \cup ({u} \cap key)
<1> DEFINE mark(s) == request[s].user = u /\ request[s].at \in {"clear", "store"}
<1>1. \A s \in Request : [request[s] EXCEPT !.outdated = TRUE] \in RequestState
  BY DEF Typed, RequestState
<1>2. request' \in [Request -> RequestState]
  BY <1>1 DEF Outdate, Typed
<1>3. ASSUME NEW s \in Request \ {r}, mark(s)
      PROVE  request'[s] = [request[s] EXCEPT !.outdated = TRUE]
  BY <1>3 DEF Outdate
<1>4. ASSUME NEW s \in Request \ {r}, ~mark(s)
      PROVE  request'[s] = request[s]
  BY <1>4 DEF Outdate
<1>5. \A s \in Request \ {r} :
        /\ request'[s].at = request[s].at /\ request'[s].user = request[s].user
        /\ request'[s].to = request[s].to /\ request'[s].active = request[s].active
        /\ request'[s].outdated =
             (request[s].outdated \/ (request[s].user = u /\ request[s].at \in {"clear", "store"}))
  <2> SUFFICES ASSUME NEW s \in Request \ {r}
               PROVE  /\ request'[s].at = request[s].at /\ request'[s].user = request[s].user
                      /\ request'[s].to = request[s].to /\ request'[s].active = request[s].active
                      /\ request'[s].outdated = (request[s].outdated \/ mark(s))
    OBVIOUS
  <2>0. request[s] \in RequestState
    BY DEF Typed
  <2>1. CASE mark(s)
    BY <1>3, <2>0, <2>1 DEF RequestState
  <2>2. CASE ~mark(s)
    BY <1>4, <2>0, <2>2 DEF RequestState
  <2> QED BY <2>1, <2>2
<1>6. request'[r] = next /\ old' = old \cup ({u} \cap key)
  BY DEF Outdate
<1> QED BY <1>2, <1>5, <1>6

(***************************************************************************)
(* The types.                                                              *)
(***************************************************************************)

\* Accepting a request changes no account, session or counter, and starts one request.
LEMMA AcceptTyped ==
  ASSUME Typed, NEW r \in Request, Accept(r) PROVE Typed'
<1> USE DEF accounts, sessions, counters
<1> PICK u \in User :
      \/ Login(r, u) \/ Refresh(r, u) \/ BeginToggle(r, u) \/ BeginPassword(r, u) \/ BeginDelete(r, u)
      \/ \E to \in Role \cup {"same"}, department \in BOOLEAN : BeginUpdate(r, u, to, department)
  BY DEF Accept
<1>1. ASSUME NEW at \in Phase, Begin(r, u, at), UNCHANGED <<accounts, sessions, counters, torn>>
      PROVE  Typed'
  <2>1. /\ request' \in [Request -> RequestState]
        /\ request'[r] = [Idle EXCEPT !.at = at, !.user = u]
        /\ \A s \in Request \ {r} : request'[s] = request[s]
    BY <1>1, BeginEffect
  <2>2. request'[r].user = u
    BY <2>1 DEF Idle
  <2>3. \A s \in Request : request'[s].at # "idle" => request'[s].user \in User
    BY <2>1, <2>2 DEF Typed
  <2> QED BY <1>1, <2>1, <2>3 DEF Typed
<1>2. CASE Login(r, u) \/ BeginPassword(r, u) \/ BeginDelete(r, u)
  BY <1>1, <1>2 DEF Login, BeginPassword, BeginDelete, Phase
<1>3. CASE Refresh(r, u)
  <2> DEFINE q == [Idle EXCEPT !.at = "store", !.user = u, !.outdated = u \in old]
  <2>1. request' = [request EXCEPT ![r] = q]
    BY <1>3 DEF Refresh, Typed
  <2>2. (u \in old) \in BOOLEAN
    OBVIOUS
  <2>3. \A b \in BOOLEAN : [Idle EXCEPT !.at = "store", !.user = u, !.outdated = b] \in RequestState
    BY DEF Idle, RequestState, Phase
  <2>4. q \in RequestState
    BY <2>2, <2>3
  <2>5. q.user = u
    BY DEF Idle
  <2> QED BY <1>3, <2>1, <2>4, <2>5 DEF Refresh, Typed
<1>4. CASE BeginToggle(r, u)
  <2> DEFINE q == [Idle EXCEPT !.at = "activate", !.user = u, !.active = standing[u] = "inactive"]
  <2>1. request' = [request EXCEPT ![r] = q]
    BY <1>4 DEF BeginToggle, Typed
  <2>2. q \in RequestState /\ q.user = u
    BY DEF Idle, RequestState, Phase
  <2> QED BY <1>4, <2>1, <2>2 DEF BeginToggle, Typed
<1>5. CASE \E to \in Role \cup {"same"}, department \in BOOLEAN : BeginUpdate(r, u, to, department)
  <2> PICK to \in Role \cup {"same"}, department \in BOOLEAN : BeginUpdate(r, u, to, department)
    BY <1>5
  <2> DEFINE q == [Idle EXCEPT !.at = FirstWrite(u, to, department), !.user = u, !.to = to]
  <2>1. request' = [request EXCEPT ![r] = q]
    BY DEF BeginUpdate, Typed
  <2>2. FirstWrite(u, to, department) \in ScopeWrites
    BY DEF FirstWrite, ScopeWrites
  <2>3. q \in RequestState /\ q.user = u
    BY <2>2 DEF Idle, RequestState, Phase, ScopeWrites
  <2>4. torn' \subseteq User /\ UNCHANGED <<accounts, sessions, counters>>
    BY DEF BeginUpdate, Typed
  <2>5. request' \in [Request -> RequestState] /\ \A s \in Request : request'[s].at # "idle" => request'[s].user \in User
    BY <2>1, <2>3 DEF Typed
  <2> QED BY <2>4, <2>5 DEF Typed
<1> QED BY <1>2, <1>3, <1>4, <1>5

\* A step of a handler.
LEMMA ProceedTyped ==
  ASSUME Typed, NEW r \in Request, Proceed(r) PROVE Typed'
<1> USE DEF accounts, sessions, counters
<1> DEFINE u == request[r].user
<1> DEFINE Moved(q) == /\ request' \in [Request -> RequestState]
                       /\ request'[r] = q
                       /\ \A s \in Request \ {r} : request'[s] = request[s]
<1>0. request[r] \in RequestState
  BY DEF Typed
<1>1. ASSUME Finish(r) PROVE Moved(Idle)
  BY <1>1, FinishEffect
<1>2. ASSUME NEW at \in Phase, Goto(r, at) PROVE Moved([request[r] EXCEPT !.at = at])
  BY <1>2, GotoEffect
<1>3. ASSUME Finish(r) PROVE \A s \in Request : request'[s].at # "idle" => request'[s].user \in User
  BY <1>1, <1>3 DEF Typed, Idle
<1>4. ASSUME u \in User, NEW at \in Phase, Goto(r, at)
      PROVE  \A s \in Request : request'[s].at # "idle" => request'[s].user \in User
  <2>1. request'[r].user = u
    BY <1>0, <1>2, <1>4 DEF RequestState
  <2> QED BY <1>2, <1>4, <2>1 DEF Typed
<1>5. ASSUME u \in User, NEW at \in {"idle", "revoke"}, Outdate(r, u, IF at = "idle" THEN Idle ELSE [request[r] EXCEPT !.at = at])
      PROVE  /\ request' \in [Request -> RequestState]
             /\ \A s \in Request : request'[s].at # "idle" => request'[s].user \in User
             /\ old' \subseteq key
  <2> DEFINE next == IF at = "idle" THEN Idle ELSE [request[r] EXCEPT !.at = at]
  <2>1. next \in RequestState /\ (next.at # "idle" => next.user = u)
    BY <1>0, IdleType DEF RequestState, Phase, Idle
  <2>2. /\ request' \in [Request -> RequestState]
        /\ request'[r] = next
        /\ \A s \in Request \ {r} : request'[s].at = request[s].at /\ request'[s].user = request[s].user
        /\ old' = old \cup ({u} \cap key)
    BY <1>5, <2>1, OutdateEffect
  <2> QED BY <1>5, <2>1, <2>2 DEF Typed
<1>6. CASE CheckCredentials(r)
  <2>0. u \in User
    BY <1>6 DEF CheckCredentials, Typed
  <2>1. Finish(r) \/ Goto(r, "count") \/ Goto(r, "clear")
    BY <1>6 DEF CheckCredentials
  <2> QED BY <1>1, <1>2, <1>3, <1>4, <1>6, <2>0, <2>1 DEF CheckCredentials, Typed, Phase
<1>7. CASE CountFailure(r)
  <2>1. u \in User /\ Goto(r, "expire")
    BY <1>7 DEF CountFailure, Typed
  <2>2. /\ request' \in [Request -> RequestState]
        /\ \A s \in Request : request'[s].at # "idle" => request'[s].user \in User
    BY <1>2, <1>4, <2>1 DEF Phase
  <2>3. attempts' \in [User -> Nat]
    BY <1>7 DEF CountFailure, Typed
  <2> QED BY <1>7, <2>2, <2>3 DEF CountFailure, Typed
<1>8. CASE SetExpiry(r)
  BY <1>1, <1>3, <1>8 DEF SetExpiry, Typed
<1>9. CASE ClearAttempts(r)
  BY <1>2, <1>4, <1>9 DEF ClearAttempts, ForgetCounter, Typed, Phase
<1>10. CASE StoreRefreshToken(r)
  BY <1>1, <1>3, <1>10 DEF StoreRefreshToken, Typed
<1>11. CASE SetActiveState(r)
  <2>0. u \in User
    BY <1>11 DEF SetActiveState, Typed
  <2>1. standing' \in [User -> {"unused", "active", "inactive", "deleted"}]
    BY <1>11 DEF SetActiveState, Typed
  <2>2. CASE request[r].active
    BY <1>1, <1>3, <1>11, <2>1, <2>2 DEF SetActiveState, Typed
  <2>3. CASE ~request[r].active
    <3>1. Outdate(r, u, [request[r] EXCEPT !.at = "revoke"])
      BY <1>11, <2>3 DEF SetActiveState
    <3> QED BY <1>5, <1>11, <2>0, <2>1, <3>1 DEF SetActiveState, Typed
  <2> QED BY <2>2, <2>3
<1>12. CASE UpdatePassword(r)
  <2>0. u \in User
    BY <1>12 DEF UpdatePassword, Typed
  <2>1. Outdate(r, u, [request[r] EXCEPT !.at = "revoke"])
    BY <1>12 DEF UpdatePassword
  <2> QED BY <1>5, <1>12, <2>0, <2>1 DEF UpdatePassword, Typed
<1>13. CASE Revoke(r, "revoke", "idle") \/ Revoke(r, "revoke first", "delete")
  <2>0. u \in User
    BY <1>13 DEF Revoke, Typed
  <2>1. Finish(r) \/ Goto(r, "delete")
    BY <1>13 DEF Revoke
  <2>2. request' \in [Request -> RequestState] /\ \A s \in Request : request'[s].at # "idle" => request'[s].user \in User
    BY <1>1, <1>2, <1>3, <1>4, <2>0, <2>1 DEF Phase
  <2>3. key' \subseteq User /\ old' \subseteq key' /\ late' \subseteq User
    BY <1>13 DEF Revoke, DeleteKey, Typed
  <2>4. UNCHANGED <<accounts, counters, torn>>
    BY <1>13 DEF Revoke
  <2> QED BY <2>2, <2>3, <2>4 DEF Typed
<1>14. CASE DeleteUser(r)
  <2>0. u \in User
    BY <1>14 DEF DeleteUser, Typed
  <2>1. Outdate(r, u, Idle)
    BY <1>14 DEF DeleteUser
  <2>2. /\ request' \in [Request -> RequestState]
        /\ \A s \in Request : request'[s].at # "idle" => request'[s].user \in User
        /\ old' \subseteq key
    BY <1>5, <2>0, <2>1
  <2> QED BY <1>14, <2>0, <2>2 DEF DeleteUser, Typed
<1>15. CASE ClearDepartmentScopes(r) \/ ReplaceDepartmentScopes(r)
  BY <1>2, <1>4, <1>15 DEF ClearDepartmentScopes, ReplaceDepartmentScopes, Typed, Phase
<1>16. CASE UpdateRole(r)
  <2>1. role' \in [User -> Role]
    BY <1>0, <1>16 DEF UpdateRole, NextRole, Typed, RequestState
  <2> QED BY <1>1, <1>3, <1>16, <2>1 DEF UpdateRole, Typed
<1> QED BY <1>6, <1>7, <1>8, <1>9, <1>10, <1>11, <1>12, <1>13, <1>14, <1>15, <1>16 DEF Proceed

\* Every step keeps the types.
LEMMA StepTyped == Typed /\ [Next]_vars => Typed'
<1> SUFFICES ASSUME Typed, [Next]_vars PROVE Typed'
  OBVIOUS
<1> USE DEF accounts, sessions, counters
<1>1. CASE \E r \in Request : Accept(r)
  BY <1>1, AcceptTyped
<1>2. CASE \E r \in Request : Proceed(r)
  BY <1>2, ProceedTyped
<1>3. ASSUME NEW r \in Request, Fail(r) PROVE Typed'
  <2>1. /\ request' \in [Request -> RequestState]
        /\ request'[r] = Idle
        /\ \A s \in Request \ {r} : request'[s] = request[s]
    BY <1>3, FinishEffect DEF Fail
  <2>2. late' \subseteq User /\ missed' \subseteq User /\ torn' \subseteq User
    BY <1>3 DEF Fail, Typed, RequestState, Idle
  <2> QED BY <1>3, <2>1, <2>2 DEF Fail, Typed, Idle
<1>4. ASSUME NEW u \in User, Logout(u) \/ ExpireKey(u) PROVE Typed'
  BY <1>4 DEF Logout, ExpireKey, DeleteKey, Typed
<1>5. ASSUME NEW u \in User, ExpireCounter(u) PROVE Typed'
  BY <1>5 DEF ExpireCounter, ForgetCounter, Typed
<1>6. ASSUME NEW u \in User, NEW ro \in Role, InviteUser(u, ro) PROVE Typed'
  BY <1>6 DEF InviteUser, CreateInvitedUser, Typed
<1>7. CASE UNCHANGED vars
  BY <1>7 DEF vars, Typed
<1> QED BY <1>1, <1>2, <1>3, <1>4, <1>5, <1>6, <1>7 DEF Next

\* What accepting a request amounts to: nothing is written, one slot is taken, and what
\* the request remembers was true when it was read.
LEMMA AcceptEffect ==
  ASSUME Typed, NEW r \in Request, Accept(r)
  PROVE  /\ UNCHANGED <<standing, role, scoped, key, old, late, attempts, expiring, missed>>
         /\ request[r] = Idle
         /\ \A s \in Request \ {r} : request'[s] = request[s]
         /\ \/ /\ request'[r].at \notin ScopeWrites \cup {"clear", "store", "revoke", "count"}
               /\ request'[r].at = "check" => attempts[request'[r].user] < MaxAttempts
               /\ torn' = torn
            \/ /\ request'[r].at = "store" /\ request'[r].user \in key
               /\ request'[r].outdated = (request'[r].user \in old)
               /\ torn' = torn
            \/ \E u \in User, to \in Role \cup {"same"}, department \in BOOLEAN :
                 /\ BeginUpdate(r, u, to, department)
                 /\ request'[r].at = FirstWrite(u, to, department) /\ request'[r].user = u
                 /\ request'[r].to = to
<1> USE DEF accounts, sessions, counters
<1> PICK u \in User :
      \/ Login(r, u) \/ Refresh(r, u) \/ BeginToggle(r, u) \/ BeginPassword(r, u) \/ BeginDelete(r, u)
      \/ \E to \in Role \cup {"same"}, department \in BOOLEAN : BeginUpdate(r, u, to, department)
  BY DEF Accept
<1>1. ASSUME NEW at \in {"check", "password", "revoke first"}, Begin(r, u, at),
             UNCHANGED <<accounts, sessions, counters, torn>>,
             at = "check" => attempts[u] < MaxAttempts
      PROVE  /\ request[r] = Idle
             /\ \A s \in Request \ {r} : request'[s] = request[s]
             /\ request'[r].at \notin ScopeWrites \cup {"clear", "store", "revoke", "count"}
             /\ request'[r].at = "check" => attempts[request'[r].user] < MaxAttempts
  <2>1. /\ request[r] = Idle
        /\ request'[r] = [Idle EXCEPT !.at = at, !.user = u]
        /\ \A s \in Request \ {r} : request'[s] = request[s]
    <3>1. at \in Phase
      BY DEF Phase
    <3> QED BY <1>1, <3>1, BeginEffect
  <2>2. request'[r].at = at /\ request'[r].user = u
    BY <2>1 DEF Idle
  <2> QED BY <1>1, <2>1, <2>2 DEF ScopeWrites
<1>2. CASE Login(r, u) \/ BeginPassword(r, u) \/ BeginDelete(r, u)
  BY <1>1, <1>2 DEF Login, BeginPassword, BeginDelete
<1>3. CASE Refresh(r, u)
  <2>1. request'[r] = [Idle EXCEPT !.at = "store", !.user = u, !.outdated = u \in old]
    BY <1>3 DEF Refresh, Typed
  <2>2. request'[r].at = "store" /\ request'[r].user = u /\ request'[r].outdated = (u \in old)
    BY <2>1 DEF Idle
  <2> QED BY <1>3, <2>2 DEF Refresh, Typed
<1>4. CASE BeginToggle(r, u)
  <2>1. request'[r] = [Idle EXCEPT !.at = "activate", !.user = u, !.active = standing[u] = "inactive"]
    BY <1>4 DEF BeginToggle, Typed
  <2>2. request'[r].at = "activate"
    BY <2>1 DEF Idle
  <2> QED BY <1>4, <2>2 DEF BeginToggle, ScopeWrites, Typed
<1>5. CASE \E to \in Role \cup {"same"}, department \in BOOLEAN : BeginUpdate(r, u, to, department)
  <2> PICK to \in Role \cup {"same"}, department \in BOOLEAN : BeginUpdate(r, u, to, department)
    BY <1>5
  <2>1. request'[r] = [Idle EXCEPT !.at = FirstWrite(u, to, department), !.user = u, !.to = to]
    BY DEF BeginUpdate, Typed
  <2>2. request'[r].at = FirstWrite(u, to, department) /\ request'[r].user = u /\ request'[r].to = to
    BY <2>1 DEF Idle
  <2> QED BY <2>2 DEF BeginUpdate, Typed
<1> QED BY <1>2, <1>3, <1>4, <1>5

(***************************************************************************)
(* The sessions.                                                           *)
(***************************************************************************)

\* A step of a request that neither stores, outdates nor removes a session.
LEMMA QuietKept ==
  ASSUME Typed, SessionsKept, NEW r \in Request,
         UNCHANGED <<standing, key, old, late>>,
         \A s \in Request \ {r} : request'[s] = request[s],
         request[r].at # "revoke",
         request'[r].at \in {"clear", "store"} /\ ~request'[r].outdated =>
           standing[request'[r].user] = "active"
  PROVE  SessionsKept'
<1>1. \A s \in Request : request[s].at = "revoke" => request'[s] = request[s]
  OBVIOUS
<1>2. SessionsEnd'
  BY <1>1 DEF SessionsKept, SessionsEnd
<1>3. ASSUME NEW s \in Request, request'[s].at \in {"clear", "store"}, ~request'[s].outdated
      PROVE  standing[request'[s].user] = "active"
  BY <1>3 DEF SessionsKept
<1> QED BY <1>2, <1>3 DEF SessionsKept

\* Removing the key of an account ends its session, whatever it was.
LEMMA DeleteKeyKept ==
  ASSUME Typed, SessionsKept, NEW u \in User, DeleteKey(u), standing' = standing,
         \A s \in Request : request'[s] = request[s] \/ (request[s].user = u /\ request'[s].at \notin {"clear", "store"})
  PROVE  SessionsKept'
<1>1. SessionsEnd'
  <2> SUFFICES ASSUME NEW v \in User, v \in old' \/ (v \in key' /\ standing[v] # "active")
               PROVE  v \in late' \/ \E s \in Request : request'[s].user = v /\ request'[s].at = "revoke"
    BY DEF SessionsEnd
  <2>1. v # u /\ (v \in old \/ (v \in key /\ standing[v] # "active"))
    BY DEF DeleteKey, Typed
  <2>2. v \in late \/ \E s \in Request : request[s].user = v /\ request[s].at = "revoke"
    BY <2>1 DEF SessionsKept, SessionsEnd
  <2> QED BY <2>1, <2>2 DEF DeleteKey
<1>2. ASSUME NEW s \in Request, request'[s].at \in {"clear", "store"}, ~request'[s].outdated
      PROVE  standing[request'[s].user] = "active"
  BY <1>2 DEF SessionsKept
<1>3. \A v \in key' \ old' : standing[v] = "active"
  BY DEF SessionsKept, DeleteKey
<1> QED BY <1>1, <1>2, <1>3 DEF SessionsKept

\* Outdating the sessions of an account whose standing may change with it, when their
\* removal follows or is recorded as missed.
LEMMA OutdateKept ==
  ASSUME Typed, SessionsKept, NEW r \in Request, NEW u \in User, NEW next \in RequestState, Outdate(r, u, next),
         key' = key, late \subseteq late',
         \A v \in User \ {u} : standing'[v] = standing[v],
         request[r].at # "revoke", next.at \notin {"clear", "store"},
         \/ next.user = u /\ next.at = "revoke"
         \/ {u} \cap key \subseteq late'
  PROVE  SessionsKept'
<1>1. /\ request'[r] = next
      /\ \A s \in Request \ {r} :
           /\ request'[s].at = request[s].at /\ request'[s].user = request[s].user
           /\ request'[s].outdated =
                (request[s].outdated \/ (request[s].user = u /\ request[s].at \in {"clear", "store"}))
      /\ old' = old \cup ({u} \cap key)
  BY OutdateEffect
<1>2. SessionsEnd'
  <2> SUFFICES ASSUME NEW v \in User, v \in old' \/ (v \in key' /\ standing'[v] # "active")
               PROVE  v \in late' \/ \E s \in Request : request'[s].user = v /\ request'[s].at = "revoke"
    BY DEF SessionsEnd
  <2>1. CASE v = u
    BY <1>1, <2>1 DEF Typed
  <2>2. CASE v # u
    <3>1. v \in late \/ \E s \in Request : request[s].user = v /\ request[s].at = "revoke"
      BY <1>1, <2>2 DEF SessionsKept, SessionsEnd
    <3> QED BY <1>1, <3>1
  <2> QED BY <2>1, <2>2
<1>3. ASSUME NEW s \in Request, request'[s].at \in {"clear", "store"}, ~request'[s].outdated
      PROVE  standing'[request'[s].user] = "active"
  <2>1. s # r /\ request[s].at \in {"clear", "store"} /\ ~request[s].outdated /\ request[s].user # u
    BY <1>1, <1>3
  <2>2. request[s].user \in User
    BY <2>1 DEF Typed
  <2> QED BY <1>1, <2>1, <2>2 DEF SessionsKept
<1>4. \A v \in key' \ old' : standing'[v] = "active"
  BY <1>1 DEF SessionsKept, Typed
<1> QED BY <1>2, <1>3, <1>4 DEF SessionsKept

\* Storing a session: one that is outdated is recorded, one that is not belongs to an
\* active account.
LEMMA StoreKept ==
  ASSUME Typed, SessionsKept, NEW r \in Request, StoreRefreshToken(r) PROVE SessionsKept'
<1> DEFINE u == request[r].user
<1> USE DEF accounts
<1>0. u \in User /\ (~request[r].outdated => standing[u] = "active")
  BY DEF StoreRefreshToken, Typed, SessionsKept
<1>1. request'[r] = Idle /\ \A s \in Request \ {r} : request'[s] = request[s]
  BY FinishEffect DEF StoreRefreshToken
<1>2. SessionsEnd'
  <2> SUFFICES ASSUME NEW v \in User, v \in old' \/ (v \in key' /\ standing[v] # "active")
               PROVE  v \in late' \/ \E s \in Request : request'[s].user = v /\ request'[s].at = "revoke"
    BY DEF SessionsEnd, StoreRefreshToken
  <2>1. CASE v = u
    BY <1>0, <2>1 DEF StoreRefreshToken
  <2>2. CASE v # u
    <3>1. v \in late \/ \E s \in Request : request[s].user = v /\ request[s].at = "revoke"
      BY <2>2 DEF StoreRefreshToken, SessionsKept, SessionsEnd
    <3> QED BY <1>1, <2>2, <3>1 DEF StoreRefreshToken
  <2> QED BY <2>1, <2>2
<1>3. ASSUME NEW s \in Request, request'[s].at \in {"clear", "store"}, ~request'[s].outdated
      PROVE  standing[request'[s].user] = "active"
  BY <1>1, <1>3 DEF SessionsKept, Idle
<1>4. \A v \in key' \ old' : standing[v] = "active"
  BY <1>0 DEF StoreRefreshToken, SessionsKept
<1> QED BY <1>2, <1>3, <1>4 DEF SessionsKept, StoreRefreshToken

\* Each step of a handler is one of these, or quiet.
LEMMA ProceedKept ==
  ASSUME Typed, SessionsKept, NEW r \in Request, Proceed(r) PROVE SessionsKept'
<1> USE DEF accounts, sessions, counters
<1> DEFINE u == request[r].user
<1>0. request[r] \in RequestState /\ (request[r].at # "idle" => u \in User)
  BY DEF Typed
<1>1. ASSUME NEW at \in Phase, Goto(r, at)
      PROVE  /\ request'[r].at = at /\ request'[r].user = u /\ request'[r].outdated = request[r].outdated
             /\ \A s \in Request \ {r} : request'[s] = request[s]
  <2>1. /\ request'[r] = [request[r] EXCEPT !.at = at]
        /\ \A s \in Request \ {r} : request'[s] = request[s]
    BY <1>1, GotoEffect
  <2>2. request'[r].at = at /\ request'[r].user = u
    BY <1>0, <2>1 DEF RequestState
  <2>3. request'[r].outdated = request[r].outdated
    BY <1>0, <2>1 DEF RequestState
  <2> QED BY <2>1, <2>2, <2>3
<1>2. ASSUME Finish(r)
      PROVE  request'[r].at = "idle" /\ \A s \in Request \ {r} : request'[s] = request[s]
  BY <1>2, FinishEffect DEF Idle
<1>3. CASE CheckCredentials(r)
  <2>1. UNCHANGED <<standing, key, old, late>> /\ request[r].at = "check"
    BY <1>3 DEF CheckCredentials
  <2>2. CASE Finish(r)
    BY <1>2, <2>1, <2>2, QuietKept
  <2>3. CASE Goto(r, "count")
    BY <1>1, <2>1, <2>3, QuietKept DEF Phase
  <2>4. CASE standing[u] = "active" /\ Goto(r, "clear")
    BY <1>1, <2>1, <2>4, QuietKept DEF Phase
  <2> QED BY <1>3, <2>2, <2>3, <2>4 DEF CheckCredentials
<1>4. CASE CountFailure(r) \/ ClearDepartmentScopes(r) \/ ReplaceDepartmentScopes(r)
  <2>1. (Goto(r, "expire") \/ Goto(r, "role")) /\ request[r].at # "revoke" /\ UNCHANGED <<standing, key, old, late>>
    BY <1>4 DEF CountFailure, ClearDepartmentScopes, ReplaceDepartmentScopes
  <2> QED BY <1>1, <2>1, QuietKept DEF Phase
<1>5. CASE SetExpiry(r) \/ UpdateRole(r)
  <2>1. Finish(r) /\ request[r].at # "revoke" /\ UNCHANGED <<standing, key, old, late>>
    BY <1>5 DEF SetExpiry, UpdateRole
  <2> QED BY <1>2, <2>1, QuietKept
<1>6. CASE ClearAttempts(r)
  <2>1. Goto(r, "store") /\ request[r].at = "clear" /\ UNCHANGED <<standing, key, old, late>>
    BY <1>6 DEF ClearAttempts
  <2>2. ~request[r].outdated => standing[u] = "active"
    BY <2>1 DEF SessionsKept
  <2> QED BY <1>1, <2>1, <2>2, QuietKept DEF Phase
<1>7. CASE StoreRefreshToken(r)
  BY <1>7, StoreKept
<1>8. CASE SetActiveState(r)
  <2>1. request[r].at = "activate" /\ key' = key /\ late' = late
    BY <1>8 DEF SetActiveState
  <2>2. \A v \in User \ {u} : standing'[v] = standing[v]
    BY <1>8 DEF SetActiveState, Typed
  <2>3. CASE request[r].active
    <3>1. Finish(r) /\ old' = old
      BY <1>8, <2>3 DEF SetActiveState
    <3>2. \A v \in User : standing[v] = "active" => standing'[v] = "active"
      BY <1>0, <1>8, <2>3 DEF SetActiveState, Typed
    <3>3. SessionsEnd'
      <4>1. \A s \in Request : request[s].at = "revoke" => request'[s] = request[s]
        BY <1>2, <2>1, <3>1
      <4> QED BY <2>1, <3>1, <3>2, <4>1 DEF SessionsKept, SessionsEnd
    <3>4. ASSUME NEW s \in Request, request'[s].at \in {"clear", "store"}, ~request'[s].outdated
          PROVE  standing'[request'[s].user] = "active"
      <4>1. request'[s] = request[s]
        BY <1>2, <3>1, <3>4
      <4>2. request[s].user \in User
        BY <3>4, <4>1 DEF Typed
      <4> QED BY <3>2, <3>4, <4>1, <4>2 DEF SessionsKept
    <3>5. \A v \in key' \ old' : standing'[v] = "active"
      BY <2>1, <3>1, <3>2 DEF SessionsKept, Typed
    <3> QED BY <3>3, <3>4, <3>5 DEF SessionsKept
  <2>4. CASE ~request[r].active
    <3> DEFINE next == [request[r] EXCEPT !.at = "revoke"]
    <3>1. next \in RequestState /\ next.at = "revoke" /\ next.user = u
      BY <1>0 DEF RequestState, Phase
    <3>2. Outdate(r, u, next)
      BY <1>8, <2>4 DEF SetActiveState
    <3> QED BY <1>0, <2>1, <2>2, <3>1, <3>2, OutdateKept
  <2> QED BY <2>3, <2>4
<1>9. CASE UpdatePassword(r)
  <2> DEFINE next == [request[r] EXCEPT !.at = "revoke"]
  <2>1. next \in RequestState /\ next.at = "revoke" /\ next.user = u
    BY <1>0 DEF RequestState, Phase
  <2>2. Outdate(r, u, next) /\ request[r].at = "password" /\ UNCHANGED <<standing, key, late>>
    BY <1>9 DEF UpdatePassword
  <2> QED BY <1>0, <2>1, <2>2, OutdateKept
<1>10. CASE Revoke(r, "revoke", "idle") \/ Revoke(r, "revoke first", "delete")
  <2>1. u \in User /\ DeleteKey(u) /\ standing' = standing /\ (Finish(r) \/ Goto(r, "delete"))
    BY <1>0, <1>10 DEF Revoke
  <2>2. request'[r].at \notin {"clear", "store"} /\ \A s \in Request \ {r} : request'[s] = request[s]
    BY <1>1, <1>2, <2>1 DEF Phase
  <2> QED BY <2>1, <2>2, DeleteKeyKept
<1>11. CASE DeleteUser(r)
  <2>1. u \in User /\ request[r].at = "delete" /\ key' = key
    BY <1>0, <1>11 DEF DeleteUser
  <2>2. late \subseteq late' /\ {u} \cap key \subseteq late'
    BY <1>11 DEF DeleteUser
  <2>3. \A v \in User \ {u} : standing'[v] = standing[v]
    BY <1>11 DEF DeleteUser, Typed
  <2>4. Outdate(r, u, Idle) /\ Idle.at = "idle"
    BY <1>11 DEF DeleteUser, Idle
  <2> QED BY <2>1, <2>2, <2>3, <2>4, IdleType, OutdateKept
<1> QED BY <1>3, <1>4, <1>5, <1>6, <1>7, <1>8, <1>9, <1>10, <1>11 DEF Proceed

\* So is every other step.
LEMMA StepKept == Typed /\ SessionsKept /\ [Next]_vars => SessionsKept'
<1> SUFFICES ASSUME Typed, SessionsKept, [Next]_vars PROVE SessionsKept'
  OBVIOUS
<1> USE DEF accounts, sessions, counters
<1>1. ASSUME NEW r \in Request, Accept(r) PROVE SessionsKept'
  <2>1. /\ UNCHANGED <<standing, key, old, late>>
        /\ request[r].at # "revoke"
        /\ \A s \in Request \ {r} : request'[s] = request[s]
    BY <1>1, AcceptEffect DEF Idle
  <2>2. request'[r].at \in {"clear", "store"} /\ ~request'[r].outdated => request'[r].user \in key \ old
    BY <1>1, AcceptEffect DEF FirstWrite, ScopeWrites
  <2> QED BY <2>1, <2>2, QuietKept DEF SessionsKept
<1>2. CASE \E r \in Request : Proceed(r)
  BY <1>2, ProceedKept
<1>3. ASSUME NEW r \in Request, Fail(r) PROVE SessionsKept'
  <2>1. request'[r].at = "idle" /\ \A s \in Request \ {r} : request'[s] = request[s]
    BY <1>3, FinishEffect DEF Fail, Idle
  <2>2. CASE request[r].at # "revoke"
    BY <1>3, <2>1, <2>2, QuietKept DEF Fail
  <2>3. CASE request[r].at = "revoke"
    <3>1. SessionsEnd'
      <4> SUFFICES ASSUME NEW v \in User, v \in old \/ (v \in key /\ standing[v] # "active")
                   PROVE  v \in late' \/ \E s \in Request : request'[s].user = v /\ request'[s].at = "revoke"
        BY <1>3 DEF SessionsEnd, Fail
      <4>1. v \in late \/ \E s \in Request : request[s].user = v /\ request[s].at = "revoke"
        BY DEF SessionsKept, SessionsEnd
      <4>2. v \in key
        BY DEF Typed
      <4> QED BY <1>3, <2>1, <2>3, <4>1, <4>2 DEF Fail
    <3>2. ASSUME NEW s \in Request, request'[s].at \in {"clear", "store"}, ~request'[s].outdated
          PROVE  standing[request'[s].user] = "active"
      BY <2>1, <3>2 DEF SessionsKept
    <3> QED BY <1>3, <3>1, <3>2 DEF SessionsKept, Fail
  <2> QED BY <2>2, <2>3
<1>4. ASSUME NEW u \in User, Logout(u) \/ ExpireKey(u) PROVE SessionsKept'
  <2>1. DeleteKey(u) /\ standing' = standing /\ request' = request
    BY <1>4 DEF Logout, ExpireKey
  <2> QED BY <2>1, DeleteKeyKept
<1>5. ASSUME NEW u \in User, ExpireCounter(u) PROVE SessionsKept'
  BY <1>5 DEF ExpireCounter, SessionsKept, SessionsEnd
<1>6. ASSUME NEW u \in User, NEW ro \in Role, InviteUser(u, ro) PROVE SessionsKept'
  <2>1. \A v \in User : standing[v] = "active" => standing'[v] = "active"
    BY <1>6 DEF InviteUser, CreateInvitedUser, Typed
  <2>2. SessionsEnd'
    BY <1>6, <2>1 DEF InviteUser, CreateInvitedUser, SessionsKept, SessionsEnd
  <2>3. ASSUME NEW s \in Request, request[s].at \in {"clear", "store"}, ~request[s].outdated
        PROVE  standing'[request[s].user] = "active"
    BY <2>1, <2>3 DEF SessionsKept, Typed
  <2>4. \A v \in key \ old : standing'[v] = "active"
    BY <2>1 DEF SessionsKept, Typed
  <2> QED BY <1>6, <2>2, <2>3, <2>4 DEF InviteUser, CreateInvitedUser, SessionsKept
<1>7. CASE UNCHANGED vars
  BY <1>7 DEF vars, SessionsKept, SessionsEnd
<1> QED BY <1>1, <1>2, <1>3, <1>4, <1>5, <1>6, <1>7 DEF Next

(***************************************************************************)
(* The scopes.                                                             *)
(***************************************************************************)

\* A step that takes no request through the writes of an update, and neither creates an
\* account nor touches the role or the scopes of one that remains.
LEMMA ScopesQuiet ==
  ASSUME Typed, ScopesKept, role' = role, torn' = torn, scoped' \subseteq scoped,
         \A v \in User : /\ Exists(v)' => Exists(v) /\ (v \in scoped' <=> v \in scoped)
                         /\ standing'[v] = "unused" => standing[v] = "unused",
         \A s \in Request :
           \/ /\ request'[s].at = request[s].at /\ request'[s].user = request[s].user
              /\ request'[s].to = request[s].to
           \/ request'[s].at \notin ScopeWrites /\ request[s].at \notin ScopeWrites
  PROVE  ScopesKept'
<1>1. \A v \in User : standing'[v] = "unused" => v \notin scoped'
  BY DEF ScopesKept
<1>2. \A s \in Request : request'[s].at \in ScopeWrites => standing'[request'[s].user] # "unused"
  BY DEF ScopesKept, Typed, ScopeWrites
<1>3. \A s, t \in Request :
        request'[s].at \in ScopeWrites /\ request'[t].at \in ScopeWrites
          /\ request'[s].user = request'[t].user /\ s # t => request'[s].user \in torn'
  BY DEF ScopesKept
<1>4. ASSUME NEW s \in Request PROVE Relying(s)'
  <2>1. Relying(s)
    BY DEF ScopesKept
  <2>2. CASE request'[s].at \notin ScopeWrites
    BY <2>2 DEF Relying, ScopeWrites
  <2>3. CASE request'[s].at = request[s].at /\ request'[s].user = request[s].user /\ request'[s].to = request[s].to
    BY <2>1, <2>3 DEF Relying, NextRole
  <2> QED BY <2>2, <2>3
<1>5. ScopesMatchRole'
  <2>1. \A v \in User : Updating(v) => Updating(v)'
    BY DEF Updating, ScopeWrites
  <2> QED BY <2>1 DEF ScopesKept, ScopesMatchRole
<1> QED BY <1>1, <1>2, <1>3, <1>4, <1>5 DEF ScopesKept

\* An update begins: either another one of the account is under way, or its scopes match
\* its role and tell which write comes first.
LEMMA BeginUpdateKept ==
  ASSUME Typed, ScopesKept, NEW r \in Request, NEW u \in User, NEW to \in Role \cup {"same"},
         NEW department \in BOOLEAN, BeginUpdate(r, u, to, department),
         request[r] = Idle, \A s \in Request \ {r} : request'[s] = request[s],
         request'[r].at = FirstWrite(u, to, department), request'[r].user = u, request'[r].to = to
  PROVE  ScopesKept'
<1> USE DEF accounts
<1>0. /\ UNCHANGED <<standing, role, scoped>> /\ Exists(u)
      /\ torn \subseteq torn' /\ (Updating(u) => u \in torn') /\ torn' \subseteq torn \cup {u}
  BY DEF BeginUpdate
<1>1. \A v \in User : standing'[v] = "unused" => v \notin scoped'
  BY <1>0 DEF ScopesKept
<1>2. \A s \in Request : request'[s].at \in ScopeWrites => standing'[request'[s].user] # "unused"
  BY <1>0 DEF ScopesKept, Exists
<1>3. ASSUME NEW s \in Request, NEW t \in Request, s # t, request'[s].user = request'[t].user,
             request'[s].at \in ScopeWrites, request'[t].at \in ScopeWrites
      PROVE  request'[s].user \in torn'
  <2>1. CASE s # r /\ t # r
    BY <1>0, <1>3, <2>1 DEF ScopesKept
  <2>2. CASE s = r \/ t = r
    <3>1. Updating(u)
      BY <1>3, <2>2 DEF Updating, ScopeWrites
    <3> QED BY <1>0, <1>3, <2>2, <3>1
  <2> QED BY <2>1, <2>2
<1>4. ASSUME NEW s \in Request PROVE Relying(s)'
  <2>1. CASE s # r
    BY <1>0, <2>1 DEF ScopesKept, Relying, Exists, NextRole
  <2>2. CASE s = r
    <3> SUFFICES ASSUME u \notin torn'
                 PROVE  /\ request'[r].at \in {"clear scopes", "replace scopes"} =>
                             (u \in scoped <=> role[u] = "CONTRIBUTEUR")
                        /\ request'[r].at = "clear scopes" => NextRole(u, to) # "CONTRIBUTEUR"
                        /\ request'[r].at = "replace scopes" => NextRole(u, to) = "CONTRIBUTEUR"
                        /\ request'[r].at = "role" => (u \in scoped <=> NextRole(u, to) = "CONTRIBUTEUR")
      BY <1>0, <2>2 DEF Relying, Exists, NextRole
    <3>1. u \in scoped <=> role[u] = "CONTRIBUTEUR"
      BY <1>0 DEF ScopesKept, ScopesMatchRole
    <3>2. NextRole(u, to) = "CONTRIBUTEUR" => department \/ u \in scoped
      BY DEF BeginUpdate
    <3>3. CASE NextRole(u, to) # "CONTRIBUTEUR" /\ role[u] = "CONTRIBUTEUR"
      BY <3>1, <3>3 DEF FirstWrite
    <3>4. CASE NextRole(u, to) = "CONTRIBUTEUR" /\ department
      BY <3>1, <3>4 DEF FirstWrite
    <3>5. CASE /\ ~(NextRole(u, to) # "CONTRIBUTEUR" /\ role[u] = "CONTRIBUTEUR")
               /\ ~(NextRole(u, to) = "CONTRIBUTEUR" /\ department)
      <4>1. request'[r].at = "role"
        BY <3>5 DEF FirstWrite
      <4> QED BY <3>1, <3>2, <3>5, <4>1
    <3> QED BY <3>3, <3>4, <3>5
  <2> QED BY <2>1, <2>2
<1>5. ScopesMatchRole'
  <2>0. request[r].at = "idle"
    BY DEF Idle
  <2>1. \A v \in User : Updating(v) => Updating(v)'
    BY <2>0 DEF Updating
  <2> QED BY <1>0, <2>1 DEF ScopesKept, ScopesMatchRole, Exists
<1> QED BY <1>1, <1>2, <1>3, <1>4, <1>5 DEF ScopesKept

\* The first write of an update brings the scopes to the role that comes next.
LEMMA FirstWriteKept ==
  ASSUME Typed, ScopesKept, NEW r \in Request, ClearDepartmentScopes(r) \/ ReplaceDepartmentScopes(r)
  PROVE  ScopesKept'
<1> DEFINE u == request[r].user
<1>0. /\ u \in User /\ request[r] \in RequestState /\ request[r].at \in ScopeWrites /\ standing[u] # "unused"
      /\ UNCHANGED <<standing, role, torn>>
  BY DEF ClearDepartmentScopes, ReplaceDepartmentScopes, Typed, ScopeWrites, ScopesKept
<1>1. /\ request'[r].at = "role" /\ request'[r].user = u /\ request'[r].to = request[r].to
      /\ \A s \in Request \ {r} : request'[s] = request[s]
  <2>1. /\ request'[r] = [request[r] EXCEPT !.at = "role"]
        /\ \A s \in Request \ {r} : request'[s] = request[s]
    BY GotoEffect DEF ClearDepartmentScopes, ReplaceDepartmentScopes, Phase
  <2> QED BY <1>0, <2>1 DEF RequestState
<1>2. \A v \in User \ {u} : v \in scoped' <=> v \in scoped
  BY DEF ClearDepartmentScopes, ReplaceDepartmentScopes
<1>3. \A v \in User : standing'[v] = "unused" => v \notin scoped'
  BY <1>0, <1>2 DEF ScopesKept
<1>4. \A s \in Request : request'[s].at \in ScopeWrites => standing'[request'[s].user] # "unused"
  BY <1>0, <1>1 DEF ScopesKept
<1>5. \A s, t \in Request :
        request'[s].at \in ScopeWrites /\ request'[t].at \in ScopeWrites
          /\ request'[s].user = request'[t].user /\ s # t => request'[s].user \in torn'
  BY <1>0, <1>1 DEF ScopesKept
<1>6. ASSUME NEW s \in Request PROVE Relying(s)'
  <2>1. CASE s = r
    <3> SUFFICES ASSUME u \notin torn, Exists(u)
                 PROVE  u \in scoped' <=> NextRole(u, request[r].to) = "CONTRIBUTEUR"
      BY <1>0, <1>1, <2>1 DEF Relying, Exists, NextRole
    <3>1. Relying(r)
      BY DEF ScopesKept
    <3> QED BY <1>0, <3>1 DEF Relying, ClearDepartmentScopes, ReplaceDepartmentScopes
  <2>2. CASE s # r /\ request[s].user # u
    <3>1. Relying(s) /\ request'[s] = request[s]
      BY <1>1, <2>2 DEF ScopesKept
    <3> QED BY <1>0, <1>2, <2>2, <3>1 DEF Relying, Exists, NextRole
  <2>3. CASE s # r /\ request[s].user = u
    <3>1. request[s].at \in ScopeWrites => u \in torn
      BY <1>0, <2>3 DEF ScopesKept
    <3> QED BY <1>0, <1>1, <2>3, <3>1 DEF Relying, ScopeWrites
  <2> QED BY <2>1, <2>2, <2>3
<1>7. ScopesMatchRole'
  <2>1. \A v \in User : Updating(v) => Updating(v)'
    BY <1>1 DEF Updating
  <2>2. \A v \in User : v = u => Updating(v)'
    BY <1>1 DEF Updating
  <2> SUFFICES ASSUME NEW v \in User, Exists(v), v # u, v \notin torn, ~Updating(v)
               PROVE  v \in scoped' <=> role[v] = "CONTRIBUTEUR"
    BY <1>0, <2>1, <2>2 DEF ScopesMatchRole, Exists
  <2> QED BY <1>2 DEF ScopesKept, ScopesMatchRole
<1> QED BY <1>3, <1>4, <1>5, <1>6, <1>7 DEF ScopesKept

\* The role is written last.
LEMMA UpdateRoleKept ==
  ASSUME Typed, ScopesKept, NEW r \in Request, UpdateRole(r) PROVE ScopesKept'
<1> DEFINE u == request[r].user
<1>0. /\ u \in User /\ request[r].at = "role" /\ standing[u] # "unused" /\ UNCHANGED <<standing, scoped, torn>>
  BY DEF UpdateRole, Typed, ScopeWrites, ScopesKept
<1>1. /\ request'[r].at = "idle"
      /\ \A s \in Request \ {r} : request'[s] = request[s]
  BY FinishEffect DEF UpdateRole, Idle
<1>2. /\ \A v \in User \ {u} : role'[v] = role[v]
      /\ Exists(u) => role'[u] = NextRole(u, request[r].to)
  BY <1>0 DEF UpdateRole, Typed
<1>3. \A v \in User : standing'[v] = "unused" => v \notin scoped'
  BY <1>0 DEF ScopesKept
<1>4. \A s \in Request : request'[s].at \in ScopeWrites => standing'[request'[s].user] # "unused"
  BY <1>0, <1>1 DEF ScopesKept, ScopeWrites
<1>5. \A s, t \in Request :
        request'[s].at \in ScopeWrites /\ request'[t].at \in ScopeWrites
          /\ request'[s].user = request'[t].user /\ s # t => request'[s].user \in torn'
  BY <1>0, <1>1 DEF ScopesKept, ScopeWrites
<1>6. ASSUME NEW s \in Request PROVE Relying(s)'
  <2>1. CASE s = r
    BY <1>1, <2>1 DEF Relying
  <2>2. CASE s # r /\ request[s].user # u
    <3>1. Relying(s) /\ request'[s] = request[s]
      BY <1>1, <2>2 DEF ScopesKept
    <3> QED BY <1>0, <1>2, <2>2, <3>1 DEF Relying, Exists, NextRole
  <2>3. CASE s # r /\ request[s].user = u
    <3>1. request[s].at \in ScopeWrites => u \in torn
      BY <1>0, <2>3 DEF ScopesKept, ScopeWrites
    <3> QED BY <1>0, <1>1, <2>3, <3>1 DEF Relying, ScopeWrites
  <2> QED BY <2>1, <2>2, <2>3
<1>7. ScopesMatchRole'
  <2> SUFFICES ASSUME NEW v \in User, Exists(v), v \notin torn
               PROVE  (v \in scoped <=> role'[v] = "CONTRIBUTEUR") \/ Updating(v)'
    BY <1>0 DEF ScopesMatchRole, Exists
  <2>1. CASE v = u
    <3>1. Relying(r)
      BY DEF ScopesKept
    <3> QED BY <1>0, <1>2, <2>1, <3>1 DEF Relying
  <2>2. CASE v # u
    <3>1. Updating(v) => Updating(v)'
      BY <1>1, <2>2 DEF Updating
    <3> QED BY <1>2, <2>2, <3>1 DEF ScopesKept, ScopesMatchRole
  <2> QED BY <2>1, <2>2
<1> QED BY <1>3, <1>4, <1>5, <1>6, <1>7 DEF ScopesKept

\* An update that stops before its first write leaves scopes and role as they match; one
\* that stops between the two is recorded.
LEMMA FailScopesKept ==
  ASSUME Typed, ScopesKept, NEW r \in Request, Fail(r) PROVE ScopesKept'
<1> USE DEF accounts
<1> DEFINE u == request[r].user
<1>0. /\ UNCHANGED <<standing, role, scoped>> /\ torn \subseteq torn'
      /\ request[r].at = "role" => u \in torn'
  BY DEF Fail
<1>1. /\ request'[r].at = "idle"
      /\ \A s \in Request \ {r} : request'[s] = request[s]
  BY FinishEffect DEF Fail, Idle
<1>2. \A v \in User : standing'[v] = "unused" => v \notin scoped'
  BY <1>0 DEF ScopesKept
<1>3. \A s \in Request : request'[s].at \in ScopeWrites => standing'[request'[s].user] # "unused"
  BY <1>0, <1>1 DEF ScopesKept, ScopeWrites
<1>4. \A s, t \in Request :
        request'[s].at \in ScopeWrites /\ request'[t].at \in ScopeWrites
          /\ request'[s].user = request'[t].user /\ s # t => request'[s].user \in torn'
  BY <1>0, <1>1 DEF ScopesKept, ScopeWrites
<1>5. ASSUME NEW s \in Request PROVE Relying(s)'
  <2>1. CASE s = r
    BY <1>1, <2>1 DEF Relying
  <2>2. CASE s # r
    BY <1>0, <1>1, <2>2 DEF ScopesKept, Relying, Exists, NextRole
  <2> QED BY <2>1, <2>2
<1>6. ScopesMatchRole'
  <2> SUFFICES ASSUME NEW v \in User, Exists(v), v \notin torn'
               PROVE  (v \in scoped <=> role[v] = "CONTRIBUTEUR") \/ Updating(v)'
    BY <1>0 DEF ScopesMatchRole, Exists
  <2>1. (v \in scoped <=> role[v] = "CONTRIBUTEUR") \/ Updating(v)
    BY <1>0 DEF ScopesKept, ScopesMatchRole
  <2>2. CASE v = u /\ request[r].at \in {"clear scopes", "replace scopes"}
    <3>1. Relying(r)
      BY DEF ScopesKept
    <3> QED BY <1>0, <2>2, <3>1 DEF Relying
  <2>3. CASE ~(v = u /\ request[r].at \in {"clear scopes", "replace scopes"})
    <3>1. Updating(v) => Updating(v)'
      BY <1>0, <1>1, <2>3 DEF Updating
    <3> QED BY <2>1, <3>1
  <2> QED BY <2>2, <2>3
<1> QED BY <1>2, <1>3, <1>4, <1>5, <1>6 DEF ScopesKept

\* An invited contributor gets its department with its account.
LEMMA InviteKept ==
  ASSUME Typed, ScopesKept, NEW u \in User, NEW ro \in Role, InviteUser(u, ro) PROVE ScopesKept'
<1>0. /\ standing[u] = "unused" /\ u \notin scoped /\ UNCHANGED <<request, torn>>
      /\ standing'[u] = "active" /\ role'[u] = ro /\ (u \in scoped' <=> ro = "CONTRIBUTEUR")
      /\ \A v \in User \ {u} : standing'[v] = standing[v] /\ role'[v] = role[v] /\ (v \in scoped' <=> v \in scoped)
  BY DEF InviteUser, CreateInvitedUser, Typed, ScopesKept
<1>1. \A s \in Request : request[s].at \in ScopeWrites => request[s].user \in User \ {u}
  BY <1>0 DEF ScopesKept, Typed, ScopeWrites
<1>2. \A v \in User : standing'[v] = "unused" => v \notin scoped'
  BY <1>0 DEF ScopesKept
<1>3. \A s \in Request : request'[s].at \in ScopeWrites => standing'[request'[s].user] # "unused"
  BY <1>0, <1>1 DEF ScopesKept
<1>4. \A s, t \in Request :
        request'[s].at \in ScopeWrites /\ request'[t].at \in ScopeWrites
          /\ request'[s].user = request'[t].user /\ s # t => request'[s].user \in torn'
  BY <1>0 DEF ScopesKept
<1>5. ASSUME NEW s \in Request PROVE Relying(s)'
  <2>1. CASE request[s].at \notin ScopeWrites
    BY <1>0, <2>1 DEF Relying, ScopeWrites
  <2>2. CASE request[s].at \in ScopeWrites
    <3>1. Relying(s)
      BY DEF ScopesKept
    <3> QED BY <1>0, <1>1, <2>2, <3>1 DEF Relying, Exists, NextRole
  <2> QED BY <2>1, <2>2
<1>6. ScopesMatchRole'
  <2>1. \A v \in User : Updating(v) => Updating(v)'
    BY <1>0 DEF Updating
  <2> QED BY <1>0, <2>1 DEF ScopesKept, ScopesMatchRole, Exists
<1> QED BY <1>2, <1>3, <1>4, <1>5, <1>6 DEF ScopesKept

\* Where a request goes that makes none of the writes of an update.
LEMMA ScopesMoved ==
  ASSUME Typed, ScopesKept, NEW r \in Request, UNCHANGED <<standing, role, scoped, torn>>,
         request[r].at \notin ScopeWrites, request'[r].at \notin ScopeWrites,
         \A s \in Request \ {r} : request'[s].at = request[s].at /\ request'[s].user = request[s].user
                                  /\ request'[s].to = request[s].to
  PROVE  ScopesKept'
BY ScopesQuiet DEF Exists

\* The steps of the other handlers.
LEMMA ProceedScopesKept ==
  ASSUME Typed, ScopesKept, NEW r \in Request, Proceed(r) PROVE ScopesKept'
<1> USE DEF accounts
<1> DEFINE u == request[r].user
<1>0. request[r] \in RequestState /\ (request[r].at # "idle" => u \in User)
  BY DEF Typed
<1>1. ASSUME NEW at \in Phase, Goto(r, at)
      PROVE  request'[r].at = at /\ \A s \in Request \ {r} : request'[s] = request[s]
  <2>1. /\ request'[r] = [request[r] EXCEPT !.at = at]
        /\ \A s \in Request \ {r} : request'[s] = request[s]
    BY <1>1, GotoEffect
  <2> QED BY <1>0, <2>1 DEF RequestState
<1>2. ASSUME Finish(r)
      PROVE  request'[r].at = "idle" /\ \A s \in Request \ {r} : request'[s] = request[s]
  BY <1>2, FinishEffect DEF Idle
<1>3. ASSUME u \in User, NEW at \in {"idle", "revoke"}, Outdate(r, u, IF at = "idle" THEN Idle ELSE [request[r] EXCEPT !.at = at])
      PROVE  /\ request'[r].at = at
             /\ \A s \in Request \ {r} : /\ request'[s].at = request[s].at /\ request'[s].user = request[s].user
                                         /\ request'[s].to = request[s].to
  <2> DEFINE next == IF at = "idle" THEN Idle ELSE [request[r] EXCEPT !.at = at]
  <2>1. next \in RequestState /\ next.at = at
    BY <1>0, IdleType DEF RequestState, Phase, Idle
  <2> QED BY <1>3, <2>1, OutdateEffect
<1>4. CASE CheckCredentials(r) \/ CountFailure(r) \/ ClearAttempts(r)
  <2>1. /\ UNCHANGED <<standing, role, scoped, torn>> /\ request[r].at \notin ScopeWrites
        /\ Finish(r) \/ Goto(r, "count") \/ Goto(r, "clear") \/ Goto(r, "expire") \/ Goto(r, "store")
    BY <1>4 DEF CheckCredentials, CountFailure, ClearAttempts, ScopeWrites
  <2>2. request'[r].at \notin ScopeWrites /\ \A s \in Request \ {r} : request'[s] = request[s]
    BY <1>1, <1>2, <2>1 DEF ScopeWrites, Phase
  <2> QED BY <2>1, <2>2, ScopesMoved
<1>5. CASE SetExpiry(r) \/ StoreRefreshToken(r)
  <2>1. UNCHANGED <<standing, role, scoped, torn>> /\ request[r].at \notin ScopeWrites /\ Finish(r)
    BY <1>5 DEF SetExpiry, StoreRefreshToken, ScopeWrites
  <2>2. request'[r].at \notin ScopeWrites /\ \A s \in Request \ {r} : request'[s] = request[s]
    BY <1>2, <2>1 DEF ScopeWrites
  <2> QED BY <2>1, <2>2, ScopesMoved
<1>6. CASE Revoke(r, "revoke", "idle") \/ Revoke(r, "revoke first", "delete")
  <2>1. UNCHANGED <<standing, role, scoped, torn>> /\ request[r].at \notin ScopeWrites /\ (Finish(r) \/ Goto(r, "delete"))
    BY <1>6 DEF Revoke, ScopeWrites
  <2>2. request'[r].at \notin ScopeWrites /\ \A s \in Request \ {r} : request'[s] = request[s]
    BY <1>1, <1>2, <2>1 DEF ScopeWrites, Phase
  <2> QED BY <2>1, <2>2, ScopesMoved
<1>7. CASE UpdatePassword(r)
  <2>1. /\ UNCHANGED <<standing, role, scoped, torn>> /\ request[r].at \notin ScopeWrites /\ u \in User
        /\ Outdate(r, u, [request[r] EXCEPT !.at = "revoke"])
    BY <1>0, <1>7 DEF UpdatePassword, ScopeWrites
  <2>2. /\ request'[r].at \notin ScopeWrites
        /\ \A s \in Request \ {r} : /\ request'[s].at = request[s].at /\ request'[s].user = request[s].user
                                    /\ request'[s].to = request[s].to
    BY <1>3, <2>1 DEF ScopeWrites
  <2> QED BY <2>1, <2>2, ScopesMoved
<1>8. CASE SetActiveState(r)
  <2>1. /\ UNCHANGED <<role, scoped, torn>> /\ request[r].at = "activate" /\ u \in User
        /\ \/ Finish(r)
           \/ Outdate(r, u, [request[r] EXCEPT !.at = "revoke"])
    BY <1>0, <1>8 DEF SetActiveState
  <2>2. /\ request'[r].at \notin ScopeWrites
        /\ \A s \in Request \ {r} : /\ request'[s].at = request[s].at /\ request'[s].user = request[s].user
                                    /\ request'[s].to = request[s].to
    BY <1>2, <1>3, <2>1 DEF ScopeWrites
  <2>3. \A v \in User : /\ Exists(v)' => Exists(v)
                        /\ standing'[v] = "unused" => standing[v] = "unused"
    BY <1>8 DEF SetActiveState, Exists, Typed
  <2> QED BY <2>1, <2>2, <2>3, ScopesQuiet DEF ScopeWrites
<1>9. CASE DeleteUser(r)
  <2>1. /\ UNCHANGED <<role, torn>> /\ request[r].at = "delete" /\ u \in User /\ scoped' = scoped \ {u}
        /\ Outdate(r, u, Idle)
    BY <1>0, <1>9 DEF DeleteUser
  <2>2. /\ request'[r].at \notin ScopeWrites
        /\ \A s \in Request \ {r} : /\ request'[s].at = request[s].at /\ request'[s].user = request[s].user
                                    /\ request'[s].to = request[s].to
    BY <1>3, <2>1 DEF ScopeWrites
  <2>3. \A v \in User : /\ Exists(v)' => Exists(v) /\ (v \in scoped' <=> v \in scoped)
                        /\ standing'[v] = "unused" => standing[v] = "unused"
    BY <1>9, <2>1 DEF DeleteUser, Exists, Typed
  <2> QED BY <2>1, <2>2, <2>3, ScopesQuiet DEF ScopeWrites
<1>10. CASE ClearDepartmentScopes(r) \/ ReplaceDepartmentScopes(r)
  BY <1>10, FirstWriteKept
<1>11. CASE UpdateRole(r)
  BY <1>11, UpdateRoleKept
<1> QED BY <1>4, <1>5, <1>6, <1>7, <1>8, <1>9, <1>10, <1>11 DEF Proceed

\* So does every other step.
LEMMA StepScopesKept == Typed /\ ScopesKept /\ [Next]_vars => ScopesKept'
<1> SUFFICES ASSUME Typed, ScopesKept, [Next]_vars PROVE ScopesKept'
  OBVIOUS
<1> USE DEF accounts
<1>1. ASSUME NEW r \in Request, Accept(r) PROVE ScopesKept'
  <2>1. /\ UNCHANGED <<standing, role, scoped>> /\ request[r] = Idle
        /\ \A s \in Request \ {r} : request'[s] = request[s]
    BY <1>1, AcceptEffect
  <2>2. request[r].at \notin ScopeWrites
    BY <2>1 DEF Idle, ScopeWrites
  <2>3. CASE request'[r].at \notin ScopeWrites /\ torn' = torn
    BY <2>1, <2>2, <2>3, ScopesMoved
  <2>4. CASE \E u \in User, to \in Role \cup {"same"}, department \in BOOLEAN :
               /\ BeginUpdate(r, u, to, department)
               /\ request'[r].at = FirstWrite(u, to, department) /\ request'[r].user = u
               /\ request'[r].to = to
    BY <2>1, <2>4, BeginUpdateKept
  <2> QED BY <1>1, <2>3, <2>4, AcceptEffect DEF ScopeWrites
<1>2. CASE \E r \in Request : Proceed(r)
  BY <1>2, ProceedScopesKept
<1>3. CASE \E r \in Request : Fail(r)
  BY <1>3, FailScopesKept
<1>4. ASSUME NEW u \in User, Logout(u) \/ ExpireKey(u) \/ ExpireCounter(u) PROVE ScopesKept'
  <2>1. UNCHANGED <<standing, role, scoped, torn, request>>
    BY <1>4 DEF Logout, ExpireKey, ExpireCounter
  <2> QED BY <2>1, ScopesQuiet DEF Exists
<1>5. CASE \E u \in User : \E ro \in Role : InviteUser(u, ro)
  BY <1>5, InviteKept
<1>6. CASE UNCHANGED vars
  <2>1. UNCHANGED <<standing, role, scoped, torn, request>>
    BY <1>6 DEF vars
  <2> QED BY <2>1, ScopesQuiet DEF Exists
<1> QED BY <1>1, <1>2, <1>3, <1>4, <1>5, <1>6 DEF Next

(***************************************************************************)
(* The counter of failed logins.                                           *)
(***************************************************************************)

\* The logins under way are at most as many as the requests.
LEMMA RequestsBound ==
  ASSUME NEW S \in SUBSET Request
  PROVE  /\ IsFiniteSet(S) /\ Cardinality(S) \in Nat
         /\ Cardinality(Request) \in Nat
         /\ Cardinality(S) <= Cardinality(Request)
BY SessionAssumption, FS_Subset, FS_CardinalityType

\* After a step that counts no failure and accepts no login, the bound still holds.
LEMMA BoundQuiet ==
  ASSUME Typed, LockoutBound, attempts' = attempts,
         \A s \in Request :
           request'[s].at \in {"check", "count"} =>
             request[s].at \in {"check", "count"} /\ request'[s].user = request[s].user
  PROVE  LockoutBound'
<1> SUFFICES ASSUME NEW u \in User
             PROVE  attempts[u] + Cardinality(Counting(u)') <= MaxAttempts - 1 + Cardinality(Request)
  BY DEF LockoutBound, Counting
<1>1. Counting(u)' \in SUBSET Counting(u)
  BY DEF Counting
<1>2. attempts[u] + Cardinality(Counting(u)) <= MaxAttempts - 1 + Cardinality(Request)
  BY DEF LockoutBound
<1>3. /\ Cardinality(Counting(u)') \in Nat /\ Cardinality(Counting(u)) \in Nat
      /\ Cardinality(Counting(u)') <= Cardinality(Counting(u))
  <2>1. Counting(u) \in SUBSET Request
    BY DEF Counting
  <2> QED BY <1>1, <2>1, RequestsBound, FS_Subset, FS_CardinalityType
<1> QED BY <1>2, <1>3, RequestsBound, SessionAssumption DEF Typed

\* An address whose counter is below the limit is within the bound, however many logins
\* are under way.
LEMMA BelowLimit ==
  ASSUME NEW n \in Nat, n < MaxAttempts, NEW S \in SUBSET Request
  PROVE  n + Cardinality(S) <= MaxAttempts - 1 + Cardinality(Request)
BY RequestsBound, SessionAssumption

\* Clearing a counter, whatever the requests do.
LEMMA BoundForget ==
  ASSUME Typed, LockoutBound, NEW u \in User, ForgetCounter(u),
         \A s \in Request :
           request'[s].at \in {"check", "count"} =>
             request[s].at \in {"check", "count"} /\ request'[s].user = request[s].user
  PROVE  LockoutBound'
<1> SUFFICES ASSUME NEW v \in User
             PROVE  attempts'[v] + Cardinality(Counting(v)') <= MaxAttempts - 1 + Cardinality(Request)
  BY DEF LockoutBound, Counting
<1>1. Counting(v)' \in SUBSET Counting(v) /\ Counting(v) \in SUBSET Request
  BY DEF Counting
<1>2. CASE v = u
  <2>1. attempts'[v] = 0 /\ 0 < MaxAttempts
    BY <1>2, SessionAssumption DEF ForgetCounter, Typed
  <2> QED BY <1>1, <2>1, BelowLimit
<1>3. CASE v # u
  <2>1. attempts'[v] = attempts[v] /\ attempts[v] \in Nat
    BY <1>3 DEF ForgetCounter, Typed
  <2>2. attempts[v] + Cardinality(Counting(v)) <= MaxAttempts - 1 + Cardinality(Request)
    BY DEF LockoutBound
  <2>3. /\ Cardinality(Counting(v)') \in Nat /\ Cardinality(Counting(v)) \in Nat
        /\ Cardinality(Counting(v)') <= Cardinality(Counting(v))
    BY <1>1, RequestsBound, FS_Subset, FS_CardinalityType
  <2> QED BY <2>1, <2>2, <2>3, RequestsBound, SessionAssumption
<1> QED BY <1>2, <1>3

\* Counting a failure takes the login out of those under way.
LEMMA CountFailureBound ==
  ASSUME Typed, LockoutBound, NEW r \in Request, CountFailure(r) PROVE LockoutBound'
<1> DEFINE u == request[r].user
<1>0. u \in User /\ request[r] \in RequestState /\ request[r].at = "count"
  BY DEF CountFailure, Typed
<1>1. request'[r].at = "expire" /\ \A s \in Request \ {r} : request'[s] = request[s]
  <2>1. /\ request'[r] = [request[r] EXCEPT !.at = "expire"]
        /\ \A s \in Request \ {r} : request'[s] = request[s]
    BY GotoEffect DEF CountFailure, Phase
  <2> QED BY <1>0, <2>1 DEF RequestState
<1>2. attempts'[u] = attempts[u] + 1 /\ \A v \in User \ {u} : attempts'[v] = attempts[v]
  BY <1>0 DEF CountFailure, Typed
<1> SUFFICES ASSUME NEW v \in User
             PROVE  attempts'[v] + Cardinality(Counting(v)') <= MaxAttempts - 1 + Cardinality(Request)
  BY DEF LockoutBound, Counting
<1>3. attempts[v] \in Nat /\ attempts[v] + Cardinality(Counting(v)) <= MaxAttempts - 1 + Cardinality(Request)
  BY DEF LockoutBound, Typed
<1>4. Counting(v) \in SUBSET Request
  BY DEF Counting
<1>5. IsFiniteSet(Counting(v)) /\ Cardinality(Counting(v)) \in Nat /\ Cardinality(Request) \in Nat
  BY <1>4, RequestsBound
<1>6. CASE v = u
  <2>1. Counting(v)' = Counting(v) \ {r} /\ r \in Counting(v)
    BY <1>0, <1>1, <1>6 DEF Counting
  <2>2. Cardinality(Counting(v)') = Cardinality(Counting(v)) - 1
    BY <1>5, <2>1, FS_RemoveElement
  <2> QED BY <1>2, <1>3, <1>5, <1>6, <2>2, SessionAssumption
<1>7. CASE v # u
  <2>1. Counting(v)' = Counting(v)
    BY <1>0, <1>1, <1>7 DEF Counting
  <2> QED BY <1>2, <1>3, <1>7, <2>1
<1> QED BY <1>6, <1>7

\* Every step keeps the bound: a login is accepted below the limit only.
LEMMA StepBound == Typed /\ LockoutBound /\ [Next]_vars => LockoutBound'
<1> SUFFICES ASSUME Typed, LockoutBound, [Next]_vars PROVE LockoutBound'
  OBVIOUS
<1> USE DEF counters
<1>1. ASSUME NEW r \in Request, Accept(r) PROVE LockoutBound'
  <2>1. /\ attempts' = attempts /\ \A s \in Request \ {r} : request'[s] = request[s]
        /\ request'[r].at = "check" => attempts[request'[r].user] < MaxAttempts
        /\ request'[r].at # "count"
    BY <1>1, AcceptEffect DEF FirstWrite, ScopeWrites
  <2>2. CASE request'[r].at # "check"
    BY <2>1, <2>2, BoundQuiet
  <2>3. CASE request'[r].at = "check"
    <3> SUFFICES ASSUME NEW v \in User
                 PROVE  attempts[v] + Cardinality(Counting(v)') <= MaxAttempts - 1 + Cardinality(Request)
      BY <2>1 DEF LockoutBound, Counting
    <3>1. Counting(v)' \in SUBSET Request /\ attempts[v] \in Nat
      BY DEF Counting, Typed
    <3>2. CASE v = request'[r].user
      BY <2>1, <2>3, <3>1, <3>2, BelowLimit
    <3>3. CASE v # request'[r].user
      <4>1. Counting(v)' \in SUBSET Counting(v) /\ Counting(v) \in SUBSET Request
        BY <2>1, <3>3 DEF Counting
      <4>2. /\ Cardinality(Counting(v)') \in Nat /\ Cardinality(Counting(v)) \in Nat
            /\ Cardinality(Counting(v)') <= Cardinality(Counting(v))
        BY <4>1, RequestsBound, FS_Subset, FS_CardinalityType
      <4>3. attempts[v] + Cardinality(Counting(v)) <= MaxAttempts - 1 + Cardinality(Request)
        BY DEF LockoutBound
      <4> QED BY <3>1, <4>2, <4>3, RequestsBound, SessionAssumption
    <3> QED BY <3>2, <3>3
  <2> QED BY <2>2, <2>3
<1>2. ASSUME NEW r \in Request, Proceed(r) PROVE LockoutBound'
  <2> DEFINE u == request[r].user
  <2> DEFINE Fewer == \A s \in Request :
        request'[s].at \in {"check", "count"} =>
          request[s].at \in {"check", "count"} /\ request'[s].user = request[s].user
  <2>0. request[r] \in RequestState /\ (request[r].at # "idle" => u \in User)
    BY DEF Typed
  <2>1. ASSUME NEW at \in Phase, Goto(r, at), at \notin {"check", "count"} \/ request[r].at \in {"check", "count"}
        PROVE  Fewer
    <3>1. /\ request'[r] = [request[r] EXCEPT !.at = at]
          /\ \A s \in Request \ {r} : request'[s] = request[s]
      BY <2>1, GotoEffect
    <3>2. request'[r].at = at /\ request'[r].user = request[r].user
      BY <2>0, <3>1 DEF RequestState
    <3> QED BY <2>1, <3>1, <3>2
  <2>2. ASSUME Finish(r) PROVE Fewer
    BY <2>2, FinishEffect DEF Idle
  <2>3. ASSUME u \in User, NEW at \in {"idle", "revoke"},
               Outdate(r, u, IF at = "idle" THEN Idle ELSE [request[r] EXCEPT !.at = at])
        PROVE  Fewer
    <3> DEFINE next == IF at = "idle" THEN Idle ELSE [request[r] EXCEPT !.at = at]
    <3>1. next \in RequestState /\ next.at = at
      BY <2>0, IdleType DEF RequestState, Phase, Idle
    <3>2. /\ request'[r] = next
          /\ \A s \in Request \ {r} : request'[s].at = request[s].at /\ request'[s].user = request[s].user
      BY <2>3, <3>1, OutdateEffect
    <3> QED BY <3>1, <3>2
  <2>4. CASE CheckCredentials(r)
    <3>1. /\ attempts' = attempts /\ request[r].at = "check"
          /\ Finish(r) \/ Goto(r, "count") \/ Goto(r, "clear")
      BY <2>4 DEF CheckCredentials
    <3>2. Fewer
      BY <2>1, <2>2, <3>1 DEF Phase
    <3> QED BY <3>1, <3>2, BoundQuiet
  <2>5. CASE CountFailure(r)
    BY <2>5, CountFailureBound
  <2>6. CASE SetExpiry(r) \/ StoreRefreshToken(r) \/ UpdateRole(r)
    <3>1. attempts' = attempts /\ Finish(r)
      BY <2>6 DEF SetExpiry, StoreRefreshToken, UpdateRole
    <3>2. Fewer
      BY <2>2, <3>1
    <3> QED BY <3>1, <3>2, BoundQuiet
  <2>7. CASE ClearAttempts(r)
    <3>1. u \in User /\ ForgetCounter(u) /\ Goto(r, "store")
      BY <2>0, <2>7 DEF ClearAttempts
    <3>2. Fewer
      BY <2>1, <3>1 DEF Phase
    <3> QED BY <3>1, <3>2, BoundForget
  <2>8. CASE SetActiveState(r) \/ UpdatePassword(r) \/ DeleteUser(r)
    <3>1. /\ attempts' = attempts /\ u \in User
          /\ \/ Finish(r)
             \/ Outdate(r, u, [request[r] EXCEPT !.at = "revoke"])
             \/ Outdate(r, u, Idle)
      BY <2>0, <2>8 DEF SetActiveState, UpdatePassword, DeleteUser
    <3>2. Fewer
      BY <2>2, <2>3, <3>1
    <3> QED BY <3>1, <3>2, BoundQuiet
  <2>9. CASE Revoke(r, "revoke", "idle") \/ Revoke(r, "revoke first", "delete")
    <3>1. attempts' = attempts /\ (Finish(r) \/ Goto(r, "delete"))
      BY <2>9 DEF Revoke
    <3>2. Fewer
      BY <2>1, <2>2, <3>1 DEF Phase
    <3> QED BY <3>1, <3>2, BoundQuiet
  <2>10. CASE ClearDepartmentScopes(r) \/ ReplaceDepartmentScopes(r)
    <3>1. attempts' = attempts /\ Goto(r, "role")
      BY <2>10 DEF ClearDepartmentScopes, ReplaceDepartmentScopes
    <3>2. Fewer
      BY <2>1, <3>1 DEF Phase
    <3> QED BY <3>1, <3>2, BoundQuiet
  <2> QED BY <1>2, <2>4, <2>5, <2>6, <2>7, <2>8, <2>9, <2>10 DEF Proceed
<1>3. ASSUME NEW r \in Request, Fail(r) PROVE LockoutBound'
  <2>1. request'[r].at = "idle" /\ \A s \in Request \ {r} : request'[s] = request[s]
    BY <1>3, FinishEffect DEF Fail, Idle
  <2> QED BY <1>3, <2>1, BoundQuiet DEF Fail
<1>4. ASSUME NEW u \in User, Logout(u) \/ ExpireKey(u) \/ \E ro \in Role : InviteUser(u, ro) PROVE LockoutBound'
  <2>1. UNCHANGED <<attempts, request>>
    BY <1>4 DEF Logout, ExpireKey, InviteUser, CreateInvitedUser
  <2> QED BY <2>1, BoundQuiet
<1>5. ASSUME NEW u \in User, ExpireCounter(u) PROVE LockoutBound'
  BY <1>5, BoundForget DEF ExpireCounter
<1>6. CASE UNCHANGED vars
  <2>1. UNCHANGED <<attempts, request>>
    BY <1>6 DEF vars
  <2> QED BY <2>1, BoundQuiet
<1> QED BY <1>1, <1>2, <1>3, <1>4, <1>5, <1>6 DEF Next

(***************************************************************************)
(* The theorems.                                                           *)
(***************************************************************************)

\* There is no account, session or counter at the start.
LEMMA InitInv == Init => Inv
<1> SUFFICES ASSUME Init PROVE Inv
  OBVIOUS
<1> USE DEF Init
<1>0. \A r \in Request : request[r].at = "idle"
  BY DEF Idle
<1>1. Typed
  BY <1>0, IdleType DEF Typed, Role
<1>2. SessionsKept
  BY <1>0 DEF SessionsKept, SessionsEnd
<1>3. ScopesKept
  BY <1>0 DEF ScopesKept, ScopeWrites, Relying, ScopesMatchRole, Exists
<1>4. LockoutBound
  <2> SUFFICES ASSUME NEW u \in User
               PROVE  0 + Cardinality(Counting(u)) <= MaxAttempts - 1 + Cardinality(Request)
    BY DEF LockoutBound
  <2>1. Counting(u) \in SUBSET Request
    BY DEF Counting
  <2> QED BY <2>1, BelowLimit, SessionAssumption
<1> QED BY <1>1, <1>2, <1>3, <1>4 DEF Inv

\* The three concerns together.
THEOREM SessionInvariance == Spec => []Inv
<1>1. Inv /\ [Next]_vars => Inv'
  BY StepTyped, StepKept, StepScopesKept, StepBound DEF Inv
<1> QED BY <1>1, InitInv, PTL DEF Spec

\* Accounts, sessions, counters and requests keep their types; the counters are bounded.
THEOREM SessionTypes == Spec => []TypeOK
<1>1. Inv => TypeOK
  <2> SUFFICES ASSUME Inv PROVE TypeOK
    OBVIOUS
  <2>1. \A u \in User : attempts[u] \in 0 .. MaxAttempts + Cardinality(Request)
    <3> SUFFICES ASSUME NEW u \in User PROVE attempts[u] \in 0 .. MaxAttempts + Cardinality(Request)
      OBVIOUS
    <3>1. attempts[u] \in Nat /\ attempts[u] + Cardinality(Counting(u)) <= MaxAttempts - 1 + Cardinality(Request)
      BY DEF Inv, Typed, LockoutBound
    <3>2. Counting(u) \in SUBSET Request
      BY DEF Counting
    <3>3. Cardinality(Counting(u)) \in Nat /\ Cardinality(Request) \in Nat
      BY <3>2, RequestsBound
    <3> QED BY <3>1, <3>3, SessionAssumption
  <2> QED BY <2>1 DEF Inv, Typed, TypeOK
<1> QED BY <1>1, SessionInvariance, PTL

\* A session that should have ended is about to be removed, or a race or a failure is
\* known to have let it live (auth.service.ts, users.service.ts).
THEOREM SessionsDoEnd == Spec => []SessionsEnd
<1>1. Inv => SessionsEnd
  BY DEF Inv, SessionsKept
<1> QED BY <1>1, SessionInvariance, PTL

\* Scopes and role agree, unless updates of the account overlapped or one stopped midway.
THEOREM ScopesDoMatchRole == Spec => []ScopesMatchRole
<1>1. Inv => ScopesMatchRole
  BY DEF Inv, ScopesKept
<1> QED BY <1>1, SessionInvariance, PTL

\* An address takes at most as many failures beyond the limit as there are other requests.
THEOREM LockoutIsBounded == Spec => []LockoutBound
<1>1. Inv => LockoutBound
  BY DEF Inv
<1> QED BY <1>1, SessionInvariance, PTL

=============================================================================
