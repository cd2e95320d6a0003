-------------------------------- MODULE Session --------------------------------
(***************************************************************************)
(* User accounts and their sessions: AuthService and UsersService          *)
(* (apps/api/src/modules/auth, users).  PostgreSQL holds the accounts with *)
(* their role and department scopes, Redis one refresh key per user and a  *)
(* counter of failed logins per address.  Nothing ties the two together:   *)
(* every handler is a sequence of calls to one and the other.              *)
(*                                                                         *)
(* A user stands for its address: addresses are unique.  Whether a         *)
(* password is the right one is a choice made when it is verified.  A      *)
(* refresh that does not find its token in the key changes nothing and is  *)
(* left out.  The administrator who acts is not one of the users.          *)
(*                                                                         *)
(* A definition named Bad... is the one that follows it with a plausible   *)
(* mistake.                                                                *)
(***************************************************************************)
EXTENDS Integers, FiniteSets

CONSTANTS
  User,        \* accounts, and their addresses
  Request,     \* requests that can be served at the same time
  MaxAttempts, \* failed logins that lock an address
  NoUser

ASSUME SessionAssumption ==
  MaxAttempts \in Nat \ {0} /\ NoUser \notin User /\ IsFiniteSet(Request)

VARIABLES
  standing,  \* users.is_active, "unused" before the INSERT, "deleted" after the DELETE
  role,      \* users.role
  scoped,    \* users with a row in user_department_scope
  key,       \* users with a refresh key in Redis
  attempts,  \* the counters of failed logins
  expiring,  \* counters that have a time to live
  request,   \* what each request is doing and what it remembers
  old,       \* history: refresh keys of sessions that a later change should have ended
  late,      \* history: users whose session was stored or left alive by a race or a failure
  missed,    \* history: users whose counter was not given its time to live
  torn       \* history: users whose role and scopes were written by requests that overlap or fail

accounts == <<standing, role, scoped>>
counters == <<attempts, expiring, missed>>
sessions == <<key, old, late>>
vars     == <<standing, role, scoped, key, attempts, expiring, request, old, late, missed, torn>>

Role  == {"CONTRIBUTEUR", "FPA"}
Phase == {"idle", "check", "count", "expire", "clear", "store", "activate", "password", "revoke",
          "revoke first", "delete", "clear scopes", "replace scopes", "role"}

RequestState == [at : Phase, user : User \cup {NoUser}, to : Role \cup {"same"},
                 active : BOOLEAN, outdated : BOOLEAN]

Idle == [at |-> "idle", user |-> NoUser, to |-> "same", active |-> FALSE, outdated |-> FALSE]

TypeOK ==
  /\ standing \in [User -> {"unused", "active", "inactive", "deleted"}]
  /\ role     \in [User -> Role]
  /\ scoped   \subseteq User
  /\ key      \subseteq User
  /\ attempts \in [User -> 0 .. MaxAttempts + Cardinality(Request)]
  /\ expiring \subseteq User
  /\ request  \in [Request -> RequestState]
  /\ old      \subseteq key
  /\ late     \subseteq User
  /\ missed   \subseteq User
  /\ torn     \subseteq User

Init ==
  /\ standing = [u \in User |-> "unused"]
  /\ role     = [u \in User |-> "FPA"]
  /\ scoped   = {}
  /\ key      = {}
  /\ attempts = [u \in User |-> 0]
  /\ expiring = {}
  /\ request  = [r \in Request |-> Idle]
  /\ old      = {}
  /\ late     = {}
  /\ missed   = {}
  /\ torn     = {}

Exists(u) == standing[u] \in {"active", "inactive"}

\* Both keep what the request remembers, or forget it.
Goto(r, at) == request' = [request EXCEPT ![r].at = at]
Finish(r)   == request' = [request EXCEPT ![r] = Idle]

Begin(r, u, at) ==
  /\ request[r] = Idle
  /\ request' = [request EXCEPT ![r].at = at, ![r].user = u]

------------------------------------------------------------------------------
(* AuthService.                                                             *)

BadLogin(r, u) ==
  /\ attempts[u] <= MaxAttempts
  /\ Begin(r, u, "check")
  /\ UNCHANGED <<accounts, sessions, counters, torn>>

\* getLoginAttempts; a locked address is refused here and nowhere else.
Login(r, u) ==
  /\ attempts[u] < MaxAttempts
  /\ Begin(r, u, "check")
  /\ UNCHANGED <<accounts, sessions, counters, torn>>

\* The account is read once, here: an inactive one is refused without counting, an
\* unknown address and a wrong password are counted.
CheckCredentials(r) ==
  LET u == request[r].user IN
  /\ request[r].at = "check"
  /\ \/ standing[u] = "inactive" /\ Finish(r)
     \/ standing[u] # "inactive" /\ Goto(r, "count")
     \/ standing[u] = "active"   /\ Goto(r, "clear")
  /\ UNCHANGED <<accounts, sessions, counters, torn>>

\* registerFailedLogin, in two calls: a counter keeps the time to live it has.
CountFailure(r) ==
  /\ request[r].at = "count"
  /\ attempts' = [attempts EXCEPT ![request[r].user] = @ + 1]
  /\ Goto(r, "expire")
  /\ UNCHANGED <<accounts, sessions, expiring, missed, torn>>

BadSetExpiry(r) ==
  /\ request[r].at = "expire"
  /\ Finish(r)
  /\ UNCHANGED <<accounts, sessions, counters, torn>>

SetExpiry(r) ==
  LET u == request[r].user IN
  /\ request[r].at = "expire"
  /\ expiring' = IF attempts[u] > 0 THEN expiring \cup {u} ELSE expiring
  /\ missed'   = missed \ {u}
  /\ Finish(r)
  /\ UNCHANGED <<accounts, sessions, attempts, torn>>

ForgetCounter(u) ==
  /\ attempts' = [attempts EXCEPT ![u] = 0]
  /\ expiring' = expiring \ {u}
  /\ missed'   = missed \ {u}

\* The tokens are signed from what was read before, then stored.
ClearAttempts(r) ==
  /\ request[r].at = "clear"
  /\ ForgetCounter(request[r].user)
  /\ Goto(r, "store")
  /\ UNCHANGED <<accounts, sessions, torn>>

\* A refresh finds its token in the key; it does not look at the account.
Refresh(r, u) ==
  /\ u \in key
  /\ request[r] = Idle
  /\ request' = [request EXCEPT ![r].at = "store", ![r].user = u, ![r].outdated = u \in old]
  /\ UNCHANGED <<accounts, sessions, counters, torn>>

\* SET writes the key, whoever removed it meanwhile.  What follows (last_login_at, the
\* audit entry, the profile of the answer) changes no session.
StoreRefreshToken(r) ==
  LET u == request[r].user IN
  /\ request[r].at = "store"
  /\ key'  = key \cup {u}
  /\ old'  = IF request[r].outdated THEN old \cup {u} ELSE old \ {u}
  /\ late' = IF request[r].outdated THEN late \cup {u} ELSE late \ {u}
  /\ Finish(r)
  /\ UNCHANGED <<accounts, counters, torn>>

DeleteKey(u) ==
  /\ key'  = key \ {u}
  /\ old'  = old \ {u}
  /\ late' = late \ {u}

Logout(u) ==
  /\ standing[u] # "unused"
  /\ DeleteKey(u)
  /\ UNCHANGED <<accounts, counters, request, torn>>

------------------------------------------------------------------------------
(* UsersService.                                                            *)

\* createInvitedUser: the account and the department of a contributor, in one
\* transaction.
CreateInvitedUser(u, ro) ==
  /\ standing' = [standing EXCEPT ![u] = "active"]
  /\ role'     = [role EXCEPT ![u] = ro]
  /\ scoped'   = IF ro = "CONTRIBUTEUR" THEN scoped \cup {u} ELSE scoped

\* The account is committed; the read that follows goes outside the transaction, does
\* not find it, and the request fails before any mail is queued.
InviteUser(u, ro) ==
  /\ standing[u] = "unused"
  /\ CreateInvitedUser(u, ro)
  /\ UNCHANGED <<counters, sessions, request, torn>>

\* Every session of u opened or about to be stored now should end: the requests that
\* passed their checks go on.
Outdate(r, u, next) ==
  /\ request' = [s \in Request |->
       IF s = r THEN next
       ELSE IF request[s].user = u /\ request[s].at \in {"clear", "store"}
            THEN [request[s] EXCEPT !.outdated = TRUE] ELSE request[s]]
  /\ old' = old \cup ({u} \cap key)

BeginToggle(r, u) ==
  /\ Exists(u)
  /\ request[r] = Idle
  /\ request' = [request EXCEPT ![r].at = "activate", ![r].user = u,
                                ![r].active = standing[u] = "inactive"]
  /\ UNCHANGED <<accounts, sessions, counters, torn>>

\* setActiveState writes what the first read made of the account.
SetActiveState(r) ==
  LET u == request[r].user IN
  /\ request[r].at = "activate"
  /\ standing' = [standing EXCEPT ![u] =
       IF ~Exists(u) THEN @ ELSE IF request[r].active THEN "active" ELSE "inactive"]
  /\ IF request[r].active THEN Finish(r) /\ UNCHANGED old
     ELSE Outdate(r, u, [request[r] EXCEPT !.at = "revoke"])
  /\ UNCHANGED <<role, scoped, key, late, counters, torn>>

\* The current password was the right one.
BeginPassword(r, u) ==
  /\ Exists(u)
  /\ Begin(r, u, "password")
  /\ UNCHANGED <<accounts, sessions, counters, torn>>

BadUpdatePassword(r) ==
  /\ request[r].at = "password"
  /\ Outdate(r, request[r].user, Idle)
  /\ UNCHANGED <<accounts, key, late, counters, torn>>

UpdatePassword(r) ==
  /\ request[r].at = "password"
  /\ Outdate(r, request[r].user, [request[r] EXCEPT !.at = "revoke"])
  /\ UNCHANGED <<accounts, key, late, counters, torn>>

\* The session is removed after the change of state or password, but before the
\* account is deleted.
Revoke(r, at, next) ==
  /\ request[r].at = at
  /\ DeleteKey(request[r].user)
  /\ IF next = "idle" THEN Finish(r) ELSE Goto(r, next)
  /\ UNCHANGED <<accounts, counters, torn>>

\* No record of the user blocks the deletion.
BeginDelete(r, u) ==
  /\ Exists(u)
  /\ Begin(r, u, "revoke first")
  /\ UNCHANGED <<accounts, sessions, counters, torn>>

DeleteUser(r) ==
  LET u == request[r].user IN
  /\ request[r].at = "delete"
  /\ standing' = [standing EXCEPT ![u] = "deleted"]
  /\ scoped'   = scoped \ {u}
  /\ late'     = late \cup ({u} \cap key)
  /\ Outdate(r, u, Idle)
  /\ UNCHANGED <<role, key, counters, torn>>

Updating(u) == \E r \in Request :
  request[r].user = u /\ request[r].at \in {"clear scopes", "replace scopes", "role"}

NextRole(u, to) == IF to = "same" THEN role[u] ELSE to

BadFirstWrite(u, to, department) ==
  IF NextRole(u, to) = "CONTRIBUTEUR" /\ department THEN "replace scopes" ELSE "role"

\* The writes of updateUser on the scopes, by the account it read.
FirstWrite(u, to, department) ==
  CASE NextRole(u, to) # "CONTRIBUTEUR" /\ role[u] = "CONTRIBUTEUR" -> "clear scopes"
    [] NextRole(u, to) = "CONTRIBUTEUR" /\ department               -> "replace scopes"
    [] OTHER                                                       -> "role"

BeginUpdate(r, u, to, department) ==
  /\ Exists(u)
  /\ NextRole(u, to) = "CONTRIBUTEUR" => department \/ u \in scoped
  /\ request[r] = Idle
  /\ request' = [request EXCEPT ![r].at = FirstWrite(u, to, department), ![r].user = u, ![r].to = to]
  /\ torn'    = IF Updating(u) THEN torn \cup {u} ELSE torn
  /\ UNCHANGED <<accounts, sessions, counters>>

ClearDepartmentScopes(r) ==
  /\ request[r].at = "clear scopes"
  /\ scoped' = scoped \ {request[r].user}
  /\ Goto(r, "role")
  /\ UNCHANGED <<standing, role, sessions, counters, torn>>

\* It raises if the account is gone.
ReplaceDepartmentScopes(r) ==
  /\ request[r].at = "replace scopes"
  /\ Exists(request[r].user)
  /\ scoped' = scoped \cup {request[r].user}
  /\ Goto(r, "role")
  /\ UNCHANGED <<standing, role, sessions, counters, torn>>

UpdateRole(r) ==
  LET u == request[r].user IN
  /\ request[r].at = "role"
  /\ role' = [role EXCEPT ![u] = IF Exists(u) THEN NextRole(u, request[r].to) ELSE @]
  /\ Finish(r)
  /\ UNCHANGED <<standing, scoped, sessions, counters, torn>>

------------------------------------------------------------------------------
\* A call raised or the process stopped: what has been written stays.
Fail(r) ==
  LET u == request[r].user IN
  /\ request[r] # Idle
  /\ late'   = IF request[r].at = "revoke" THEN late \cup ({u} \cap key) ELSE late
  /\ missed' = IF request[r].at = "expire" /\ u \notin expiring THEN missed \cup {u} ELSE missed
  /\ torn'   = IF request[r].at = "role" THEN torn \cup {u} ELSE torn
  /\ Finish(r)
  /\ UNCHANGED <<accounts, key, old, attempts, expiring>>

\* Redis drops a key whose time has come: 30 days for a session, 15 minutes for a counter.
ExpireKey(u) ==
  /\ u \in key
  /\ DeleteKey(u)
  /\ UNCHANGED <<accounts, counters, request, torn>>

ExpireCounter(u) ==
  /\ u \in expiring
  /\ ForgetCounter(u)
  /\ UNCHANGED <<accounts, sessions, request, torn>>

------------------------------------------------------------------------------
Accept(r) ==
  \E u \in User :
    \/ Login(r, u) \/ Refresh(r, u) \/ BeginToggle(r, u) \/ BeginPassword(r, u) \/ BeginDelete(r, u)
    \/ \E to \in Role \cup {"same"}, department \in BOOLEAN : BeginUpdate(r, u, to, department)

Proceed(r) ==
  \/ CheckCredentials(r) \/ CountFailure(r) \/ SetExpiry(r) \/ ClearAttempts(r) \/ StoreRefreshToken(r)
  \/ SetActiveState(r) \/ UpdatePassword(r) \/ Revoke(r, "revoke", "idle")
  \/ Revoke(r, "revoke first", "delete") \/ DeleteUser(r)
  \/ ClearDepartmentScopes(r) \/ ReplaceDepartmentScopes(r) \/ UpdateRole(r)

Next ==
  \/ \E r \in Request : Accept(r) \/ Proceed(r) \/ Fail(r)
  \/ \E u \in User :
       \/ Logout(u) \/ ExpireKey(u) \/ ExpireCounter(u)
       \/ \E ro \in Role : InviteUser(u, ro)

Spec == Init /\ [][Next]_vars

\* A handler goes on as long as its process lives; Redis drops expired keys.
Fairness == (\A r \in Request : WF_vars(Proceed(r))) /\ (\A u \in User : WF_vars(ExpireCounter(u)))

FairSpec == Spec /\ Fairness

------------------------------------------------------------------------------
\* A session opened before the account was deactivated, deleted or given another
\* password ends: the handler that made the change is about to remove it, unless a
\* login or a refresh that had passed its checks stored it afterwards, or the removal
\* failed.  No account that is not active has another session.
SessionsEnd ==
  \A u \in User : u \in old \/ (u \in key /\ standing[u] # "active") =>
    u \in late \/ \E r \in Request : request[r].user = u /\ request[r].at = "revoke"

Counting(u) ==
  {r \in Request : request[r].user = u /\ request[r].at \in {"check", "count"}}

\* Logins tried at the same time all see the counter before any of them has counted:
\* an address takes at most one failure more than the limit for each other request
\* served at that time, never more.
LockoutBound ==
  \A u \in User : attempts[u] + Cardinality(Counting(u)) <= MaxAttempts - 1 + Cardinality(Request)

\* A contributor has a department and nobody else does, unless two updates of the
\* account overlapped or one stopped between its two writes.
ScopesMatchRole ==
  \A u \in User : Exists(u) =>
    (u \in scoped <=> role[u] = "CONTRIBUTEUR") \/ Updating(u) \/ u \in torn

\* A locked address is unlocked, however the failures that lock it overlap, unless the
\* counter could not be given its time to live.
LockEnds ==
  \A u \in User : attempts[u] >= MaxAttempts ~> attempts[u] < MaxAttempts \/ u \in missed
==============================================================================
