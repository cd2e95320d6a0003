\* Two requests at a time on one account; two failures lock it.
CONSTANTS
  User = {u1}
  Request = {r1, r2}
  MaxAttempts = 2
  NoUser = NoUser
SPECIFICATION FairSpec
INVARIANTS
  SessionsEnd
  LockoutBound
  ScopesMatchRole
PROPERTY LockEnds
