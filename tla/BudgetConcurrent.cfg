\* Two requests at a time on two budgets of one fiscal year.
CONSTANTS
  Budget = {b1, b2}
  FiscalYear = {y1}
  Line = {l1}
  Amount = {1}
  Request = {r1, r2}
  Offered <- ReferenceOps
  NoBudget = NoBudget
  NoLine = NoLine
  NoYear = NoYear
SPECIFICATION Spec
SYMMETRY Symmetry
INVARIANTS
  NoStageSkipped
  LoggedApprovalIsQueued
  AtMostOneReference
  ReferenceNotLost
