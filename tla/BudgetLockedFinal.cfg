\* Two requests at a time on one budget.
CONSTANTS
  Budget = {b1}
  FiscalYear = {y1}
  Line = {l1}
  Amount = {1}
  Request = {r1, r2}
  Offered <- AllOps
  NoBudget = NoBudget
  NoLine = NoLine
  NoYear = NoYear
SPECIFICATION Spec
PROPERTY LockedIsFinal
