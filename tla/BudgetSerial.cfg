\* One request at a time, one line, two fiscal years.
CONSTANTS
  Budget = {b1, b2}
  FiscalYear = {y1, y2}
  Line = {l1}
  Amount = {0, 1}
  Request = {r1}
  Offered <- AllOps
  NoBudget = NoBudget
  NoLine = NoLine
  NoYear = NoYear
SPECIFICATION Spec
INVARIANT SideEffectsComplete
PROPERTY Implements
