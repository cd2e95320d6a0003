\* One request at a time, two periods.
CONSTANTS
  Period = {1, 2}
  Tx = {t1, t2}
  Amount = {a1, a2}
  Row = {s1, s2, s3}
  Scenario = {c1}
  Request = {r1}
  NoPeriod = NoPeriod
  NoTx = NoTx
  NoAmount = NoAmount
  NoRow = NoRow
  NoScenario = NoScenario
SPECIFICATION Spec
PROPERTY ClosesAtOnce
