SPECIFICATION Spec
CONSTANTS
    q1 = q1
    q2 = q2
    Requests = {q1, q2}
    Accounts = {1}
    Amounts <- MCAmounts
    Balances <- MCBalances
    Dates = {16}
    LegacyWeeks = {3}
    PeriodDays = 31
    Today <- MCToday
    MaxRows = 2
    MaxLog = 2
SYMMETRY Symmetric
INVARIANTS
    OneRowPerWeek
    RunwaysAgree
    TabsAgree
    AuditChain
CHECK_DEADLOCK FALSE
