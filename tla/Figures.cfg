\* Four transactions, one planned flow, three periods of two years, a chart of one
\* department.
CONSTANTS
  Org = "org"
  Mappings <- MCMappings
  Txs <- MCTxs
  Plans <- MCPlans
  Lines <- MCLines
  Period <- MCPeriod
  Month <- MCMonth
  FirstMargin = "MARGE_EBITDA"
  DepartmentsShown = 1
  Rank <- MCRank
  MaxPending = 1
  Calculated <- MCCalculated
  MaxClosed = 1
SPECIFICATION FiguresSpec
INVARIANTS
  NetsAgree
  ScreensAgree
  SeveritiesAgree
  DashboardAddsUp
  ActualsAgree
