\* Two requests at a time on one scenario; four lists of hypotheses.
CONSTANTS
  Scenario = {c1}
  Hypotheses <- MCHypotheses
  NoHypotheses <- NoRows
  Mode = {global, targeted}
  DefaultMode = global
  Request = {r1, r2}
  NoScenario = NoScenario
  NoSnapshot = NoSnapshot
  Lines <- MCLines
SPECIFICATION Spec
SYMMETRY Symmetry
INVARIANTS
  SnapshotMatches
  SavedIsLogged
  ModesAgree
PROPERTY SavedIsFinal
\* The model stops when every scenario identifier is used up and deleted.
CHECK_DEADLOCK FALSE
