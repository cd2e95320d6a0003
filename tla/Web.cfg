\* Two calls at a time, one line that is edited and one that is added.
CONSTANTS
  Call = {c1, c2}
  Line = {l1}
  Amount = {1, 2}
  None = None
SPECIFICATION FairSpec
INVARIANTS
  InSync
  SavedOnce
  PagesLoad
PROPERTIES
  OwnEditsSurvive
  EverySettles
