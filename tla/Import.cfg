\* Three files (good, rejected, empty) and two attempts.
CONSTANTS
  File = {f1, f2, f3}
  Empty = {f3}
  Rejected = {f2}
  Job = {j1, j2}
  Listener = {l1}
  NoFile = NoFile
  NoJob = NoJob
SPECIFICATION FairSpec
INVARIANTS
  DoneMeansInserted
  ImportedOnce
PROPERTIES
  JobEnds
  PageAnswered
\* The model stops when every job identifier is used up.
CHECK_DEADLOCK FALSE
