SPECIFICATION FairSpec
CONSTANTS
  MaxEdits = 2
  MaxWaiters = 2
  MaxForeign = 1
  Delays = {TRUE, FALSE}
INVARIANTS
  NoLostEdit
  SavedMeansStored
  ResolvedFlushIsCovered
PROPERTIES
  NoBlindOverwrite
\* The coordinator may be disposed of.
CHECK_DEADLOCK FALSE
