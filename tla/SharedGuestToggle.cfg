\* The user toggles nodes and nodes exit: every call ends.
SPECIFICATION FairSpec
CONSTANTS
  N = 2
  MaxInFlight = 1
  Uses <- UserUses
PROPERTIES
  CallsSettle
\* The nodes may all be disposed of.
CHECK_DEADLOCK FALSE
