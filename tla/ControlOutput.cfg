\* A ring of four bytes: lines wrap at every offset and fill it exactly.
SPECIFICATION FairSpec
CONSTANTS
  Cap = 4
  MaxLine = 3
  MaxAttempts = 2
  Byte = {0, 1, 2, 3}
  Lines <- ShortAndLong
  MaxLines = 4
INVARIANTS
  OverflowNeedsBurst
PROPERTIES
  ImplementsQueue
  DrainEnds
\* The supervisor exits.
CHECK_DEADLOCK FALSE
