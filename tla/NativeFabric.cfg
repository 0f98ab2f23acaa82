\* A row and a ring of switches and a direct link; drives run to their limits.
SPECIFICATION FairFabricSpec
CONSTANTS
  Nets <- Projects
  MaxHops = 4
  MaxEvents = 6
  MaxImmediate = 1
  MaxFrames = 2
  LastSend = 1
  MaxWall = 5
  Never = 1000
INVARIANTS
  OrderKept
PROPERTIES
  DrivesEnd
  FramesArrive
\* The clock of the model stops at MaxWall.
CHECK_DEADLOCK FALSE
