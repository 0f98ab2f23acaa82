\* The application's client: a toggle may be outstanding under any call, no
\* stop(), two appliances.
SPECIFICATION FairSpec
CONSTANTS
  N = 2
  Toggles = {"toggle"}
  Client = {"start", "pause", "dispose", "toggle"}
  Overlap <- AppOverlap
  StopMayFail = TRUE
INVARIANTS
  ActiveIsRunning
PROPERTIES
  RunningMeansBooted
  CallsReturn
\* A failed or disposed lab may stay as it is.
CHECK_DEADLOCK FALSE
