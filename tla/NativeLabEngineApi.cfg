\* A client of the whole API that awaits each call: it also stops, and restarts
\* a failed lab.
SPECIFICATION Spec
CONSTANTS
  N = 2
  Toggles = {"toggle"}
  Client = {"start", "pause", "stop", "dispose", "toggle"}
  Overlap = {}
  StopMayFail = TRUE
INVARIANTS
  OnlyFailedStopsLeak
  AtRest
CHECK_DEADLOCK FALSE
