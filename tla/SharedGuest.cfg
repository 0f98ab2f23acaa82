\* The engine's own calls: one at a time, and releases that overlap others.
SPECIFICATION Spec
CONSTANTS
  N = 2
  MaxInFlight = 1
  Uses <- EngineUses
INVARIANTS
  RunningIsUp
  OnlyRunningRuns
  StoppedIsDown
\* The nodes may all be disposed of.
CHECK_DEADLOCK FALSE
