SPECIFICATION FairSpec
CONSTANTS
  Plans <- TestPlans
  Pages = {"a", "b"}
  Callers = {1, 2}
  Regular = {"bios", "bzimage"}
  Streams <- TestStreams
  Layer = "complete"
  MaxAttempts = 2
  Block = 4
  LengthBytes = 1
INVARIANTS VerifiedOnly LayerReadable
PROPERTIES RetriesWork
CHECK_DEADLOCK FALSE
