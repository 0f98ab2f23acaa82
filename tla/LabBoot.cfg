SPECIFICATION Spec
CONSTANTS
  Roots <- TestRoots
  MaxEntries = 12
  MaxExpanded = 60
  MaxNameLength = 3
  MaxPathBytes = 39
  Limits <- TestLimits
  Block = 4
  Generated <- TestGenerated
  Multicast = {99}
  BadNames = {"eth 0"}
  TakenNames = {"lo", "labtrunk0", ".", ".."}
  ReservedPaths <- TestReserved
  Vlans <- TestVlans
  WrapperBytes = 9
  DaemonsBytes = 6
  Runtimes <- TestRuntimes
  SessionWait = 1
  StartWait = 3
  Grace = 1
  ReadyBudget = 5
  Tolerated = 3
  MaxSignals = 2
  Plans <- TestPlans
  Catalog <- TestCatalog
  FreshIds = {"u1", "u2"}
  Change <- TestChange
INVARIANTS
  ArchiveRestores
  ImportedWhole
  EligibleBoots
  MeasuredExactly
  StartTruth
PROPERTIES
  DegradationShown
CHECK_DEADLOCK FALSE
