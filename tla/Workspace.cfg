SPECIFICATION FairSpec
CONSTANTS
  MaxProjects = 4
  Plans <- TestPlans
INVARIANTS EditCovered CleanMeansStored NoFalseConflict
PROPERTIES ReplacedIsStored EditsSettle
CHECK_DEADLOCK FALSE
