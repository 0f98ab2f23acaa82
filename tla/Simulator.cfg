SPECIFICATION Spec
CONSTANTS
    Labs <- MCLabs
    MaxRounds = 12
    Ttl = 8
    MaxSize = 4
    Times <- MCTimes
INVARIANTS
    ConvergedIsCurrent
    SettlesWithoutLoops
    HeardIsReached
    EventsInOrder
CHECK_DEADLOCK FALSE
