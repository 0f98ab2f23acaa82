SPECIFICATION FairSpec
CONSTANTS
    MaxCalls = 2
    Paths = {"p", "q"}
    Plans <- MCPlans
INVARIANTS GuestAgrees ReadIsFresh
PROPERTIES CallsReturn
CHECK_DEADLOCK FALSE
