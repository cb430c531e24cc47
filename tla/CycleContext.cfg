SPECIFICATION Spec
CONSTANTS
    MaxDepth = 2
    MaxTime = 5
    MaxCalls = 3
    MaxBlocks = 2
    LateHooks = FALSE
INVARIANTS
    TypeOK
    NoTimeLost
    StackFollowsCalls
    TimeClassified
