SPECIFICATION Spec
CONSTANTS
    MaxDepth = 3
    MaxTime = 4
    MaxCalls = 2
    MaxBlocks = 2
    LateHooks = FALSE
PROPERTIES
    NestedBlocksClassified
