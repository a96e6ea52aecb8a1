CONSTANTS
    Blocks <- MCBlocks
    Functions = {"f", "g"}
    Fn <- MCFn
    Entry <- MCEntry
    NumNodes = 2
    AccessTypes = {"READ", "WRITE"}
    NoBlock = NoBlock
SPECIFICATION Spec
INVARIANT DeletionsCovered
CHECK_DEADLOCK FALSE
