CONSTANTS
    Blocks <- MCBlocks
    Functions = {"f", "g"}
    Fn <- MCFn
    Entry <- MCEntry
    NumNodes = 3
    AccessTypes = {"READ", "WRITE"}
    NoBlock = NoBlock
SPECIFICATION Spec
INVARIANTS
    DominatorsRan
    EdgesArePaths
    DominatedRunsCovered
PROPERTIES
    RunsFollowEdges
CHECK_DEADLOCK FALSE
