CONSTANTS
    None = None
    Empty = Empty
    Paths <- MCPaths
    Outcomes <- MCOutcomes
    ExcludedBenchmarks = {"pigz"}
    MaxReruns = 2
SPECIFICATION Spec
INVARIANTS
    PublishedHoldsUp
PROPERTIES
    PublishedIsCurrent
CHECK_DEADLOCK FALSE
