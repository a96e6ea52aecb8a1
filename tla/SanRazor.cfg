CONSTANTS
    Missing = Missing
    Cut = Cut
    Levels <- MCLevels
    Bitcode <- MCBitcode
    Benchmarks = {401, 429}
    LevelSummaries <- MCSummaries
    MaxWorkers = 2
SPECIFICATION AccessSpec
INVARIANTS
    AggregationExact
PROPERTIES
    RewriteIsWhole
