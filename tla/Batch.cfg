CONSTANTS
    Projects = {"zlib", "jq"}
    GitProjects = {"jq"}
    Sanitizers = {"asan", "asanmm"}
    Waves = {1, 2, 3}
    Comparison = 3
    Shards <- MCShards
    Tasks <- MCTasks
    MaxStarts = 2
    None = None
SPECIFICATION Spec
INVARIANTS
    SuccessIsComplete
    BuiltFromWhole
    EveryTaskReported
    MergedIsLatest
    DataFitStatus
    ComparisonIsCurrent
PROPERTIES
    CollectedStays
    WavesEnd
CHECK_DEADLOCK FALSE
