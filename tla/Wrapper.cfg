CONSTANTS
    Jobs <- MCJobs
    Links = {4}
    Key <- MCKey
    Checks <- MCChecks
    Modes = {"desan", "direct", "native"}
    PassTimeout = TRUE
    None = None
SPECIFICATION Spec
INVARIANTS
    RecordTellsTheTruth
    NoObjectUncounted
    SummaryComplete
PROPERTIES
    BuildEnds
CHECK_DEADLOCK FALSE
