\* The options have the defaults of the pass.
CONSTANTS
    a = a
    b = b
    idx = idx
    NumCalls <- MCNumCalls
    Calls <- MCCalls
    Sanitizers = {"ASan"}
    Bases = {a, b}
    OffsetLists <- MCOffsetLists
    NoOffsets = "none"
    CheckTypes = {"load", "minor"}
    NotACheck = "plain"
    CoreCheckSet = {"load"}
    DistinguishStaticOffsets = FALSE
    GroupDynamicOffsetsByBase = TRUE
    NoGroup = NoGroup
SPECIFICATION Spec
INVARIANTS
    TypeOK
    MarkedIsPolicy
    KeptWitness
    RemovedIsErased
PROPERTIES
    ImplementsPolicy
    Termination
CHECK_DEADLOCK FALSE
