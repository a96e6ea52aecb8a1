CONSTANTS
    Blocks <- MCBlocks
    EntryBlock = 1
    Insts <- MCInsts
    Programs <- MCPrograms
    None = None
    Family = "instrumented"
SPECIFICATION Spec
INVARIANTS
    WellFormedIR
    KeptCodeSurvives
    FlowPreserved
    BypassCompletes
    BypassIsClean
    RemovedIsGone
PROPERTIES
    LoopsShrink
