CONSTANTS
    Stems <- MCStems
    Kind <- MCKind
    MaxCalls = 5
    MaxRows = 2
    RowSanitizers = {"ASan", "Unknown"}
    Costs <- MCCosts
    TopNs = {0, 2}
    MinRatios = {20, 60}
    NoText = NoText
    NaN = NaN
    NoName = NoName
SPECIFICATION Spec
INVARIANTS
    TypeOK
    TotalsAgree
    CoreIsTopSegment
    NoSanitizerForgotten
    SharesBounded
