CONSTANTS
    Blocks <- MCBlocks
    EntryBlock = 1
    Insts <- MCInsts
    Programs <- MCPrograms
    None = None
    Family = "value"
SPECIFICATION Spec
PROPERTY UsesStayInside
