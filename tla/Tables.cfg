SPECIFICATION Spec

CONSTANTS
    None = None
    Modules <- MCModules
    CheckFiles <- MCCheckFiles
    MaxUnits = 2
    MaxRows = 2
    Times = {1, 2}

INVARIANTS
    CountsWithinTotal
    RuntimeIsSelected

\* The script ends.
CHECK_DEADLOCK FALSE
