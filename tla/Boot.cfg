SPECIFICATION Spec
CONSTANTS
    Documents <- MCDocuments
    Dirs <- MCDirs
    EntryCeiling = 1
INVARIANTS
    HidesOnlyNewcomers
    EachServesItsOwn
    KilledHoldsNothing
    
CHECK_DEADLOCK FALSE
