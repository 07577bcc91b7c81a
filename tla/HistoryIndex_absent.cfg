\* Three blocks with pruning, compaction and restarts.
SPECIFICATION Spec
CONSTANTS
    Keys <- MCKeys
    Positions = {0, 1, 2, 3}
    PositionsAt <- MCPositionsAt
    MaxHeight = 3
    MaxIters = 1
    NoPos = NoPos
    NoRec = NoRec
    NoChange = NoChange
INVARIANT AbsentIsNotFound
