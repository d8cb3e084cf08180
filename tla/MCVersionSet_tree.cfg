CONSTANTS
    Keys = {1, 2, 3}
    Deletable = {2}
    NumLevels = 4
    MaxMemCompactLevel = 2
    Limit <- MCLimit
    MaxFileSize = 2
    MaxGrandParentOverlap = 1
    ExpandedLimit = 5
    MemLimit = 2
    MaxWrites = 4
    MaxSnapshots = 1
SPECIFICATION Spec
INVARIANTS
    TypeOK
    LevelsAreSorted
    IteratorIsRight
    GetIsRight
CHECK_DEADLOCK FALSE
