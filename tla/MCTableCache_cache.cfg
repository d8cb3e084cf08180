CONSTANTS
    r1 = r1
    r2 = r2
    b = b
    f1 = f1
    f2 = f2
    f3 = f3
    Threads = {r1, r2, b}
    Background = b
    Keys = {f1, f2, f3}
    NoKey = NoKey
    Capacity = 1
    MaxEntries = 6
SYMMETRY MCSymmetry
SPECIFICATION TableSpec
INVARIANTS
    TypeOK
    UsesItsTable
    TableIsRight
    RefsAreHandles
    ListsAreRight
    NoTableOfDeletedFile
CHECK_DEADLOCK FALSE
