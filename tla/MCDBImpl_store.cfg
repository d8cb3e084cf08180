CONSTANTS
    a = a
    b = b
    c = c
    d = d
    Clients = {a, b, d}
    Ops <- MCOps
    Syncing = {b}
    MemLimit = 2
    MaxGroup = 3
    L0Trigger = 1
    L0Stop = 2
    MaxCrashes = 1
    MaxFailures = 1
    BlockSize = 4
    HeaderSize = 1
SPECIFICATION Spec
INVARIANTS
    TypeOK
    
    WholeBatches
    SequenceNumbersUnique
    NeededFilesExist
    ReaderSeesItsSnapshot
    WaiterIsNotForgotten

    
