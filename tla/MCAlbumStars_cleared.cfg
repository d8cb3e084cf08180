CONSTANTS
    phone = phone
    tablet = tablet
    anna = anna
    ben = ben
    Clients = {phone}
    Users = {anna}
    UidOf <- OneDevice
    Commenters = {phone}
    Entered = {TRUE, FALSE}
    MaxRetries = 3
    MaxTaps <- TwoTaps
    Loaders = {phone}
    Closers = {}
    MaxDisconnects = 0
SPECIFICATION Spec
INVARIANTS PutsHaveTransactions
CHECK_DEADLOCK FALSE
