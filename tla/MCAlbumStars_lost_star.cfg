CONSTANTS
    phone = phone
    tablet = tablet
    anna = anna
    ben = ben
    Clients = {phone, tablet}
    Users = {anna, ben}
    UidOf <- TwoUsers
    Commenters = {}
    Entered = {TRUE}
    MaxRetries = 2
    MaxTaps <- TwoTapsAgainstOne
    Loaders = {}
    Closers = {}
    MaxDisconnects = 0
SPECIFICATION Spec
INVARIANTS StarsAreKept
CHECK_DEADLOCK FALSE
