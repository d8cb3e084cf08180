CONSTANTS
    phone = phone
    tablet = tablet
    anna = anna
    ben = ben
    Clients = {phone, tablet}
    Users = {anna, ben}
    UidOf <- TwoUsers
    Commenters = {phone}
    Entered = {TRUE, FALSE}
    MaxRetries = 7
    MaxTaps <- OneTapEach
    Loaders = {phone}
    Closers = {phone}
    MaxDisconnects = 0
SPECIFICATION Spec
INVARIANTS
    RetriesArePaidFor
    
PROPERTIES
    ImplementsStarCounter
CHECK_DEADLOCK FALSE
