CONSTANTS
    phone = phone
    tablet = tablet
    anna = anna
    ben = ben
    Clients = {phone, tablet}
    Users = {anna, ben}
    UidOf <- TwoUsers
    Commenters = {}
    Entered = {TRUE, FALSE}
    MaxRetries = 3
    MaxTaps <- TwoTapsAgainstOne
    Loaders = {}
    Closers = {}
    MaxDisconnects = 1
SPECIFICATION FairSpec
INVARIANTS TypeOK CountMatchesAdds AppliedIsAnswered CommittedWereApplied
PROPERTIES EveryTapIsAnswered
CHECK_DEADLOCK FALSE
