CONSTANTS
    phone = phone
    tablet = tablet
    anna = anna
    ben = ben
    folklore = folklore
    evermore = evermore
    NoAlbum = NoAlbum
    Clients = {phone, tablet}
    Users = {anna, ben}
    UidOf <- TwoUsers
    Albums = {folklore, evermore}
    FeedOf <- TwoFeeds
    MaxFields = 2
    MaxPosts = 2
    MaxPopulates <- TwiceAndOnce
    MaxKills = 1
SPECIFICATION FairSpec
INVARIANTS
    TypeOK
    NoDanglingEntry
    EntriesAreEarned
    
    NextPostRepairs
PROPERTIES
    EveryPostIsDone
CHECK_DEADLOCK FALSE
