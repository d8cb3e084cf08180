CONSTANTS
    phone = phone
    tablet = tablet
    folklore = folklore
    evermore = evermore
    lover = lover
    Nobody = Nobody
    Clients = {phone, tablet}
    Feeds <- LongFeed
    Default = "top"
    Malformed = {lover}
    Droppers = {phone}
    MaxFields = 2
    MaxRequests <- TwiceAndOnce
    MaxKills = 1
SPECIFICATION FairSpec
INVARIANTS
    TypeOK
    
    HalfWrittenIsInHand
PROPERTIES
    EntriesSettle
    EveryAlbumIsEntered
CHECK_DEADLOCK FALSE
