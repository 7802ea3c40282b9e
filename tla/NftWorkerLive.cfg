CONSTANTS
    Jobs = {j1}
    Messages = {m1}
    NoMessage = NoMessage
    Requests <- SomeRequests
    MaxRetries = 2
    MaxVersion = 2
    MaxCrashes = 1
SPECIFICATION FairSpec
PROPERTIES Settled MetadataHeals
CHECK_DEADLOCK FALSE
