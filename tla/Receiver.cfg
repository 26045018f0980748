SPECIFICATION FairSpec
CONSTANTS
    Streams <- MCStreams
    BufferSize = 7
    LoadLimit = 4
    PreserveBodyData = {TRUE, FALSE}
    MaxHeaderLength = 3
    MaxContentLength = 4
    Liberties <- NoLiberties
INVARIANTS
    DeliveredAreSent
    OnlyTheBadAreRefused
PROPERTIES
    EverythingArrives
CHECK_DEADLOCK FALSE
