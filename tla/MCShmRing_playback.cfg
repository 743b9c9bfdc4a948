SPECIFICATION FairSpec
CONSTANTS
    Capacity = 5
    ReadBufferSize = 2
    Backpressured = TRUE
    TimedPush = TRUE
    MaxSerial = 11
INVARIANTS TypeOK UnreadIntact
PROPERTIES IsChannel AllDelivered
