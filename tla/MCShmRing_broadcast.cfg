SPECIFICATION Spec
CONSTANTS
    Capacity = 4
    ReadBufferSize = 2
    Backpressured = FALSE
    TimedPush = FALSE
    MaxSerial = 12
INVARIANTS MarginProtects
