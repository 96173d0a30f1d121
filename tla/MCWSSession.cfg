CONSTANTS
    QueueSize = 1
    MaxPending = 1
    MaxMsgs = 2
    MaxCalls = 3
SPECIFICATION Spec
INVARIANTS
    NothingOutlives
    NoMessageLost
    SessionRecorded
PROPERTIES
    Released
