CONSTANTS
    QueueSize = 1
    MaxPending = 1
    MaxMsgs = 1
    MaxCalls = 1
SPECIFICATION Spec
INVARIANT CleanEndSucceeds
