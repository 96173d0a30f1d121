\* A HEAD that keeps its body and is answered 200 with Content-Length: the
\* response is complete, and recorded as failed.
CONSTANTS
    NumSessions = 1
    Traffic <- MCTraffic
    MaxPresize = 3
    MaxRounds = 1
    MaxExchanges = 1
SPECIFICATION SessionSpec
CHECK_DEADLOCK FALSE
INVARIANT
    TwoXXSucceeds
