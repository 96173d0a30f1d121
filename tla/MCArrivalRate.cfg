\* Three starts per two ticks of TimeUnit 2 over four ticks (6 starts) for
\* two VUs: starts fall due together, VUs are free, busy and short.
CONSTANTS
    v1 = v1  v2 = v2
    VUs <- TwoVUs
    Rate = 3
    TimeUnit = 2
    Duration = 4
    StartTime = 1
    GracefulStop = 1
    HalfWord = 1024
SPECIFICATION Spec
INVARIANTS
    HandoverHasReceiver
    StartsAccounted
PROPERTIES
    KeepsPromise
    AllReturn
