\* Two ticks per microsecond.
CONSTANTS
    MicroTicks = 2
    Plans <- AllPlans
    StartTime = 1
    GracefulRampDown = 4
    GracefulStop = 1
    MaxIterations = 2
    MaxCalls = 1
    Sharers = {v1, v2}
    SubBits = 0
    MaxTracked = 1
    Latencies = {0, 3}
    MaxRequests = 1
    MaxTicks = 2
SPECIFICATION VUsSpec
INVARIANTS
    RampDownCuts
    StagesExact
    QuiescentExact
    PointsSound
PROPERTIES
    BeginsOnlyActive
    Returns
