CONSTANTS
    NumVUs = 2
    NumModules = 2
    MaxRuns = 2
    Clients = {c1, c2}
    MaxPoints = 2
    WarningsKept = 1
SPECIFICATION MCSpec
INVARIANTS
    TeardownIffSetUp
    InterruptContained
    RunsOutliveKnownInstances
    NoRunLeftOpen
    ExitTellsOutcome
    PolledConsistent
    CancelHitsItsRun
PROPERTY Exits
