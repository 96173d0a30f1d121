\* Limits of ramping-vus at a few VUs and seconds instead of a million and 1000h.
CONSTANTS
    Identifiers = {"default", "browse", "missing"}
    MaxRampingVUs = 4
    MaxRampingLength = 10
    Inputs <- MCInputs
    Driven <- MCDriven
    SampleInterval = 2
    MaxIterations = 2
    MaxFormVUs = 3
    MaxFormDuration = 4
    RequestTimeout = 2
    AllowPrivate = FALSE
    maxFields = 2
    Forms <- MCForms
SPECIFICATION SpecLoad
INVARIANTS
    AnnouncedPlanRuns
    AskedForRuns
    AcceptedStaysAccepted
    NobodyLeavesEarly
    SeriesCoversRun
PROPERTIES
    IsTestRun
    RunReturns
