CONSTANTS
    MicroTicks = 1
    Plans <- JumpOnly
    StartTime = 0
    GracefulRampDown = 0
    GracefulStop = 0
    MaxIterations = 2
    MaxCalls = 1
SPECIFICATION Spec
PROPERTY ErrorsAreTheScripts
