\* Batches of up to two messages: results out of order, mixed with invalid ones.
\* Two objects and two calls: own and one-off clients side by side, closed and
\* used again, in one iteration or in the next.
CONSTANTS
    Keys = {k1}
    MaxBatch = 2
    MaxObjects = 2
    MaxCalls = 2
    MaxIterations = 2
SPECIFICATION Spec
CHECK_DEADLOCK FALSE
INVARIANTS
    ResultsAreTheMessages
    FamiliesExact
    ClientsReleased
