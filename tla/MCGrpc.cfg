\* Two VUs and four connects: a VU still holds an entry whose fetch failed while
\* the other fetches again, and connects once more after that.
CONSTANTS
    VUs = {v1, v2}
    MaxIterations = 2
    MaxConnects = 4
    MaxCalls = 2
SPECIFICATION Spec
SYMMETRY Symmetry
CHECK_DEADLOCK FALSE
INVARIANTS
    ReflectedOnce
    NothingLeftOpen
    CallsRecorded
