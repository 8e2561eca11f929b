SPECIFICATION Spec
CONSTANTS
    Clients = {k1, k2}
    Calls = {c1, c2, c3, c4, c5}
    Cost = 2
    Burst = 2
    IdleTTL = 5
    SweepInterval = 2
    MaxDelay = 1
    MaxClock = 7
    NoBucket = NoBucket
SYMMETRY Symmetry
INVARIANTS
    WindowBound
    RefusedOnlyAfterBurst
CHECK_DEADLOCK FALSE
