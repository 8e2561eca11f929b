SPECIFICATION FairSpec
CONSTANTS
    None = None
    Junk = Junk
    Processes = {p1, p2}
    Environments <- AtTheEdges
    Migrations = 2
    MaxFaults = 2
INVARIANT TypeOK
INVARIANT LoadIsEnough
INVARIANT ServesOnCurrentSchema
PROPERTY ComesUp
