SPECIFICATION Spec
CONSTANTS
    Requests = {r1, r2}
    Cleaner = cleaner
    Plans <- MCPlans
    PoolSize = 1
INVARIANT TimeoutBoundsTheWait
