\* Fair goroutines and queue, jobs run once: duplicates, capacity, refinement.
SPECIFICATION FairSpec
CONSTANTS
    Key = {k1, k2}
    NoKey = NoKey
    Caller = {c1, c2}
    Worker = {w1, w2}
    Capacity = 2
    MaxAttempts = 1
    MaxHeld = 2
    CounterModulus = 2
INVARIANTS
    TypeOK
    ReservationExact
    OutstandingBounded
PROPERTY RefinesFairly
