\* Every fault at once, two keys against a limit of one, one replica.
SPECIFICATION Spec
CONSTANTS
    Key = {k1, k2}
    Replica = {x1}
    Nonce = {n1, n2}
    Worker = {w1, w2}
    None = None
    Capacity = 1
    CounterModulus = 1
    Lapses = TRUE
    Redelivers = TRUE
    Fails = TRUE
INVARIANTS
    CapacityBound
    CountedOnce
SYMMETRY Symmetry
\* The system may stop: every replica has crashed and no UUID is left to draw.
CHECK_DEADLOCK FALSE
