\* Crashes at any point, no lost command: exclusion and progress.
SPECIFICATION FairSpec
CONSTANTS
    Key = {k1}
    Replica = {x1, x2}
    Nonce = {n1}
    Worker = {w1, w2}
    None = None
    Capacity = 1
    CounterModulus = 2
    Lapses = FALSE
    Redelivers = FALSE
    Fails = FALSE
INVARIANTS
    TypeOK
    OneLiveJobPerKey
PROPERTY ReservationsEnd
\* The system may stop: every replica may have crashed.
CHECK_DEADLOCK FALSE
