\* A finding: a failed command leaves a key reserved for ever.
SPECIFICATION FairSpec
CONSTANTS
    Key = {k1}
    Replica = {x1}
    Nonce = {n1}
    Worker = {w1}
    None = None
    Capacity = 1
    CounterModulus = 2
    Lapses = FALSE
    Redelivers = FALSE
    Fails = TRUE
PROPERTY ReservationsEnd
\* The system may stop: every replica may have crashed.
CHECK_DEADLOCK FALSE
