\* Webhook events, loops and task handlers against two callers of Close.
SPECIFICATION FairSpec
CONSTANTS
    Request = {r1, r2, r3}
    Loop = {l1, l2}
    OneShot = {l2}
    Handler = {h1}
    Closer = {c1, c2}
    MaxConcurrent = 2
INVARIANTS
    TypeOK
    SlotsExact
    GroupExact
    IdleAfterClose
PROPERTIES
    CloseReturns
    EventsSettle
\* The system stops when every request is answered and Close has returned.
CHECK_DEADLOCK FALSE
