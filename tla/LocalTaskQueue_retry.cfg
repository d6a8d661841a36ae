\* Fair goroutines and queue, jobs handled up to twice: slots and progress.
SPECIFICATION FairSpec
CONSTANTS
    Key = {k1}
    NoKey = NoKey
    Caller = {c1, c2}
    Worker = {w1}
    Capacity = 2
    MaxAttempts = 2
    MaxHeld = 1
    CounterModulus = 2
INVARIANTS
    SlotsCoverDebts
    QuietAdmits
    IndInv
PROPERTIES
    ReservationsEnd
    CallsReturn
