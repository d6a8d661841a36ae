\* Two pages, two items of one name, one that does not match.
SPECIFICATION FairSpec
CONSTANTS
    a1 = a1
    a2 = a2
    b1 = b1
    x1 = x1
    Item = {a1, a2, b1, x1}
    Accepted <- MCAccepted
    Name <- MCName
    PerPage = 2
    MaxLimit = 2
    MaxChanges = 2
    MaxPipeline = 5
INVARIANTS
    TypeOK
    ListedAsOfOneState
    MissedOnlyIfDisplaced
    MostRecentOfName
    WalkedOnce
PROPERTY CallReturns
