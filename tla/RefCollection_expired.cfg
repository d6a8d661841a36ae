\* A finding: with Redis the collection deletes refs that are wanted.
SPECIFICATION Spec
CONSTANTS
    all = all
    Ref = {r1}
    Config = {all}
    Default = Default
    Named <- MCMatches
    Matches <- MCMatches
    None = None
    Stores = {TRUE}
PROPERTY CollectionSparesWanted
