\* One ref, and a project that comes and goes, with either store.
SPECIFICATION FairSpec
CONSTANTS
    all = all
    Ref = {r1}
    Config = {all}
    Default = Default
    Named <- MCMatches
    Matches <- MCMatches
    None = None
    Stores = {FALSE, TRUE}
INVARIANT CollectionInv
PROPERTIES
    CollectionSparesUnmarked
    DroppedRefsReturn
    RefsTracked
    RefsDropped
