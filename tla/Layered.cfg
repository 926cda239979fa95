CONSTANTS
    N = 2
    MaxLine = 2
    Trees <- ThreeTrees
    Needs <- EachOther
    OfKindFile <- TheFirst
    Summarised <- TheFirst
SPECIFICATION Spec
INVARIANTS TypeOK ExactButForLeftovers RescanKeepsIdentity NothingIsDoubled
