CONSTANTS
    N = 2
    MaxLine = 2
    Trees <- TwoTrees
    Needs <- EachOther
    OfKindFile <- TheFirst
    Summarised <- TheFirst
SPECIFICATION Spec
INVARIANT FinalizeIsExact
