CONSTANTS
    N = 2
    Files = {a}
    Fallible <- AfterStart
    MaxVersion = 1
    MaxEvents = 1
    MaxFaults = 2
SPECIFICATION FairSpec
PROPERTIES EditIndexed BatchApplied
