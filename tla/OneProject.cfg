CONSTANTS
    N = 1
    Files = {a, b}
    Fallible <- CallSites
    MaxVersion = 2
    MaxEvents = 1
    MaxFaults = 1
SPECIFICATION Spec
INVARIANTS TypeOK MarkedWorkIsVisible
PROPERTIES BatchKeptUntilApplied KeepsLedger
