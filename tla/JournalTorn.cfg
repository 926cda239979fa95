CONSTANTS
    Service = service
    Ingests = {ingest}
    Scans = {scan}
    Events = {e1, e2, e3}
    MaxFaults = 2
SPECIFICATION Spec
INVARIANTS TypeOK RestartMissesNothing AppliedOnce CorruptionIsExplained
PROPERTY CrashLeavesATail
SYMMETRY EventSymmetry
CHECK_DEADLOCK FALSE
