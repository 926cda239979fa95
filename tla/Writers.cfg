CONSTANTS
    Procs = {p, q}
    Trees = {t1, t2}
    Says = {pass}
    Judged <- TheFileAndItsSymbol
    Usable = {"scan", "lane", "evidence", "compile", "rebuild"}
    MaxCommands = 3
    MaxEdits = 1
    MaxFaults = 1
SPECIFICATION Spec
SYMMETRY Alike
INVARIANTS UndisturbedPassRepairs FilesAreWhole StoreIsOneSnapshot
PROPERTY ReadersLoseNothing
CHECK_DEADLOCK FALSE
