CONSTANTS
    ax = ax
    ay = ay
    asx = asx
    bz = bz
    small = small
    big = big
    Files = {ax, asx, bz}
    WalkOrder <- ThreeFiles
    Content = {small, big}
    PlanetOf <- Directories
    Path <- Paths
    SystemOf <- Tops
    Above <- Parents
    Size <- LengthOf
    Stem <- Stems
    Imports <- ImportLines
    Configs <- Various
    MaxEdits = 2
    MaxFaults = 1
SPECIFICATION Spec
INVARIANTS TypeOK SharedOnlyByReuse ShortIsMarked PassAgrees SlicesMakeTheWhole
PROPERTY IdentityFollows
CHECK_DEADLOCK FALSE
