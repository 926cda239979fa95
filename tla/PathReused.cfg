CONSTANTS
    ax = ax
    ay = ay
    asx = asx
    bz = bz
    small = small
    big = big
    Files = {ax, asx, bz}
    WalkOrder <- ThreeFiles
    Content = {small, big}
    PlanetOf <- Directories
    Path <- Paths
    SystemOf <- Tops
    Above <- Parents
    Size <- LengthOf
    Stem <- Stems
    Imports <- ImportLines
    Configs <- Whole
    MaxEdits = 2
    MaxFaults = 0
SPECIFICATION Spec
INVARIANT NoIdIsShared
CHECK_DEADLOCK FALSE
