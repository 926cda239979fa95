CONSTANTS
    u = u  g = g  p = p  m = m  n = n
    f = f  h = h  s1 = s1  s2 = s2  e1 = e1
    root1 = root1  root2 = root2
    Sessions = {"idx"}
    Entities <- MCEntities
    Facts <- MCFacts
    Floor <- MCFloor
    Shapes <- MCShapes
    Positions <- MCPositions
    MaxChanges = 1
    None = None
    Snapshots <- MCSnapshots
    MaxIdxChanges = 1
    PermissionIds = {"r1", "r2", "r3"}
    Clients = {"c1", "c2"}
    Actions = {"write"}
    Patterns <- MCPatterns
    Paths <- MCPaths
    Expiries = {0}
    Never = Never
    LastInstant = 1
    MaxUses = 1
    Nodes = {1, 2, 3, 4, 5, 6, 7, 8}
    Galaxies <- MCGalaxies
    OrbitRequests <- MCRequests
    MaxStarts = 2
    MaxZoomExpansion = 2
    Envelope = 1
    RootLists <- MCRootLists
    MaxVersion = 2
    MaxPolls = 1
    Declarations = {"d1", "d2"}
    Containers = {"galaxy", "file"}
    ListOrder <- MCList
    FileOf <- MCFiles
    Skeleton <- MCSkeleton
    Below <- MCBelow
    Protected = {"galaxy"}
    Proposals <- MCProposals
    MaxLaneEdits = 2
    MaxSummaries = 2
INIT MCInit
NEXT MCNext
CHECK_DEADLOCK FALSE
INVARIANT EdgeEvidenceSurvives
