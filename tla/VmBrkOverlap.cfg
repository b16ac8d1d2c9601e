\* Violation: brk resizes the area at start_brk across an area a munmap split off.
CONSTANTS
    p1 = p1
    p2 = p2
    Procs <- MCProcs
    FirstProc = p1
    NPages = 4
    NObjs = 4
    NVmas = 4
    MaxRef = 4
    PageSize = 2
    StartBrks <- MCStartBrks
    BrkAddrs <- BrkAddrs4
    MmapLos <- NoFixed
    UnmapLos <- UnmapAll
    FaultPages <- AllPages
    MapKinds <- AnonPrivate
SPECIFICATION Spec
CHECK_DEADLOCK FALSE
INVARIANT RegionsDisjoint
