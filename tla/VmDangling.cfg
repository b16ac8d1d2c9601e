CONSTANTS
    p1 = p1
    p2 = p2
    Procs <- MCProcs
    FirstProc = p1
    NPages = 1
    NObjs = 3
    NVmas = 2
    MaxRef = 4
    FaultPages <- AllPages
    MapKinds <- AllKinds
    MmapLos <- AllLos
    UnmapLos <- UnmapAll
    PageSize = 2
    StartBrks <- NoImage
    BrkAddrs <- NoBrk
SPECIFICATION Spec
CHECK_DEADLOCK FALSE
INVARIANT BottomListsLive
