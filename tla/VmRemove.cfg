CONSTANTS
    p1 = p1
    p2 = p2
    Procs <- OneProc
    FirstProc = p1
    NPages = 3
    NObjs = 2
    NVmas = 3
    MaxRef = 4
    FaultPages <- AllPages
    MapKinds <- RemoveKinds
    MmapLos <- AllLos
    UnmapLos <- UnmapAll
    PageSize = 2
    StartBrks <- NoImage
    BrkAddrs <- NoBrk
SPECIFICATION Spec
CHECK_DEADLOCK FALSE
INVARIANT TypeOK
INVARIANT RefcountExact
INVARIANT AreasOnBottomLists
INVARIANT InsertKeepsOrder
INVARIANT FindRangeIsFirstFit
INVARIANT LookupAndEmptyAgree
INVARIANT WritesStayPrivate
