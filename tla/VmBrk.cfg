\* Two processes mapping every kind of area, faulting, forking (with
\* failures), exiting and moving the break, without unmapping ranges.
CONSTANTS
    p1 = p1
    p2 = p2
    Procs <- MCProcs
    FirstProc = p1
    NPages = 3
    NObjs = 4
    NVmas = 4
    MaxRef = 4
    PageSize = 2
    StartBrks <- MCStartBrks
    BrkAddrs <- BrkAddrs3
    MmapLos <- NoFixed
    UnmapLos <- NoUnmap
    FaultPages <- AllPages
    MapKinds <- ForkKinds
SPECIFICATION Spec
CHECK_DEADLOCK FALSE
INVARIANT HeapMatchesBreak
INVARIANT RegionsDisjoint
INVARIANT RefcountCoversHolders
INVARIANT ShadowChainsEndAtBottom
INVARIANT AreasOnBottomLists
INVARIANT WritesStayPrivate
PROPERTY ForkFailureRestoresParent
