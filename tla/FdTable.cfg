CONSTANTS
    p1 = p1
    p2 = p2
    f1 = f1
    f2 = f2
    f3 = f3
    vd = vd
    vr = vr
    vc = vc
    Procs <- MCProcs
    InitProc = p1
    NFILES = 2
    Files <- MCFiles
    Vnodes <- DirReg
    VKind <- DirRegKind
    MaxPos = 3
SPECIFICATION Spec
CHECK_DEADLOCK FALSE
INVARIANT TypeOK
INVARIANT FileRefsExact
INVARIANT VnodeRefsExact
SYMMETRY FileSym
