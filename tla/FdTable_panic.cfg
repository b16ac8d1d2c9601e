CONSTANTS
    p1 = p1
    p2 = p2
    f1 = f1
    f2 = f2
    f3 = f3
    vd = vd
    vr = vr
    vc = vc
    Procs <- MCProcs
    InitProc = p1
    NFILES = 1
    Files <- MCFiles
    Vnodes <- RegOnly
    VKind <- RegKind
    MaxPos = 3
SPECIFICATION Spec
INVARIANT NoWritePanic
