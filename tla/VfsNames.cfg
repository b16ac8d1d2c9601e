CONSTANTS
    p1 = p1
    p2 = p2
    v0 = v0
    v1 = v1
    v2 = v2
    v3 = v3
    Procs <- MCProcs
    Vnodes <- MCVnodes
    Root = v0
    Names <- MCNames
    NameLen <- MCNameLen
    NAME_LEN = 3
    Paths <- MCPaths
    LinkPaths <- MCLinkPaths
    ProbePaths <- MCProbePaths
SPECIFICATION Spec
INVARIANT TypeOK
INVARIANT VnodeRefsBalanced
INVARIANT DirTreeWellFormed
INVARIANT CwdIsLiveDirectory
INVARIANT OpenNamevResolves
INVARIANT RenameAllOrNothing
SYMMETRY SlotSym
