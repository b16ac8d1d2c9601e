CONSTANT MaxPids = 5
SPECIFICATION FairSpec
CHECK_DEADLOCK FALSE
INVARIANT TypeOK
INVARIANT ProcTreeConsistent
PROPERTY ReapOnlyDead
PROPERTY WaitpidReturns
PROPERTY ShutdownFollowsInitExit
