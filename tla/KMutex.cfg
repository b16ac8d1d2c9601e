\* Safety and cancellation liveness of kmutex_t with three threads.
CONSTANTS
    t1 = t1
    t2 = t2
    t3 = t3
    NoThread = NoThread
    Threads <- MCThreads
    Cancellers <- MCThreads
SPECIFICATION Spec
INVARIANT TypeOK
INVARIANT MutualExclusion
INVARIANT OwnerInCriticalSection
INVARIANT QueueDiscipline
PROPERTY CancelledSleeperReturns
PROPERTY ImplementsMutexSpec
