\* Violation: a cancelled, woken waiter leaves the others asleep on a free mutex.
CONSTANTS
    t1 = t1
    t2 = t2
    t3 = t3
    NoThread = NoThread
    Threads <- MCThreads
    Cancellers <- MCThreads
SPECIFICATION Spec
INVARIANT NoStrandedWaiter
