CONSTANT MaxPids = 5
SPECIFICATION Spec
CHECK_DEADLOCK FALSE
INVARIANT NoSleepingWithZombie
