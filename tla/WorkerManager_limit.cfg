CONSTANTS
    Tasks = {t1, t2}
    Spawners = {s1, s2}
    NoTask = NoTask
    MaxWorkers = 1
    MaxRestarts = 0
    MaxShutdowns = 0
    MaxStoreFaults = 0
SPECIFICATION Spec
INVARIANT ConcurrencyLimit
CHECK_DEADLOCK FALSE
