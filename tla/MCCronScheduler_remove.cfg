CONSTANTS
    j1 = j1
    j2 = j2
    u1 = u1
    Tick = Tick
    NoJob = NoJob
    Jobs <- OneJob
    Users <- OneUser
    Calls <- CallsRemove
    Limits <- Unlimited
    Period = 1
    MaxTime = 1
    MaxCalls = 3
    MaxCrashes = 0
    MaxSaveFaults = 0
SPECIFICATION Spec
INVARIANT RemovedStaysRemoved
CHECK_DEADLOCK FALSE
