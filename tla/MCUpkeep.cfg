CONSTANTS
    j1 = j1
    j2 = j2
    u1 = u1
    Tick = Tick
    NoJob = NoJob
    Jobs <- TwoJobs
    Users <- OneUser
    Calls <- CallsRun
    Limits <- OnceOrUnlimited
    Period = 1
    MaxTime = 2
    MaxCalls = 5
    MaxCrashes = 1
    MaxSaveFaults = 1
    MaxRecords = 2
    BatchSize = 2
    MaxRetries = 2
    Attempts = 2
    MaxDepth = 2
    TextA = TextA
    TextB = TextB
    TextC = TextC
    MaxFacts = 2
    MaxLtm = 3
    MaxRuns = 2
    SessionCalls = {s1, s2}
    MaxSessions = 3
    MaxLoads = 4
    SignInCalls = {o1, o2}
    NoCall = NoCall
    MaxSignIns = 2
    NumSteps = 3
    Skippable = {2, 3}
    WizardCalls = {w1, w2}
    MaxRestarts = 1
    MaxActs = 5
    InstallCalls = {i1, i2}
    MaxVersion = 2
    MaxInstalls = 2
    NoText = NoText
SPECIFICATION UpkeepSpec
INVARIANTS UpkeepTypeOK ConsolidationHeld SessionsKept ConnectHeld SetupHeld
PROPERTY DueJobsRun
CHECK_DEADLOCK FALSE
