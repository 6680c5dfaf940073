CONSTANTS
    NoTask = NoTask
    Tasks = {t1, t2}
    Spawners = {s1, s2}
    MaxWorkers = 1
    MaxRestarts = 1
    MaxShutdowns = 1
    MaxStoreFaults = 1
    Deliveries = {d1, d2}
    TaskResults = {r1, r2}
    EnabledChannels = 2
    NoResult = NoResult
    TurnSteps = 2
    TurnCalls = 2
    MaxTurns = 2
    Aborting = TRUE
    Names <- ToolNames
    Rule <- StandardProfile
    Delegated = {"delegate"}
    LoopSteps = 3
    LoopCalls = 2
    MaxConsecutive = 3
    MaxTotal = 3
    Window = 4
    Threshold = 3
    SubTasks = 4
    MaxConcurrent = 2
SPECIFICATION AgentsSpec
CONSTRAINT OneTrouble
INVARIANTS AgentsTypeOK RunsOnce NoOrphanRunning DeliveredIsReceived MessagesKept ToolsGuarded PermitsConserved
PROPERTIES AbortBeatsResult RefinesLifecycle NothingStartsAfterAbort WorkEnds
CHECK_DEADLOCK FALSE
