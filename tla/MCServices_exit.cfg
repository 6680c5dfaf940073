SPECIFICATION ServicesSpec
CONSTANTS
    Calls = {c1, c2, c3}
    MainCall = c1
    OwnCall = c2
    HandlerCall = c3
    N = 2
    Ops = {o1, o2}
    NoOp = NoOp
    Execs = {e1}
    NoExec = NoExec
    MaxTokens = 1
    RefreshAttempts = 1
    Ensurers = {b1}
    Managers = {b3}
    NoCall = NoCall
    Commands = {q1}
    Enables = {q1}
    Reenable = Reenable
    MaxAttempts = 1
    MaxSockets = 1
    MaxConnects = 1
    Dirs = {d1}
    NoDir = NoDir
    NameCount = 1
    MaxVersion = 1
    MaxChanges = 0
    Agents = {a1}
    Keys = {k1}
    ByokOf <- ApiKeyFirst
    OAuth = {}
    Channels = {n1}
    Listed = {}
    Selections <- Everything
    MaxImports = 0
    MaxTroubles = 0
    NoItem = NoItem
    MaxLoads = 1
    MaxAsked = 1
INVARIANT GracefulExit
CHECK_DEADLOCK FALSE
