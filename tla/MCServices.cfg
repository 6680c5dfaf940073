SPECIFICATION ServicesSpec
CONSTANTS
    Calls = {c1, c2, c3}
    MainCall = c1
    OwnCall = c2
    HandlerCall = c3
    N = 2
    Ops = {o1, o2}
    NoOp = NoOp
    Execs = {e1, e2}
    NoExec = NoExec
    MaxTokens = 3
    RefreshAttempts = 2
    Ensurers = {b1, b2}
    Managers = {b3}
    NoCall = NoCall
    Commands = {q1, q2}
    Enables = {q1}
    Reenable = Reenable
    MaxAttempts = 3
    MaxSockets = 3
    MaxConnects = 2
    Dirs = {d1, d2}
    NoDir = NoDir
    NameCount = 2
    MaxVersion = 2
    MaxChanges = 3
    Agents = {a1, a2}
    Keys = {k1, k2}
    ByokOf <- ApiKeyFirst
    OAuth = {k2}
    Channels = {n1}
    Listed = {a2}
    Selections <- Everything
    MaxImports = 2
    MaxTroubles = 1
    NoItem = NoItem
    MaxLoads = 2
    MaxAsked = 2
INVARIANTS ServicesTypeOK TransientOwned RunIsWhole IntegrationsHeld OneRefreshKeepsToken BrowserHeld SkillsMirrored PluginsHeld
PROPERTIES ImportTakesWhatIsGiven CallsEnd
CONSTRAINT FewTangled
CHECK_DEADLOCK FALSE
