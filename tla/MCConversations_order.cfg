SPECIFICATION ChatSpec
CONSTANTS
    Turns = {1}
    KeepRecent = 2
    MaxClock = 1
    MaxRestarts = 0
    UuidOrder <- AnswerFirst
    Sockets = {c1}
    Streams = {s1}
    ChannelCalls = {p1}
    None = None
    MaxUpdates = 1
    MaxConnects = 1
    MaxCrashes = 0
    MaxLinks = 1
    MaxGateways = 1
    MaxDiscordConnects = 1
INVARIANT HistoryInOrder
CHECK_DEADLOCK FALSE
