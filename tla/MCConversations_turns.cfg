SPECIFICATION ChatSpec
CONSTANTS
    Turns = {1, 2}
    KeepRecent = 2
    MaxClock = 1
    MaxRestarts = 1
    UuidOrder <- OldestFirst
    Sockets = {c1, c2}
    Streams = {s1, s2}
    ChannelCalls = {p1, p2, p3}
    None = None
    MaxUpdates = 3
    MaxConnects = 2
    MaxCrashes = 1
    MaxLinks = 2
    MaxGateways = 2
    MaxDiscordConnects = 2
CONSTRAINT OneTrouble
INVARIANTS ChatTypeOK OnlyOverlapLoses AnnouncedIsStored CompactionEnds WatchersHeld ChannelsServe
PROPERTY MessagesAnswered
CHECK_DEADLOCK FALSE
