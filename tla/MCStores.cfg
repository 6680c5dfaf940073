CONSTANTS
    j1 = j1
    j2 = j2
    u1 = u1
    Tick = Tick
    NoJob = NoJob
    Jobs = {j1}
    Users = {u1, u2}
    Calls <- CallsAll
    Limits <- OnceOrUnlimited
    Period = 1
    MaxTime = 2
    MaxCalls = 3
    MaxCrashes = 1
    MaxSaveFaults = 1
    MemoryCalls = {m1, m2}
    Ingester = Ingester
    NoProc = NoProc
    NoText = NoText
    Torn = Torn
    First = First
    Edited = Edited
    MaxIds = 3
    MaxMemoryCrashes = 1
    CredentialCalls = {k1, k2, k3}
    Records = {r1, r2}
    Absent = Absent
    Revoked = Revoked
    Chats = {q1}
    Keepalive = Keepalive
    User = User
    MaxPairs = 3
    Documents = {f1, f2}
    DocumentCalls = {d1, d2}
    QueueSize = 1
    MaxChanges = 2
    MaxRequests = 2
    WatcherCalls = {w1, w2}
    MaxWatchers = 1
    NoFile = NoFile
    MaxNumbers = 2
    MaxFaults = 1
    MaxStarts = 2
    Envs = {First, e2}
    EnvCalls = {v1, v2}
    Main = Main
    Reload = Reload
    NoEnv = NoEnv
    MaxSwitches = 2
    MaxEdits = 1
SPECIFICATION StoresSpec
SYMMETRY StoresSymmetry
CONSTRAINT OneTrouble
INVARIANTS StoresTypeOK NoDeadActiveJob StopHolds RunsAccounted RecordsKept CredentialsHeld
CHECK_DEADLOCK FALSE
