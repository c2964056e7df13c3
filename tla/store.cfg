SPECIFICATION Spec
CONSTANTS
    None = None
    p1 = p1
    p2 = p2
    p3 = p3
    u1 = u1
    u2 = u2
    s1 = s1
    s2 = s2
    Procs = {p1, p2, p3}
    Users = {u1, u2}
    Faults = {"database", "telegram", "network", "ffmpeg"}
    Bot = Bot
    Creator = u1
    PlaylistIds <- Ids
    Songs = {s1, s2}
    MaxPlaylists = 2
    Configured = {"media", "arc"}
    ArcCycles = 2
    TelegramTries = 2
    Workloads <- WorkloadSets
INVARIANTS TypeOK StaleOnlyAfterRace GateHonest RestoreExact CancelStops PlaylistsBounded DownloadsWhole ArcBalance
CHECK_DEADLOCK FALSE
