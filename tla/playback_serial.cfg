\* One handler at a time, every command, every fault but a failed announcement.
CONSTANTS
    None = None
    p1 = p1
    Tracks = {1, 2, 3, 4}
    YouTube = {2, 3}
    MaxLoop = 1
    Procs = {p1}
    MaxQueueLength = 3
    MaxBatch = 2
    Ops = {"play", "fplay", "skip", "stop", "loop", "remove", "autoplay", "seek", "end", "collected"}
    Faults = {"search", "download", "media", "rotate", "hangup"}
SPECIFICATION FairSpec
INVARIANTS TypeOK HeadIsStreaming StopHalts SkipSwitches TurnKept AutoplayEndsWithQueue
PROPERTIES HandlersReturn QueuedServed
CHECK_DEADLOCK FALSE
