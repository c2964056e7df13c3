\* One handler at a time, up to three prefetches in the background.
CONSTANTS
    None = None
    p1 = p1
    t1 = t1
    t2 = t2
    t3 = t3
    Tracks = {1, 2, 3}
    YouTube = {3}
    MaxLoop = 1
    Procs = {p1}
    MaxQueueLength = 3
    MaxBatch = 2
    Ops = {"play", "fplay", "skip", "stop", "end", "cleared", "discarded"}
    Faults = {"search", "download", "media", "hangup"}
    Timers = {t1, t2, t3}
SPECIFICATION PrefetchSpec
SYMMETRY Symmetry
VIEW View
INVARIANTS PrefetchTypeOK GuardExact OneTimer StopCancels
CHECK_DEADLOCK FALSE
