\* One handler at a time, a prefetch in the background, and the download of the same track.
CONSTANTS
    None = None
    p1 = p1
    t1 = t1
    t2 = t2
    t3 = t3
    Tracks = {1, 2, 3}
    YouTube = {3}
    MaxLoop = 1
    Procs = {p1}
    MaxQueueLength = 3
    MaxBatch = 2
    Ops = {"play", "skip", "stop", "end"}
    Faults = {"download"}
    Timers = {t1, t2, t3}
SPECIFICATION PrefetchSpec
SYMMETRY Symmetry
VIEW View
INVARIANTS OneDownload
CHECK_DEADLOCK FALSE
