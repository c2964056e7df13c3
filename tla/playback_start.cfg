\* Three requests reach an idle chat together and nothing interrupts them.
CONSTANTS
    None = None
    p1 = p1
    p2 = p2
    p3 = p3
    Tracks = {1, 2, 3, 4}
    YouTube = {3, 4}
    MaxLoop = 1
    Procs = {p1, p2, p3}
    MaxQueueLength = 3
    MaxBatch = 2
    Ops = {"play", "remove"}
    Faults = {"search"}
SPECIFICATION Spec
SYMMETRY Symmetry
VIEW View
INVARIANTS OneDriver HeadIsStreaming
CHECK_DEADLOCK FALSE
