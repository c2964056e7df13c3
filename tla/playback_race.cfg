\* Two handlers at once over one chat, and the events from outside.
CONSTANTS
    None = None
    p1 = p1
    p2 = p2
    Tracks = {1, 2, 3, 4}
    YouTube = {3, 4}
    MaxLoop = 1
    Procs = {p1, p2}
    MaxQueueLength = 2
    MaxBatch = 1
    Ops = {"play", "fplay", "skip", "end", "autoplay", "cleared", "discarded"}
    Faults = {"search", "send"}
SPECIFICATION Spec
SYMMETRY Symmetry
VIEW View
INVARIANTS QueuedOnce QueueBound
CHECK_DEADLOCK FALSE
