\* /stop while another handler is on its way to the air.
CONSTANTS
    None = None
    p1 = p1
    p2 = p2
    Tracks = {1, 2}
    YouTube = {2}
    MaxLoop = 1
    Procs = {p1, p2}
    MaxQueueLength = 2
    MaxBatch = 1
    Ops = {"play", "skip", "stop", "end"}
    Faults = {"search"}
SPECIFICATION Spec
INVARIANTS StopHalts
CHECK_DEADLOCK FALSE
