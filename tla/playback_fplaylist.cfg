\* A forced playlist, one handler at a time, nothing failing.
CONSTANTS
    None = None
    p1 = p1
    Tracks = {1, 2}
    YouTube = {2}
    MaxLoop = 1
    Procs = {p1}
    MaxQueueLength = 3
    MaxBatch = 2
    Ops = {"fplay", "fplaylist", "end"}
    Faults = {"search"}
SPECIFICATION Spec
INVARIANTS TurnKept
CHECK_DEADLOCK FALSE
