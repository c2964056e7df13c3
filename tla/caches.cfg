\* Two caches of one key, one caller of Get, one tick of the clock.
CONSTANTS
    None = None
    c1 = c1
    c2 = c2
    k1 = k1
    v1 = v1
    p1 = p1
    Caches = {c1, c2}
    Keys = {k1}
    Values = {v1}
    TTLs = {0}
    Procs = {p1}
    MaxTime = 1
SPECIFICATION FairSpec
INVARIANTS TypeOK OneJanitor
PROPERTIES EvictionInvisible HitWasHeld StoppedExits ExpiredEvicted
CHECK_DEADLOCK FALSE
