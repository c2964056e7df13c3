SPECIFICATION Spec
SYMMETRY Symmetric
CONSTANTS
    None = None
    a1 = a1
    a2 = a2
    c1 = c1
    u1 = u1
    Assistants = {a1, a2}
    Commanders = {c1}
    Updaters = {u1}
    g1 = g1
    g2 = g2
    CallIds = {g1, g2}
    Ops = {"play"}
    Events = {}
    Loads <- RetryLoad
    MaxLinks = 1
INVARIANT RetryJoins
CHECK_DEADLOCK FALSE
