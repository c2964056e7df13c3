SPECIFICATION Spec
CONSTANTS
    None = None
    a1 = a1
    a2 = a2
    c1 = c1
    u1 = u1
    Assistants = {a1, a2}
    Commanders = {c1}
    Updaters = {u1}
    g1 = g1
    g2 = g2
    CallIds = {g1, g2}
    Ops = {"play", "stop", "joinall", "leaveall", "clearass"}
    Events = {"video", "member", "self", "link", "expire", "bot"}
    Loads <- LoadSets
    MaxLinks = 1
INVARIANTS TypeOK WaitersGone OneLeaver StopLeaves 
PROPERTIES CommandsReturn
CHECK_DEADLOCK FALSE
