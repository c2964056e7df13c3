\* One chat's queue of up to three tracks, two of them in one batch.
CONSTANTS
    None = None
    NoArray = NoArray
    a1 = a1
    a2 = a2
    a3 = a3
    Tracks = {1, 2}
    YouTube = {2}
    MaxLoop = 1
    Arrays = {a1, a2, a3}
    MaxSpare = 2
    MaxBatch = 2
    MaxLen = 3
SPECIFICATION Spec
SYMMETRY Symmetry
VIEW View
INVARIANTS TypeOK CopyStable NothingRetained
PROPERTIES Implements
CHECK_DEADLOCK FALSE
