SPECIFICATION Spec
CONSTANTS
    Handlers = {h1}
    Takes = {t1}
    Exts = {wav}
    NumChunks = 2
    Totals = {2}
    QueueCap = 2
    MaxGenerations = 2
    MaxCrashes = 1
SYMMETRY Symmetry
CHECK_DEADLOCK FALSE
INVARIANTS
    TranscriptJobCovered
    ChunkJobCovered
PROPERTIES
    FollowsLifecycle
