SPECIFICATION Spec
CONSTANTS
    Handlers = {h1, h2}
    Takes = {t1}
    Exts = {wav}
    NumChunks = 0
    Totals = {}
    QueueCap = 1
    MaxGenerations = 2
    MaxCrashes = 1
SYMMETRY Symmetry
CHECK_DEADLOCK FALSE
INVARIANTS
    TranscriptJobCovered
