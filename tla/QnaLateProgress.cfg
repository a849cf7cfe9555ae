SPECIFICATION Spec
CONSTANTS
    N = 2
    Handlers = {h1}
    Exts = {wav}
    QueueCap = 1
    MaxCrashes = 0
CHECK_DEADLOCK FALSE
PROPERTIES
    LateAnswerKeepsProgress
