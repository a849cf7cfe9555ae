SPECIFICATION Spec
CONSTANTS
    N = 2
    Handlers = {h1}
    Exts = {wav}
    QueueCap = 1
    MaxCrashes = 1
CHECK_DEADLOCK FALSE
INVARIANTS
    TypeOK
    NoQuestionSkipped
    AnswerJobCovered
PROPERTIES
    EndIsFinal
    FollowUpOfAnswered
