SPECIFICATION FairSpec
CONSTANTS
    N = 1
    Handlers = {h1}
    Exts = {wav, mp3}
    QueueCap = 2
    MaxCrashes = 1
CHECK_DEADLOCK FALSE
INVARIANTS
    ReadyHasText
PROPERTIES
    VerdictUnlessRestart
    AnswersSettle
