SPECIFICATION FairSpec
CONSTANTS
    Handlers = {h1}
    Takes = {t1, t2}
    Exts = {wav, mp3}
    NumChunks = 0
    Totals = {}
    QueueCap = 2
    MaxGenerations = 2
    MaxCrashes = 0
CHECK_DEADLOCK FALSE
INVARIANTS
    TranscriptOfRecording
    QuestionsMadeOnce
PROPERTIES
    TranscriptSettles
    GenerationSettles
