SPECIFICATION Spec
CONSTANTS
    Pieces <- AllPieces
    MaxTotal = 260
    Talks <- AllTalks
    Keys <- BackupKey
    Configured <- RepeatedModels
CHECK_DEADLOCK FALSE
INVARIANTS
    ChunkHoldsItsAudio
    WordsOnce
    PhrasesOnce
    FallbackInTurn
