SPECIFICATION FairSpec
CONSTANTS
    s1 = s1
    s2 = s2
    Sessions = {s1, s2}
    Primaries <- OneEach
    FollowUps <- OneMore
    Refused <- OneMore
    Throttling = TRUE
    StorageFails = TRUE
    MAX_RETRIES = 0
    MaxCrashes = 1
CHECK_DEADLOCK FALSE
INVARIANTS
    VoiceOfPersona
PROPERTIES
    SpeechPolled
    SpeechSettles
