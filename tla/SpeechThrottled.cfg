SPECIFICATION Spec
CONSTANTS
    s1 = s1
    s2 = s2
    Sessions = {s1, s2}
    Primaries <- OneEach
    FollowUps <- OneMore
    Refused <- OneMore
    Throttling = TRUE
    StorageFails = FALSE
    MAX_RETRIES = 0
    MaxCrashes = 0
CHECK_DEADLOCK FALSE
PROPERTIES
    RejectionConfirmed
