SPECIFICATION Spec
CONSTANTS
    Handlers = {h1, h2}
    MAX_ATTEMPTS = 1
    MaxUsers = 2
    MaxCodes = 2
    MaxTokens = 3
    MaxEndings = 2
SYMMETRY Symmetry
CHECK_DEADLOCK FALSE
INVARIANTS
    TypeOK
    OneTokenPerLogin
    SessionsEnded
    SessionsOfVerified
    OneLiveCode
