SPECIFICATION FairSpec
CONSTANTS
    Handlers = {h1, h2}
    Exts = {pdf, pptx}
    MaxVersions = 2
    MaxCrashes = 1
CHECK_DEADLOCK FALSE
INVARIANTS
    TypeOK
    FileOfRow
PROPERTIES
    MaterialPolled
    MaterialSettles
