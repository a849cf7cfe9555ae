SPECIFICATION Spec
CONSTANTS
    Sessions = {s1}
    Jobs = {j1, j2}
    Strategies = {probe}
    Initially = {probe}
    Always = {}
    Regenerations = 1
    MaxCrashes = 0
CHECK_DEADLOCK FALSE
INVARIANTS
    ReportOfOneRun
