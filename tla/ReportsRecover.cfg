SPECIFICATION Spec
CONSTANTS
    Sessions = {s1, s2}
    Jobs = {j1, j2}
    Strategies = {probe}
    Initially = {probe}
    Always = {probe}
    Regenerations = 0
    MaxCrashes = 1
CHECK_DEADLOCK FALSE
INVARIANTS
    FailuresAbsorbed
