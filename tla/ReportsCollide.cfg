SPECIFICATION Spec
CONSTANTS
    Sessions = {s1}
    Jobs = {j1, j2, j3}
    Strategies = {probe, numeric}
    Initially = {probe}
    Always = {probe}
    Regenerations = 2
    MaxCrashes = 0
CHECK_DEADLOCK FALSE
INVARIANTS
    FailuresAbsorbed
