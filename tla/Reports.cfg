SPECIFICATION FairSpec
CONSTANTS
    Sessions = {s1, s2}
    Jobs = {j1, j2}
    Strategies = {probe, numeric}
    Initially = {probe}
    Always = {probe}
    Regenerations = 1
    MaxCrashes = 1
CHECK_DEADLOCK FALSE
INVARIANTS
    TypeOK
    ReportOfOneRun
PROPERTIES
    ReportPolled
    ReportsSettle
