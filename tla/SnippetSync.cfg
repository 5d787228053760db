SPECIFICATION Spec
CONSTANTS
    Workers = {w1}
    Databases = {d1}
    Texts = {t1, t2}
    Ids = {i1, i2}
    Absent = Absent
    MaxCalls = 3
    MaxFailures = 1
\* The bound on calls ends every behaviour.
CHECK_DEADLOCK FALSE
PROPERTIES
    SyncLeavesNoOrphans
