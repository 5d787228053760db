SPECIFICATION MCSpec
CONSTANTS
    Workers = {w1, w2}
    Databases = {d1, d2}
    Texts = {t1, t2}
    Ids = {i1, i2}
    Absent = Absent
    MaxCalls = 4
    MaxFailures = 1
    Requests = {w1, w2}
    Files = {f}
    Contents = {t1, t2}
    CollectionTables = {i1, i2}
    Chunks <- MCChunks
    NoFile = NoFile
    BatchSize = 3
    MaxRequests = 3
    MaxMishaps = 1
SYMMETRY SumSymmetry
\* The bounds on calls and requests end every behaviour.
CHECK_DEADLOCK FALSE
INVARIANTS
    AgreeUnlessContested
    DocumentsFollowFiles
    NothingLost
    SyncCoversTables
