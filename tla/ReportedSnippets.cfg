SPECIFICATION Spec
CONSTANTS
    plain = plain
    corrected = corrected
    drop = drop
    cast = cast
    NoQuery = NoQuery
    Queries = {plain, corrected, drop, cast}
    Destructive = {drop}
    Casts = {cast}
    Schemas <- MCSchemas
    Rewrites <- MCRewrites
    RetryLimits = {0}
    MaxTables = 1
    MaxChanges = 0
    MaxEdits = 0
    MaxFaults = 0
CHECK_DEADLOCK FALSE
INVARIANT ReportedWereUsed
