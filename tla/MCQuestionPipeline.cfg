SPECIFICATION FairSpec
CONSTANTS
    plain = plain
    corrected = corrected
    drop = drop
    cast = cast
    NoQuery = NoQuery
    Queries = {plain, corrected, drop, cast}
    Destructive = {drop}
    Casts = {cast}
    Schemas <- MCSchemas
    Rewrites <- MCRewrites
    RetryLimits = {0, 2}
    MaxTables = 2
    MaxChanges = 1
    MaxEdits = 1
    MaxFaults = 1
CHECK_DEADLOCK FALSE
INVARIANTS
    DeliveredIsVerified
    AcceptedRunsUnlessOvertaken
    SnippetsAreAttributed
PROPERTY AlwaysAnswered
