SPECIFICATION MCSpec
CONSTANTS
    Workers = {w1, w2}
    TableSyncs = {t1, t2}
    FactSyncs = {f1}
    Others = {q1}
    Nobody = Nobody
    MaxKills = 2
    WebWorkers = {w1}
    MaxTries = 2
    OpTicks = 2
    MaxPolls = 4
    MaxDeaths = 1
    MaxCrashes = 1
\* A service that has been stopped stays stopped; all requests are answered
\* in the end, or held up.
CHECK_DEADLOCK FALSE
INVARIANTS
    OutlivesOnlyByRace
    OneServer
    GivesUpOnNothing
    OneSyncAtATime
PROPERTIES
    ChromaComesBack
    MasterEnds
    HeldUpOnlyByWedge
