SPECIFICATION SyncSpec
CONSTANTS
    Workers = {w1, w2}
    TableSyncs = {t1, t2}
    FactSyncs = {f1}
    Others = {q1}
    Nobody = Nobody
    MaxKills = 0
\* All requests are answered in the end, or held up.
CHECK_DEADLOCK FALSE
PROPERTIES
    SyncsTakeTurns
