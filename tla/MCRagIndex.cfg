SPECIFICATION MCSpec
CONSTANTS
    w1 = w1
    w2 = w2
    Workers <- MCWorkers
    Ids = {a, b}
    Torn = Torn
    Nobody = Nobody
    Master = Master
    Wirings <- BothWirings
    MaxWrites = 3
    MaxCrashes = 1
    Nodes = {1, 2, 3, 4}
    Documents = {2}
    Similar = {1, 2, 4}
    TopK = 2
    TopN = 2
    Batch = 2
    MaxLines = 2
SYMMETRY Symmetry
\* The bounds on writes end every behaviour.
CHECK_DEADLOCK FALSE
INVARIANTS
    FreshIndex
    SerialWritesSurvive
    MetadataMatchesIndex
    RankingFollowsAnswers
