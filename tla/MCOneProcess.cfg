SPECIFICATION MCSpec
CONSTANTS
    k1 = k1
    k2 = k2
    k3 = k3
    k4 = k4
    a = a
    b = b
    Keys <- MCKeys
    KeyGroups <- MCKeyGroups
    Values = {v1, v2}
    NoValue = NoValue
    Raised = Raised
    capacity = 3
    Layouts <- MCLayouts
    Clients = {r1, r2}
    Sessions = {s1, s2}
    Counts = {1, 4}
    RowCounts = {2, 4}
    LowMax = 2
    SampleSize = 1
    MaxUnique = 3
    MaxDataChanges = 1
    Missing = Missing
    Callers = {c1, c2, c3}
    DbKeys = {d1, d2}
    MaxOpened = 2
    Idle = Idle
    Questions = 2
    Processors = {p1, p2}
    QueriesEach = 2
    MaxExceptions = 1
    Columns <- MCColumns
    Literals <- MCLiterals
    Number <- MCNumber
    EndsIn <- MCEndsIn
    Strings <- MCSpellings
    Lower <- MCLower
    ILike <- MCILike
    Begins <- MCBegins
    PrefixOf <- MCPrefixOf
    Within <- MCWithin
    Distance <- MCDistance
    Similar <- MCSimilar
    CommonPrefix <- MCCommonPrefix
    Queries <- MCQueries
    Contents <- MCContents
    MaxChanges = 1
    SQLs <- MCSQLs
    Text <- MCText
    HasOrderBy = {"sorted"}
    Result <- MCResult
    Failing = {"broken", "torn"}
    Invalid = {"torn"}
    Corrected <- MCCorrected
    TablesOf <- MCTablesOf
    Tables = {"t", "u"}
    NaN = NaN
    NoText = NoText
    GoldQueries <- MCGoldQueries
    llm_n = 2
    Scores = {0, 1, 2}
    Cutoff = 1
    JudgeTopK = 1
    Unrated = Unrated
    Dataset <- MCDataset
    batch_size = 2
    Permits = 2
    MaxErrors = 1
    Loop = Loop
    thread = thread
    Asks <- MCAsks
    Settings <- MCSettings
    Unset = Unset
    Free = "free"
    LLMNames = {m1, m2}
    TTL = 2
    InfoSize = 2
    LLMSize = 2
    Slow = 1
    MaxRestarts = 1
SYMMETRY Symmetry
\* An evaluation ends, and so do the changes of a table.
CHECK_DEADLOCK FALSE
INVARIANTS
    DropRepairs
    LowMeansEveryValue
    AnswersAreOnesOwn
    CorrectionKeepsMeaning
    SummaryIsComplete
    NobodyWaitsInVain
    RowsShowTheirQueries
    SuccessIsEarned
    RightPredictionsSucceed
    JudgeIsObeyed
    BatchesAreWritten
    ClientsAreRecent
PROPERTIES
    EvictsLeastRecentlyUsed
