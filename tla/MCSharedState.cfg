SPECIFICATION MCSpec
CONSTANTS
    k1 = k1
    k2 = k2
    k3 = k3
    k4 = k4
    a = a
    b = b
    Procs = {p1, p2}
    Keys <- MCKeys
    KeyGroups <- MCKeyGroups
    NoKey = NoKey
    capacity = 2
    MaxCalls = 5
    Updates = {u1, u2}
    IndexTables = {a, b}
    Strippings <- MCStrippings
    NoDoc = NoDoc
    MaxSchema = 2
    MaxAccidents = 1
    Names <- MCNames
    ParsedName <- MCParsedName
    RowCount <- MCRowCount
    TextColumns <- MCTextColumns
    BaseSize <- MCBaseSize
    PartSize <- MCPartSize
    Models = {"NL_TO_SQL", "NL_TO_TABLES"}
    Window <- MCWindow
    Reserved = 2
    MaxTextColumns <- MCMaxTextColumns
    Requests <- MCRequests
    Slots = {q1, q2}
    MaxRequests = 2
    MaxEvictions = 1
SYMMETRY SumSymmetry
\* The bounds on calls and updates end every behaviour.
CHECK_DEADLOCK FALSE
INVARIANTS
    SizeBound
    SequentialUseIsExact
    IndexFollowsSchema
    FlagLeftOnlyByKill
    OverlapsOnlyByRace
    RichestThatFits
