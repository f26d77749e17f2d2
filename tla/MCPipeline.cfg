SPECIFICATION Spec
CONSTANTS
    Lines = {1, 2, 3}
    Partials = 2
    LowRetries = 1
    CallsPerRetry = 2
    MassMin = 2
    MicroMin = 2
    MicroMax = 2
    Calls = {"call1", "call2"}
    Keys <- MCKeys
    RotateKeys = TRUE
    Fields <- MCFields
    Streams = FALSE
    ThinkingOn <- MCThinkingOn
    TransportRetries = 1
    FormatRetries = 2
    Period = 2
    MaxPieces = 3
    DetectLoops = TRUE
    Indices = {0, 1}
    MaxLines = 4
    HeaderRows <- MCHeaderRows
    Pages <- MCPages
    PlainTexts <- MCPlainTexts
    PageWays <- MCPageWays
    Counters = {"none", "injected"}
    Profiles = {"p", "q"}
    Routes <- MCRoutes
    RouteProfile <- MCRouteProfile
    Rpm <- MCRpm
    Routed = {"r1", "r2"}
    Plain = {"s1", "s2"}
    Window = 2
    GroupLimit = 2
    TokenLimit = 2
    Costs = {1, 3}
INVARIANTS
    DoubtIsMarked CallsAreClean StreamIsHeard  TextReachesTheBook WindowsHold
PROPERTIES
    BestIsKept CallsEnd NobodyStarves
\* an answer that has been decoded stops
CHECK_DEADLOCK FALSE
