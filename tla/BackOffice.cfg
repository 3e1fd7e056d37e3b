SPECIFICATION MCSpec
CONSTANTS
    SpotPairs <- MCPairs
    ExchangeOfPair <- MCExchange
    SymbolOfPair <- MCSymbol
    EnabledPairs <- MCEnabled
    SpotBooks <- MCSpotBooks
    Unreliable = {"b"}
    Parallel = 1
    SlowWait = 1
    FailWait = 2
    Unit = 1
    MaxMargin = 5
    FeeBuffer = 1
    MinSpread = 10
    MinNet = 5
    MinProfit = 1
    MaxDailyLoss = 2
    SignalCooldown = 1
    ClosePrices = {1}
    ManualOrders <- MCManual
    SpotRequests = {"r"}
    SpotEnd = 1
    MaxSignals = 2
    Views <- MCViews
    Ages = {0, 1}
    Mids = {1, 2}
    Results = {0, 2}
    MinBooks <- MCBooksNeeded
    MinSpan <- MCSpan
    ExitSpan <- MCSpan
    ExitGap <- MCGap
    MaxAge = 2
    MaxHold = 4
    Trail = 1
    TrendFresh = 1
    TrendGap = 2
    TrendMin = 2
    TrendMax = 3
    AdaptiveEnd = 5
    MaxCloses = 1
    Labellers = {thread, request}
    OwnVenue = "own"
    Quotes <- MCQuotes
    Horizons = {1, 2}
    Cap = 1
    CapSpan = 1
    LabelLimit = 7
    SnapLimit = 2
    LabelEnd = 3
    MaxBatches = 3
    MaxClears = 1
    ObsBooks <- MCObsBooks
    Lags = {0, 2}
    BookAge = 2
    Latency = 1
    Notional = 45
    FeePercent = 1
    ReservePercent = 0
    TargetProfit = 1000
    ObsHorizons = {1, 3}
    ObsWindow = 1
    ObsEnd = 5
    Shapes <- MCShapes
    Configs <- MCConfigs
    Scale = 60
    Equity = 1000
    WindowSize = 5
    TapeEnd = 9
    Behind = 1
    Markets <- MCMarkets
    Accepted <- MCAccepted
    Short <- MCShort
    MaxRuns = 3
    LeastTrades = 0
    Researchers = {"e1", "e2"}
    ExperimentEnd = 6
INVARIANTS
    DuplicateOnlyByOverlap
    OrdersBacked
    LabelHonest
    ObservationTrue
    ReportTrue
    PaperAgrees
PROPERTIES
    EntryEarned
    ExitEarned
    NoHindsight
CHECK_DEADLOCK FALSE
