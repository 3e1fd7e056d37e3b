SPECIFICATION MCSpec
CONSTANTS
    None = None
    Pairs <- TwoPairs
    ExchangeOf <- Own
    Past <- OneLoss
    Settings <- Configurations
    Main = "main"
    Answers <- Turning
    MaxAge = 1
    Tolerance = 1
    Window = 3
    WindowSpan = 10
    LongAbove = 2
    ShortUpTo = 2
    AnomalyMin = 0
    AnomalyMax = 8
    MinValid = 2
    MinConfirming = 1
    MinRatio = 45
    Lookback = 2
    StreakLimit = 1
    SideCooldown = 3
    MinWinRate = 40
    RatioBoost = 5
    ValidBoost = 0
    QualityLookback = 2
    QualityCooldown = 2
    MinDelta = 0
    Timeout = 1
    Interval = 1
    Delay = 1
    MaxWait = 1
    MaxTime = 3
    MaxTrades = 2
    Testers = {"t"}
    Risks = {0, 1, 4}
    RiskCap = 2
    RiskUnit = 8
    LossPart = 2
    BaseMargin = 6
    FirstEquity = 12
    DayLimit = 2
    SessionLimit = 3
    Wins = {1}
    Gaps = {1}
    MaxStreak = 2
    TestRuns = 2
    BookRows = 2
    BookDays = 1
    BookSessions = 1
    Null = Null
    Workers = {w1, w2}
    LiveTrades = {1, 2}
    Fills <- FirstWins
    Settlements <- OneRevised
    SettleTime = 1
    CheckEvery = 1
    LossLimit = 2
    LedgerEnd = 3
SYMMETRY Alike
INVARIANTS
    TypeOK
    OneAtATime
    RunsKeepApart
    LossesWithinLimits
    LedgerTrue
PROPERTIES
    RulesAgree
    ConfirmedInTime
    EntryHasQuorum
    ColdSideRests
CHECK_DEADLOCK FALSE
