SPECIFICATION MCSpec
CONSTANTS
    None = None
    MaxLosses = 2
    PauseFor = 1
    CoolLoss = 0
    CoolWin = 0
    MaxTrades = 2
    MaxTime = 3
    TTL = 2
    MaxAge = 1
    LegacyRows <- OneLegacy
    Issued <- TwoParts
INVARIANTS
    TypeOK
    SlotOwnership
    AtMostOneExposure
    PauseHolds
    StreakBelowLimit
PROPERTIES
    KeepsContract
    OutcomeOnce
    TerminalFrozen
