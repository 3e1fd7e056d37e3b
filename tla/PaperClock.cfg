SPECIFICATION ClockSpec
CONSTANTS
    None = None
    MaxLosses = 2
    PauseFor = 2
    CoolLoss = 2
    CoolWin = 0
    MaxTrades = 2
    MaxTime = 4
    TTL = 2
    MaxAge = 1
    LegacyRows <- NoLegacy
    Issued <- Faults
INVARIANTS
    EntryRestsAfterLoss
PROPERTIES
    NoLookAhead
    PendingResolves
    CloseFinishes
