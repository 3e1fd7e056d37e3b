SPECIFICATION Spec
CONSTANTS
    None = None
    MaxLosses = 1
    PauseFor = 1
    CoolLoss = 1
    CoolWin = 0
    MaxTrades = 1
    MaxTime = 3
    TTL = 2
    MaxAge = 1
    LegacyRows <- NoLegacy
    Issued <- StartStop
INVARIANTS
    PauseNeverUndone
