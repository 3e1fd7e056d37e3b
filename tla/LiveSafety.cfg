SPECIFICATION Spec
CONSTANTS
    None = None
    MaxTrades = 2
    MaxCloses = 1
    Happens <- RejectedAndPartial
INVARIANTS
    TypeOK
    OneLivePosition
    ClosedIsFlat
PROPERTIES
    KeepsContract
CHECK_DEADLOCK FALSE
