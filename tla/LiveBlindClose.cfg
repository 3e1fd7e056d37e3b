SPECIFICATION Spec
CONSTANTS
    None = None
    MaxTrades = 1
    MaxCloses = 2
    Happens <- Requests
PROPERTIES
    NoBlindClose
