SPECIFICATION Spec
CONSTANTS
    None = None
    MaxTrades = 2
    MaxCloses = 1
    Happens <- Requests
PROPERTIES
    EntryWaitsForFunding
