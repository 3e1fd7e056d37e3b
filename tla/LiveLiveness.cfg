SPECIFICATION FairSpec
CONSTANTS
    None = None
    MaxTrades = 2
    MaxCloses = 0
    Happens <- OperatorAndExchange
PROPERTIES
    OpenResolves
    UnprotectedBlocks
