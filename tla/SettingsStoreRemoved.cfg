SPECIFICATION StoreSpec
CONSTANTS
    p1 = p1
    Pins <- OnePin
    NoPin = NoPin
    Rates <- TwoRates
    DefaultRate = 15
    Bitrates <- OneBitrate
    DefaultBitrate = 4000
    MaxCommands = 2
INVARIANT RemovedPinStaysRemoved
CHECK_DEADLOCK FALSE
