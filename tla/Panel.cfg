SPECIFICATION PanelSpec
CONSTANTS
    p1 = p1
    Pins <- OnePin
    NoPin = NoPin
    Rates <- TwoRates
    DefaultRate = 15
    Bitrates <- TwoBitrates
    DefaultBitrate = 4000
    PanelBitrates <- OneBitrate
    MaxCommands = 2
    MaxUpsets = 1
PROPERTY SavesAreAtomic
PROPERTY PanelCatchesUp
CHECK_DEADLOCK FALSE
