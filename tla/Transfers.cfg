SPECIFICATION FairSpec
CONSTANTS
    None = None
    MaxFiles = 3
    Sizes <- SmallSizes
    Window = 3
    HostBit = 4
    MaxFaults = 2
INVARIANT SlotsAgree
PROPERTY EveryDelivery
PROPERTY EveryFileConfirmed
CHECK_DEADLOCK FALSE
