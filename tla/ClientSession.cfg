SPECIFICATION FairSpec
CONSTANTS
    CtrlCap = 1
    WireCap = 1
    FrameLimit = 1
    MaxInputs = 3
    MaxWaiting = 3
    Configs <- SomeConfigs
    Faults <- AnyFault
INVARIANT InputsInOrder
PROPERTY HostGoneEndsSession
PROPERTY DisconnectObeyed
PROPERTY HeadlessEnds
CHECK_DEADLOCK FALSE
