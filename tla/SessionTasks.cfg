SPECIFICATION FairSpec
CONSTANTS
    MaxSessions = 1
    CtrlCap = 5
    FileWindow = 1
    OwnWindow = 2
    MaxResizes = 1
    Faults <- AnyFault
INVARIANT ReaderNeverWaits
INVARIANT OnlyTheSlotInjects
PROPERTY DisconnectEndsSession
 
PROPERTY TasksEnd
CHECK_DEADLOCK FALSE
