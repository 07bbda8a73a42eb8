SPECIFICATION FairSpec
CONSTANTS
    MaxSize = 2
    Window = 2
    Faults <- DiskFault

PROPERTY CompleteIsAnswered
CHECK_DEADLOCK FALSE
