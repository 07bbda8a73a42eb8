SPECIFICATION AdmissionSpec
CONSTANTS
    p1 = p1
    p2 = p2
    Pins <- SomePins
    None = None
    FixedPins <- FixedOrNone
    Attempts = {1, 2}
    FreeFailures = 2
    MaxTime = 4
    MaxFailures = 4
    MaxStarts = 2
    MaxSettings = 2
    MaxUnwritten = 1
    BaseLock = 1
    MaxLock = 2
INVARIANT GuessRate
INVARIANT JudgedByRecentPin
INVARIANT StatusIsTruthful
INVARIANT EndsAgree
PROPERTY AttemptsEnd
CHECK_DEADLOCK FALSE
