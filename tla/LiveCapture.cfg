SPECIFICATION CaptureSpec
CONSTANTS
    s1 = s1
    tiny = tiny
    None = None
    Outputs <- TwoOutputs
    Sizes <- TwoSizes
    Tiny <- TinySizes
    MaxModes = 1
    Modes <- SomeModes
    MaxShares = 3
    MaxUpsets = 2
INVARIANT NoPictureSleeps
PROPERTY NothingReadyIsDropped
PROPERTY PickerOnlyWhenNeeded
PROPERTY CapturesEnd
CHECK_DEADLOCK FALSE
