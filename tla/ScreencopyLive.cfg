SPECIFICATION FairSpec
CONSTANTS
    s1 = s1
    None = None
    Outputs <- TwoOutputs
    Sizes <- OneSize
    Tiny <- NoSizes
    MaxModes = 1
PROPERTY EndsReachEachOther
PROPERTY SteadyKeepsFlowing
CHECK_DEADLOCK FALSE
