SPECIFICATION InputSpec
CONSTANTS
    Layouts <- SomeLayouts
    NewSizes <- SomeSizes
    Keys <- TheKeys
    Modifiers = {"shift"}
    Buttons = {"left"}
    None = None
    MaxBatch = 2
    MaxQueued = 1
    MaxSteps = 3
INVARIANT ModifiersAgree
INVARIANT NothingStuck
INVARIANT PointerOnTarget
CHECK_DEADLOCK FALSE
