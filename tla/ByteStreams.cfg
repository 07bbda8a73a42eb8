SPECIFICATION StreamSpec
CONSTANTS
    MaxFrame = 70
    MaxString = 4
    MaxDisplays = 2
    HashBytes = 2
    Scripts <- MCScripts
    MaxPictures = 4
    MaxResizes = 1
    Gop = 3
    KeyShapes <- SomeKeyShapes
    PShapes <- SomePShapes
INVARIANT OnlyOversizeIsRefused
INVARIANT SplitIgnoresReads
INVARIANT UnitsArePictures
INVARIANT StreamDecodable
PROPERTY StreamPromise
PROPERTY EverythingIsRead
CHECK_DEADLOCK FALSE
