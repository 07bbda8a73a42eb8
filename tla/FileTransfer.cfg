SPECIFICATION FairSpec
CONSTANTS
    MaxSize = 9
    Window = 4
    Faults <- AnyFault
INVARIANT Protocol
INVARIANT SavedWhole
INVARIANT QueuesBounded
PROPERTY OnlyCancelFails
PROPERTY DeliveryPromise
PROPERTY EventuallyConfirmed
CHECK_DEADLOCK FALSE
