SPECIFICATION FairSpec
CONSTANTS
    MaxSlots = 6
    Lens = {1, 2, 3}
INVARIANTS
    TypeOK
    PoolMatchesHeld
    CallStackAscends
    FrameCoversTouched
    NothingSkipped
PROPERTIES ImplementsAllocator RequestReturns
