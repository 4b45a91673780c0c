CONSTANTS
    SourceFrames = 7
    DestFrames = 11
    HalfKernel = 2
    MaxCalls = 12
SPECIFICATION Spec
CHECK_DEADLOCK FALSE
INVARIANTS TypeOK AssertionsHold OneRunPerCall Gapless NoDrift
PROPERTY ImplementsStream
