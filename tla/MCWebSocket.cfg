SPECIFICATION Spec
CONSTANTS
    MaxFrames = 2
    MaxSends = 2
INVARIANTS TypeOK FramesInOrder SocketHandedOver
PROPERTY DestructorReturns
CHECK_DEADLOCK FALSE
