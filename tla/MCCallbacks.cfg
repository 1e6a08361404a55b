CONSTANTS
    MaxDepth = 2
    MaxPending = 1
SPECIFICATION Spec
INVARIANTS TypeOK LiveAsWanted NothingUsedAfterItsEnd
PROPERTIES AvailableIsFront
CHECK_DEADLOCK FALSE
