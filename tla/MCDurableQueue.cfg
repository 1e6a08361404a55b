CONSTANTS
    Request = {r1, r2}
    User = {nobody, alice, bob}
    Anonymous = nobody
    RetryPeriods = {3}
    DrainInterval = 1
    Limit = 2
    Deltas = {1}
    Reattach = {TRUE}
    MaxConnections = 2
SYMMETRY Symmetry
SPECIFICATION Spec
INVARIANTS TypeOK NoDurableLost QueuesSeparate DoneOnce InFlightBounded
PROPERTIES ImplementsOutbox
CHECK_DEADLOCK FALSE
