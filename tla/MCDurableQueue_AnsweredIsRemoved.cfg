CONSTANTS
    Request = {r1, r2}
    User = {nobody, alice}
    Anonymous = nobody
    RetryPeriods = {2}
    DrainInterval = 1
    Limit = 1
    Deltas = {1}
    Reattach = {TRUE, FALSE}
    MaxConnections = 1
SPECIFICATION Spec
INVARIANT AnsweredIsRemoved
CHECK_DEADLOCK FALSE
