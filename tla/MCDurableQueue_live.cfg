CONSTANTS
    Request = {r1, r2}
    User = {nobody, alice}
    Anonymous = nobody
    RetryPeriods = {2}
    DrainInterval = 1
    Limit = 2
    Deltas = {1}
    Reattach = {FALSE}
    MaxConnections = 2
SPECIFICATION FairSpec
PROPERTIES QueueDrains
CHECK_DEADLOCK FALSE
