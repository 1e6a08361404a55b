CONSTANTS
    Request = {r1, r2}
    Timeouts = {1, 2}
    Deltas = {1}
    MaxDeadline = 2
SPECIFICATION FairSpec
INVARIANTS TypeOK LiveAsWanted AtMostOneCallback NoOverdueRequest ConnectionsBounded
PROPERTIES LostOnlyTwoWays NothingHeldForever Reconnects ConnectionsAsAssumed ImplementsService
CHECK_DEADLOCK FALSE
