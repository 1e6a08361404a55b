CONSTANTS
    Request = {r1, r2}
    Timeouts = {1, 2}
    Deltas = {1}
    MaxDeadline = 2
SPECIFICATION Spec
INVARIANT NoDanglingUse
CHECK_DEADLOCK FALSE
