CONSTANTS
    Peer = {p1}
    Empty <- MCEmpty
    Fields <- MCFields
    MaxSessions = 2
    MaxNumber = 2
    MaxTcp = 1
    MaxQueue = 1
SPECIFICATION Spec
INVARIANTS TypeOK DiscardJustified InSequence
CHECK_DEADLOCK FALSE
