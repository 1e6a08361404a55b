SPECIFICATION Spec
CONSTANTS
    Udp = {"udp"}
    A = 3
    M = 7
    W = 16
    DefaultBase = 1
    DefaultMax = 2
    Setting <- MCSetting
    Power <- MCPower
INVARIANTS TypeOK ZeroOnlyByRace
PROPERTIES Successor
