SPECIFICATION Spec
CONSTANTS
    MaxPackets <- MCMaxPackets
    MaxQueue <- MCMaxQueue
    MaxConnects <- MCMaxConnects
INVARIANT NoDeadlock
CHECK_DEADLOCK FALSE
