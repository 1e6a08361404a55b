SPECIFICATION FairSpec
CONSTANTS
    MaxPackets <- MCMaxPackets
    MaxQueue <- MCMaxQueue
    MaxConnects <- MCMaxConnects
\* A crash and a deadlock of the modelled threads are states the program stops in.
CHECK_DEADLOCK FALSE
INVARIANTS TypeOK InOrder ReadyMeansFast FastIsReplacedByNone
PROPERTIES DetachedIsSilent CallsReturn
