CONSTANTS
    Packets <- MCPackets
    Serialized <- SerializeLengthDelimited
    MaxSent = 2
    MaxSlots = 20
SPECIFICATION Spec
INVARIANTS TypeOK DeliveredAsSent
PROPERTY EventuallyDelivered
CHECK_DEADLOCK FALSE
