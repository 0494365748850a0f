SPECIFICATION Spec
CHECK_DEADLOCK FALSE
CONSTANTS
    Messages <- AllMessages
    Cuts = {0, 1}
    PacketSize = 3
    MaxPayload = 4
    MaxSent = 3
    MaxFaults = 1
INVARIANTS
    PacketsAccounted
    StoredInOrder
    DumpRight
PROPERTIES
    ImplementsChannel
