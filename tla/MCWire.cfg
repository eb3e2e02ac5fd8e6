SPECIFICATION Spec
CONSTANTS
    Radix = 3
    Sizes = {0, 2, 3}
    Room = 4
    MaxPackets = 4
INVARIANTS
    TypeOK
    ReadAsSent
PROPERTIES
    AllRead
CHECK_DEADLOCK FALSE
