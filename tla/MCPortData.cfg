SPECIFICATION Spec
CONSTANTS
    Device <- MCDevice
    MaxNumPorts = 2
    NumUrbs = 2
    Packet <- MCPacket
    FullSize = 4
    Status <- MCStatus
    WriteSize = {1, 3, 7}
    BulkOutSize = 9
    MaxOps = 3
CHECK_DEADLOCK FALSE
INVARIANTS
    TakenBack
    PortsThere
    ReceivedRight
    WriteFramed
