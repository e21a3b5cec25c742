\* Two programs; one device, unplugged at any time.
\* Calls whose transfer could not be started wait for ever: all may stop.
SPECIFICATION Spec
CONSTANTS
    Program = {p1, p2}
    Context = {c1}
    Opcode <- MCOpcode
    Size = {0, 3}
    Value = {0}
    ChunkSize = {0, 2}
    maxPacketSize = 1
CHECK_DEADLOCK FALSE
INVARIANTS
    CallsSound
    ProgramsApart
PROPERTIES
    ControlReturns
