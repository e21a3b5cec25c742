\* Every kind of device, one session; every way a pipe may fail.
SPECIFICATION FairSpec
CONSTANTS
    Chip = {"CP210x", "FTDI", "PL2303", "CDC"}
    Addr = {1, 2, 3, 4, 5, 6, 7}
    NULL = NULL
    PipeResult = {"ok", "nomem", "nopipe", "noevent"}
    MaxFault = 1
    MaxParts = 1
    MaxOpen = 1
INVARIANT
    TableSound
PROPERTIES
    
    BlockedReturns
    SessionQuiet
CHECK_DEADLOCK FALSE
