\* Sessions of both kinds after each other, a close losing records or not.
SPECIFICATION Spec
CONSTANTS
    Chip = {"CP210x", "FTDI", "PL2303"}
    Addr = {1, 2, 3, 4, 5, 6, 7, 8, 9, 10, 11, 12}
    NULL = NULL
    PipeResult = {"ok", "nomem", "nopipe", "noevent"}
    MaxFault = 0
    MaxParts = 1
    MaxOpen = 2
INVARIANTS
    
    OwnAnswer
CHECK_DEADLOCK FALSE
