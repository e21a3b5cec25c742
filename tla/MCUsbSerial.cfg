\* Two threads; every device is unplugged in the end, so the system may stop.
SPECIFICATION FairSpec
CONSTANTS
    NULL = NULL
    Thread = {t1, t2}
    MaxSerial = 2
    MaxPorts = 1
    MaxDying = 1
    TtyMinors = 1
CHECK_DEADLOCK FALSE
INVARIANTS
    References
    NothingStale
    OpenSound
PROPERTIES
    DisconnectReturns
