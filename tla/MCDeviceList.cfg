\* Two programs open and close devices that come and go, one of them enumerates.
SPECIFICATION Spec
CONSTANTS
    Addr <- MCAddr
    NULL = NULL
    Port = {p1, p2}
    Pid = {1, 2}
    Viewer = {1}
SYMMETRY Symmetric
CHECK_DEADLOCK FALSE
INVARIANTS
    ListSound
    PointersGood
    EnumerationComplete
