SPECIFICATION Spec
CONSTANTS
    Driver <- MCDriver
    Termios <- MCTermios
    DTR = DTR
    RTS = RTS
    Bounds <- MCBounds
SYMMETRY Symmetric
CHECK_DEADLOCK FALSE
INVARIANTS
    SettingsSound
    LinesAsAsked
    RateCurrent
