\* Two threads read what the callback of a CDC device queues.
SPECIFICATION Spec
CONSTANTS
    Size = 2
    CounterMod = 3
    Byte <- MCByte
    Zero = 0
    Thread = {t1, t2}
    Packet <- MCPacket
    OutSize = {0, 2}
    IsFTDI = FALSE
    SubmitResult = {TRUE}
SYMMETRY Symmetric
INVARIANTS
    TypeOK
    RingConsistent
    ReceiverArmed
PROPERTIES
    FifoSpec
