\* One thread sends; the stack accepts every transfer while the device is there.
SPECIFICATION LineFairSpec
CONSTANTS
    Thread = {t1}
    Packet <- MCPacket
    BufSize = 5
    MaxTransfer = 2
    SubmitResult = {TRUE, FALSE}
    Signals <- MCSignals
INVARIANTS
    TransferSound
    BufferTold
    ChangesAnnounced
PROPERTIES
    LinkSpec
    BufferFreed
