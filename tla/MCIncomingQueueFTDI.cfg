\* The framing of an FTDI device, a submission that may fail, and progress of the callback.
SPECIFICATION FairSpec
CONSTANTS
    Size = 2
    CounterMod = 3
    Byte <- MCByte
    Zero = 0
    Thread = {t1}
    Packet <- MCPacketFTDI
    OutSize = {0, 2}
    IsFTDI = TRUE
    SubmitResult = {TRUE, FALSE}
PROPERTIES
    CallbackReturns
