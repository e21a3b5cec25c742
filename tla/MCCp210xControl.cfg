\* Two threads on one handle; transfers fail, submissions are refused, and
\* the device may be unplugged.
SPECIFICATION FairSpec
CONSTANTS
    Thread = {t1, t2}
    Value = {v1}
    Zero = Zero
    Status = {"ok", "error"}
    SubmitResult = {TRUE, FALSE}
INVARIANTS
    BusSound
    CommandApplied
PROPERTIES
    CommandsServed
