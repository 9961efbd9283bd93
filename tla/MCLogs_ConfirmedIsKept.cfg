SPECIFICATION Spec
CONSTANTS
    Senders = {g1}
    LogTypes = {"GCS"}
    Lengths = {2}
    Window = 1
    PartChunks = 2
    MaxFaults = 0
INVARIANT ConfirmedIsKept
CHECK_DEADLOCK FALSE
