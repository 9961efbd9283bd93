SPECIFICATION FairSpec
CONSTANTS
    Senders = {g1, g2}
    LogTypes = {"File", "S3", "GCS"}
    Lengths = {0, 1, 2}
    PartChunks = 2
    Window = 1
    MaxFaults = 1
INVARIANTS TypeOK ServedExactly
PROPERTIES StreamsEnd LogStored ArchiveSpec
CHECK_DEADLOCK FALSE
