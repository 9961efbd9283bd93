SPECIFICATION FairSpec
CONSTANTS
    pr = pr
    run = run
    NoOwner = NoOwner
    Runs <- Single
    Owner <- SingleOwner
    ResultOf <- SingleResult
    PipelineRuns = {}
    CustomRuns = {}
    Selected <- Single
    Prunable <- Single
    GracePeriod = 1
    StoreDeadline = 1
    ForwardBuffer = 0
    StoreEvent = TRUE
    DisableAnnotationUpdate = FALSE
    DisableStoringIncompleteRuns = TRUE
    RequireAnnotation = TRUE
    MaxAge = 2
    MaxLag = 3
    MaxFaults = 1
INVARIANTS TypeOK StoredMeansArchived ReleasedWhenArchived
PROPERTIES DeletionCompletes EventuallyArchived
