SPECIFICATION Spec
CONSTANTS
    pr = pr
    run = run
    NoOwner = NoOwner
    Runs <- Single
    Owner <- SingleOwner
    ResultOf <- SingleResult
    PipelineRuns = {}
    CustomRuns = {}
    Selected <- Single
    Prunable <- Single
    GracePeriod = 0
    StoreDeadline = 1
    ForwardBuffer = 0
    StoreEvent = FALSE
    DisableAnnotationUpdate = FALSE
    DisableStoringIncompleteRuns = FALSE
    RequireAnnotation = FALSE
    MaxAge = 2
    MaxLag = 3
    MaxFaults = 0
PROPERTY NoRunLost
