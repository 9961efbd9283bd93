SPECIFICATION Spec
CONSTANTS
    pr = pr
    run = run
    NoOwner = NoOwner
    Runs <- Family
    Owner <- FamilyOwner
    ResultOf <- FamilyResult
    PipelineRuns <- OnlyPipelineRun
    CustomRuns = {}
    Selected <- Family
    Prunable <- Family
    GracePeriod = 1
    StoreDeadline = 1
    ForwardBuffer = 0
    StoreEvent = FALSE
    DisableAnnotationUpdate = FALSE
    DisableStoringIncompleteRuns = TRUE
    RequireAnnotation = FALSE
    MaxAge = 2
    MaxLag = 2
    MaxFaults = 0
INVARIANT ReadyMeansArchived
PROPERTY ParentWaitsForChildren
