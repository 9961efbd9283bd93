SPECIFICATION FairSpec
CONSTANTS
    pr = pr
    run = run
    NoOwner = NoOwner
    Runs <- Family
    Owner <- FamilyOwner
    ResultOf <- FamilyResult
    PipelineRuns <- OnlyPipelineRun
    CustomRuns <- OnlyRun
    Selected <- Family
    Prunable = {}
    GracePeriod <- Immediately
    StoreDeadline = 0
    ForwardBuffer = 0
    StoreEvent = FALSE
    DisableAnnotationUpdate = FALSE
    DisableStoringIncompleteRuns = FALSE
    RequireAnnotation = FALSE
    MaxAge = 0
    MaxLag = 1
    MaxFaults = 0
PROPERTIES SummaryFollows Reclaimed
