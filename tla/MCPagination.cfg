SPECIFICATION FairSpec
CONSTANTS
    Ids = {1, 2, 3}
    Keys = {1, 2}
    Tags = {"x", "y"}
    PageSize = 1
    MaxWrites = 2
INVARIANTS TypeOK Complete
PROPERTIES PagesContinue ListingEnds
