SPECIFICATION FairSpec
CONSTANTS
    pr = pr
    tr = tr
    top = top
    cr = cr
    x = x
    y = y
    Runs <- MCRuns
    Kind <- MCKind
    ResultOf <- MCResultOf
    Attr <- MCAttr
    Legacy = {tr, top}
    Convertible = {tr}
    Live = {top}
    ConfigMaps <- MCConfigMaps
    Shipped <- MCShipped
    Absent = Absent
    Bad = Bad
    DefaultDefaultRetention = 2
    Limit = 2
    Jobs = {j1, j2}
    MaxTime = 2
    MaxChanges = 1
    MaxPuts = 1
    MaxFaults = 1
INVARIANTS TypeOK
PROPERTIES SelectedByPolicy OnlyPutCreates Purged Converted
CHECK_DEADLOCK FALSE
