SPECIFICATION Spec
CONSTANTS
    ResultNames = {r1}
    RecordNames = {x1}
    Values = {NoData, v1}
    NoData = NoData
    Clients = {c1, c2}
    MaxUid = 4
    MaxClock = 5
SYMMETRY ClientSymmetry
PROPERTY EtagGuardsUpdate
