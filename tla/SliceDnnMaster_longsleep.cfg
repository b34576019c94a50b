SPECIFICATION Spec
CONSTANTS
    LB = {a, b}
    NoHost = nohost
    SlavePeriod = 4
    CntPeriod = 9
    Takeover = 3
    OpMax = 1
    MaxFail = 0
    MaxRows = 2
INVARIANT OnlyMasterCounts
SYMMETRY Hosts
