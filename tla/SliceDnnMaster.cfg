SPECIFICATION FairSpec
CONSTANTS
    LB = {a, b}
    NoHost = nohost
    SlavePeriod = 2
    CntPeriod = 5
    Takeover = 10
    OpMax = 1
    MaxFail = 1
    MaxRows = 1
INVARIANTS TypeOK MasterBelief LeaseFresh
PROPERTIES ExclusiveMastership CountingGoesOn DueCountBegins StopEndsThread
