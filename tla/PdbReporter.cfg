SPECIFICATION FairSpec
CONSTANTS
    p1 = p1
    p2 = p2
    k1 = k1
    k2 = k2
    one = one
    two = two
    Procs = {p1, p2}
    Keys = {k1, k2}
    ProcOf <- MCOneEach
    Values = {one, two}
    None = none
    ResetPeriod = 2
    GuardPeriod = 1
    MaxInbox = 2
    MaxFaults = 1
INVARIANTS TypeOK MemoryIsStored
PROPERTIES AlarmMeansChange RowsFollow RowsLeave
