SPECIFICATION FairSpec
CONSTANTS
    r1 = r1
    r2 = r2
    r3 = r3
    r4 = r4
    c1 = c1
    c2 = c2
    c0 = c0
    Cond = {c1, c2, c0}
    CondOf <- MCCondOf
    CutOf <- MCCutOf
    Incomplete = {c0}
    NoFile = nofile
    MaxFaults = 1
    Rows = {r1, r3}
PROPERTY ListReachesSMP
