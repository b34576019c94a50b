SPECIFICATION FairSpec
CONSTANTS
    r1 = r1
    r2 = r2
    c1 = c1
    Rows = {r1, r2}
    NoRow = norow
    Allow <- MCAllow
    Release <- MCRelease
    CondOf <- MCCondOf
    CutOf <- MCCutOf
    PaddedSst = {}
    Operated = {r1}
    MaxSessions = 1
    Cond = {c1}
    Incomplete = {}
    NoFile = nofile
    MaxFaults = 0
PROPERTIES OverloadReachesSMP ReliefReachesSMP
