SPECIFICATION FairSpec
CONSTANTS
    r1 = r1
    r2 = r2
    r3 = r3
    Rows = {r1, r2, r3}
    NoRow = norow
    Allow <- MCAllow
    Release <- MCRelease
    PaddedSst = {r3}
    Operated = {r2}
    MaxSessions = 2
INVARIANT TypeOK
PROPERTIES Hysteresis OverloadRestricts ReliefReleases
