SPECIFICATION FairSpec
CONSTANTS
    c1 = c1
    c2 = c2
    r1 = r1
    r2 = r2
    left = left
    right = right
    Clusters = {c1, c2}
    InFile = {c2}
    Names = {left, right}
    First <- MCFirst
    Before <- MCBefore
    Requests = {r1, r2}
    Asks <- MCAsks
    Edits <- MCEdits
    Relinked = {c1}
    None = None
    Torn = Torn
    Order <- MCOrder
    MaxFaults = 1
INVARIANTS TypeOK NoneOutlives
PROPERTIES OnlyNamedChange ActiveFollows EndsWhenDue
