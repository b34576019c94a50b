SPECIFICATION Spec
CONSTANTS
    s1 = s1
    s2 = s2
    o1 = o1
    m1 = m1
    m2 = m2
    Reqs = {s1, s2, o1}
    Subscribers = {s1, s2}
    Mdns = {m1, m2}
    MdnOf <- MCMdnOf
    Torn = torn
    None = none
    Backlog = 2
    MaxFaults = 0
INVARIANT EachNotified
