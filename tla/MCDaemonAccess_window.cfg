SPECIFICATION Spec
CONSTANTS
    d1 = d1
    d2 = d2
    c1 = c1
    c2 = c2
    u1 = u1
    u2 = u2
    nobody = nobody
    stale = stale
    Daemons = {d1}
    Clients = {c1}
    Users = {u1, u2}
    Nobody = nobody
    Stale = stale
    Faults = {"window"}
    MaxStops = 1
    MaxTokens = 0
PROPERTY
    ServiceReturns
CHECK_DEADLOCK FALSE
