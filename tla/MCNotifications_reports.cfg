SPECIFICATION Spec
CONSTANTS
    r1 = r1
    r2 = r2
    w1 = w1
    free = free
    Loggers = {r1, r2}
    Watchers = {w1}
    Capacity = 1
    Window = 1
    Free = free
    Scenarios <- All
\* Both are violated: run it with -continue -workers 1.
INVARIANT
    AllProvidersCalled
PROPERTY
    AnnouncedBeforeDigest
