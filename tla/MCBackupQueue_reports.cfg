CONSTANTS
    r1 = r1  r2 = r2  r3 = r3  c = c
    j1 = j1  j2 = j2  gone = gone
    Runs = {r1, r2}
    Jobs = {j1, j2}
    Hosts <- MCHosts
    Labels <- MCLabels
    HostOf <- MCHostOf
    LabelOf <- MCLabelOf
    ArchivesOf <- OneAndTwo
    Orphaned = {}
    Scheduled = {j2}
    Targets <- AllJobs
    Percents = {150}
    Outcomes = {"SUCCESS", "WARNING", "FAILED"}
    Mounts = {"ok"}
    MayOverlap = FALSE
    Clients = {}
    None = None
SPECIFICATION Spec
SYMMETRY Symmetry
INVARIANTS
    AlertIsOfOwnBatch
    ExecutionsHaveResults
    ProgressIsAPercentage
    ColorMatchesTitle
PROPERTY
    ActiveIsHighlighted
\* Every run is started once and ends: the system really stops.
CHECK_DEADLOCK FALSE
