CONSTANTS
    r1 = r1  r2 = r2  r3 = r3  c = c
    j1 = j1  j2 = j2  gone = gone
    Runs = {r1, r2}
    Jobs = {j1, gone}
    Hosts <- MCHosts
    Labels <- MCLabels
    HostOf <- MCHostOf
    LabelOf <- MCLabelOf
    ArchivesOf <- OneEach
    Orphaned = {gone}
    Scheduled = {j1}
    Targets <- EachJob
    Percents = {40, 150}
    Outcomes = {"SUCCESS", "FAILED"}
    Mounts = {"ok", "missing"}
    MayOverlap = TRUE
    Clients = {c}
    None = None
SPECIFICATION FairSpec
INVARIANTS
    TypeOK
    ActiveJobIsRunning
    QueuedAreWaiting
    QueueBelongsToBatch
    OneDigestPerBatch
PROPERTIES
    RunsFinish
    BatchesDigested
\* Every run is started once and ends: the system really stops.
CHECK_DEADLOCK FALSE
