SPECIFICATION Spec
CONSTANTS
    MaxArchives = 5
    Incremental = TRUE
    RetentionCount = 2
    ColdRetentions = {0, 1}
    Clients = {}
    MayRestore = FALSE
    Removes = {}
    FaultModels = {{"command", "copy", "reset", "mount"}, {"command", "crash", "mount"}}
INVARIANT TypeOK
INVARIANT TiersOrdered
PROPERTY KeepsRetention
\* The history is bounded by MaxArchives: the model stops there.
CHECK_DEADLOCK FALSE
