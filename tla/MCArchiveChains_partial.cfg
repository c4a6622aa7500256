SPECIFICATION Spec
CONSTANTS
    MaxArchives = 4
    Incremental = TRUE
    RetentionCount = 1
    ColdRetentions = {0}
    Clients = {}
    MayRestore = FALSE
    Removes = {}
    FaultModels = {{"crash"}}
PROPERTY KeepsComplete
\* The history is bounded by MaxArchives: the model stops there.
CHECK_DEADLOCK FALSE
