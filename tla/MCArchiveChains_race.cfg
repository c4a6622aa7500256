SPECIFICATION Spec
CONSTANTS
    MaxArchives = 4
    Incremental = TRUE
    RetentionCount = 1
    ColdRetentions = {0}
    Clients = {"c1"}
    MayRestore = FALSE
    Removes = {}
    FaultModels = {{}}
PROPERTY KeepsRetention
\* The history is bounded by MaxArchives: the model stops there.
CHECK_DEADLOCK FALSE
