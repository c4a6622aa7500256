SPECIFICATION Spec
CONSTANTS
    MaxArchives = 4
    Incremental = TRUE
    RetentionCount = 1
    ColdRetentions = {0, 1}
    Clients = {}
    MayRestore = FALSE
    Removes = {}
    FaultModels = {{"command"}, {"reset"}, {"copy"}}
\* Both are violated: run it with -continue -workers 1.
INVARIANTS
    ChainsIntact
    TiersOrderedAlways
\* The history is bounded by MaxArchives: the model stops there.
CHECK_DEADLOCK FALSE
