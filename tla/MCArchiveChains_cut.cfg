SPECIFICATION Spec
CONSTANTS
    MaxArchives = 3
    Incremental = TRUE
    RetentionCount = 2
    ColdRetentions = {0}
    Clients = {"c1"}
    MayRestore = TRUE
    Removes = {"FULL"}
    FaultModels = {{"overlap"}, {"crash"}}
\* Both are violated: run it with -continue -workers 1.
INVARIANTS
    ChainsIntact
    AnchoredRestoreRebuilds
\* The history is bounded by MaxArchives: the model stops there.
CHECK_DEADLOCK FALSE
