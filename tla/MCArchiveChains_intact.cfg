SPECIFICATION Spec
CONSTANTS
    MaxArchives = 5
    Incremental = TRUE
    RetentionCount = 2
    ColdRetentions = {0, 1}
    Clients = {"c1"}
    MayRestore = TRUE
    Removes = {"FULL"}
    FaultModels = {{}, {"prunes", "overlap"}}
INVARIANT ChainsIntact
INVARIANT CopiesComplete
INVARIANT RetentionHolds
INVARIANT AnchoredRestoreRebuilds
\* The history is bounded by MaxArchives: the model stops there.
CHECK_DEADLOCK FALSE
