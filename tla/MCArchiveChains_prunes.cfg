SPECIFICATION Spec
CONSTANTS
    MaxArchives = 5
    Incremental = TRUE
    RetentionCount = 2
    ColdRetentions = {1}
    Clients = {"c1"}
    MayRestore = TRUE
    Removes = {}
    FaultModels = {{"prunes"}}
\* Restorable and TiersOrderedAlways in its place are violated too.
INVARIANT AnchoredRestores
\* The history is bounded by MaxArchives: the model stops there.
CHECK_DEADLOCK FALSE
