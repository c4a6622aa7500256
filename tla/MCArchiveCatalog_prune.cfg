SPECIFICATION Spec
CONSTANTS
    Jobs <- Compose
    BackupDir = "hot"
    ColdDir = "cold"
    Rank <- RankOfPart
    MaxArchives = 5
INVARIANT
    PruneGroupsAreOwn
