SPECIFICATION Spec
CONSTANTS
    Jobs <- Plain
    BackupDir = "hot"
    ColdDir = "cold"
    Rank <- RankOfPart
    MaxArchives = 5
INVARIANT
    ListFindsJob
