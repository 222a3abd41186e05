CONSTANTS
    Similarity <- MCSimilarity
    Threshold = 75
    LaunchWindow = 3
    Commercial = {1, 2, 3}
    Acquisitions <- MCAcquisitions
    Target <- MCTarget
    Histories <- MCHistories
    Reviewer = {"api", "cli"}
    Limit = 2
    Verdicts = {"partial", "unresolvable"}
    TypeRank <- MCTypeRank
    MaxWrites = 2
SPECIFICATION GoldSpec
INVARIANTS
    DbAndFileInLockstep
CHECK_DEADLOCK FALSE
