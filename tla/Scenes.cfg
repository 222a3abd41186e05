\* Every component with the interesting cases of its own; see MCScenes for each instance.
CONSTANTS
    Similarity <- MCSimilarity
    Threshold = 75
    LaunchWindow = 3
    Commercial = {1, 2, 3}
    Acquisitions <- MCAcquisitions
    Target <- MCTarget
    Histories <- MCHistories
    Reviewer = {"api", "cli"}
    Limit = 2
    Verdicts = {"partial", "unresolvable"}
    TypeRank <- MCTypeRank
    MaxWrites = 2
    Doc <- MCDoc
    SchedNamed <- MCDoc
    Linked = {1, 2}
    Issues <- MCIssues
    FirstServed <- MCFirstServed
    Later = {"truncated", "one"}
    Runs = {"nightly", "byhand"}
    MaxReissues = 1
    MaxByHand = 1
    Plans <- MCPlans
    ByHand = {"decay", "backfill_ibfs", "ucs"}
    MaxRuns = 2
    KeepLatest = 3
    Ledgers <- MCLedgers
    Pruners <- MCPruners
    Loaders = {"first", "second"}
    MaxLedger = 7
    MaxMonth = 2
    Operators <- MCOperators
    Children <- MCChildren
    Owned <- MCOwned
    Joining <- MCJoining
    BatchSize = 2
    MonthStarts = {0, 2}
    Since = 1
    LastDay = 2
    Untils = {3}
    MaxWithheld = 1
    Backfills = {"one", "other"}
    MaxStarts = 2
    Hour = 5
    MinInterval = 2
    MaxPerHour = 2
    Backoff = 1
    MaxRetries = 2
    Horizon = 13
    Sats = {1, 2}
    Anchored = {1}
    CatalogSources = {"gcat", "ucs", "satcat"}
    Snapshots <- MCSnapshots
    OrgSnapshots <- MCOrgs
    SatcatCodes <- MCSatcatCodes
    Seeds <- MCSeeds
    Acquired <- MCAcquired
    LaunchDays <- MCLaunchDays
    Pieces = {"2026-001A"}
    MaxChanges = 4
SPECIFICATION Spec
INVARIANTS
    SkippingVisitsAll
    ChipAgreesWithReport
    SampleIsSpread
    OneReceipt
    ServedAsFiled
    ClosedGateMeansFullSweep
    RunsAreWhole
    MonthlySampleKept
    ReadersSeeTheSame
    SkippedIsLanded
    PacedPerHour
    OwnershipIsOneTimeline
    LockstepUnlessRaced
\* Every bound stops its component.
CHECK_DEADLOCK FALSE
