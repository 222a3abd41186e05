\* Overlapping loads and two overlapping builds: the safety of the claim table.
CONSTANTS
    Slot = {s1, s2}
    Value = {a, b}
    Writer = {w1, w2}
    NoWriter = NoWriter
    MaxRun = 3
    Overlapping = TRUE
SPECIFICATION Spec
SYMMETRY Symmetry
INVARIANTS
    TypeOK
    HistoryFaithful
    OneOpenClaim
    ProgressIsNewest
    LockedReadsStayTrue
    ObservedToIsLastObservation
    InRangeIfLandedInOrder
PROPERTIES
    ClaimsOnlyMoveForward
    ImplementsHistory
CHECK_DEADLOCK FALSE
