\* Two requests and the refresher over a two-query payload; the database may fail or hang.
CONSTANTS
    Reader = {r1, r2}
    Refresher = refresher
    NoThread = NoThread
    Parts = 2
    MaxVersion = 2
SPECIFICATION FairSpec
INVARIANTS
    TypeOK
    OneComputation
    NoRedundantCompute
    NoOlderThanAtStart
    ServedIsComplete
PROPERTIES
    ServedNeverOlder
    WarmReadReturns
    ColdReadReturns
    EventuallyCurrent
