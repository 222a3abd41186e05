\* The nightly and a top-up by hand, over three windows.
CONSTANTS
    Worker = {nightly, manual}
    NoWorker = NoWorker
    Batches = 2
    Margin = 2
    Delay = 2
    Lookback = 3
    MaxGap = 5
    Gate = 1
    Retries = 1
    MaxStubs = 1
    Large = TRUE
    MaxTime = 11
SPECIFICATION Spec
INVARIANTS
    TypeOK
    NothingBehindCursorIsMissing
    WindowStartsAtCursor
PROPERTIES
    OneWindowADay
