\* The first night of the stream, failing.
CONSTANTS
    Worker = {nightly}
    NoWorker = NoWorker
    Batches = 2
    Margin = 1
    Delay = 1
    Lookback = 2
    MaxGap = 4
    Gate = 1
    Retries = 1
    MaxStubs = 0
    Large = TRUE
    MaxTime = 9
SPECIFICATION Spec
INVARIANTS
    FailedNightsLoseNothing
