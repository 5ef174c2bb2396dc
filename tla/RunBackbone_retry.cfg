\* A failed execution run cannot be retried.
SPECIFICATION Spec
CONSTANTS
    w1 = w1
    w2 = w2
    site = site
    file = file
    NoWorker = NoWorker
    Workers <- OneWorker
    Projects <- OneSite
    FileProjects <- NoFiles
    MaxRuns = 3
    MaxTurns = 0
    MaxFaults = 1
    FaultKinds <- CrashFaults
INVARIANT FailedRunIsRetryable
