\* The worker process dies: the redelivered job leaves the run running.
SPECIFICATION FairSpec
CONSTANTS
    w1 = w1
    w2 = w2
    site = site
    file = file
    NoWorker = NoWorker
    Workers <- OneWorker
    Projects <- OneSite
    FileProjects <- NoFiles
    MaxRuns = 1
    MaxTurns = 0
    MaxFaults = 1
    FaultKinds <- CrashFaults
PROPERTY StartedRunSettles
