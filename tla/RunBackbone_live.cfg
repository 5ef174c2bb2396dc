\* Liveness: a lost enqueue, one worker slot, a file project, provider turns.
SPECIFICATION FairSpec
CONSTANTS
    w1 = w1
    w2 = w2
    site = site
    file = file
    NoWorker = NoWorker
    Workers <- OneWorker
    Projects <- OneFile
    FileProjects <- OneFile
    MaxRuns = 2
    MaxTurns = 1
    MaxFaults = 1
    FaultKinds <- LostEnqueue
PROPERTY EveryRunSettles
