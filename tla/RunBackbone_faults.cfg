\* Every fault once, a site project: a plan and an execution of it.
SPECIFICATION Spec
CONSTANTS
    w1 = w1
    w2 = w2
    site = site
    file = file
    NoWorker = NoWorker
    Workers <- TwoWorkers
    Projects <- OneSite
    FileProjects <- NoFiles
    MaxRuns = 2
    MaxTurns = 0
    MaxFaults = 1
    FaultKinds <- AllFaults
SYMMETRY WorkerSymmetry
INVARIANTS
    TypeOK
    OneExecutionPerProject
    TerminalEventClosesLog
    QueuedCancelHonoured
    OvertakenPlanNeverBuilt
    ArtifactHasObjectsAndPlan
    RunningIsExecuted
    OutcomeIsAnnounced
PROPERTY ImplementsAbstractions
