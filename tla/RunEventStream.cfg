\* Two broken connections, two faults of Redis connections or of the worker.
SPECIFICATION FairSpec
CONSTANTS
    MaxProgress = 2
    MaxDrops = 2
    MaxFaults = 2
INVARIANTS
    TypeOK
    OnlyLostIsSkipped
    ShownInOrder
    PanelNeverAhead
PROPERTY OutcomeReachesPanel
CHECK_DEADLOCK FALSE
