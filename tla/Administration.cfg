\* An administrator and a user; any two requests in flight.
SPECIFICATION Spec
CONSTANTS
    amal = amal
    badr = badr
    project = project
    run = run
    null = null
    s1 = s1
    s2 = s2
    Users = {amal, badr}
    Projects = {project}
    Runs = {run}
    Limits = {null}
    InitialAccounts <- OneAdmin
    Asked <- Everything
    MaxRequests = 3
    Slots = {s1, s2}
SYMMETRY SlotSymmetry
INVARIANTS
    TypeOK
    LedgerExplainsAccounts
    OnlyAdministratorsWrite
    SerialLeavesAnAdmin
PROPERTY SettledRunsStayUncancelled
CHECK_DEADLOCK FALSE
