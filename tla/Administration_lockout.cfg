\* Two administrators demote each other, or themselves, at the same time.
SPECIFICATION Spec
CONSTANTS
    amal = amal
    badr = badr
    project = project
    run = run
    null = null
    s1 = s1
    s2 = s2
    Users = {amal, badr}
    Projects = {project}
    Runs = {run}
    Limits = {null}
    InitialAccounts <- TwoAdmins
    Asked <- Demotions
    MaxRequests = 2
    Slots = {s1, s2}
INVARIANT AnAdminRemains
CHECK_DEADLOCK FALSE
