\* Two projects and the requests of their life, any two of them in flight.
SPECIFICATION Spec
CONSTANTS
    create = create
    recreate = recreate
    rename = rename
    archive = archive
    append = append
    start = start
    restart = restart
    s1 = s1
    s2 = s2
    text = text
    edited = edited
    NoSlot = NoSlot
    Slots = {s1, s2}
    Keys = {create, recreate, rename, archive, append, start, restart}
    OpOf <- AllOps
    Contents = {text, edited}
    MaxProjects = 2
    MaxRequests = 4
SYMMETRY SlotSymmetry
INVARIANTS
    TypeOK
    EffectAtMostOnce
    AnswerIsTheEffect
    NoAbandonedKey
CHECK_DEADLOCK FALSE
