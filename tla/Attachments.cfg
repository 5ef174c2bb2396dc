\* Two files, up to two per request, three uploads, the initial message and one more.
SPECIFICATION Spec
CONSTANTS
    report = report
    photo = photo
    none = none
    NoFile = NoFile
    brief = brief
    Files = {report, photo}
    Drafts = {none, brief}
    NoText = none
    Limit = 2
    MaxUploads = 3
    MaxKeys = 3
    MaxFaults = 2
SYMMETRY FileSymmetry
INVARIANTS
    TypeOK
    LimitHolds
    SubmissionArrived
    RowsHaveObjects
CHECK_DEADLOCK FALSE
