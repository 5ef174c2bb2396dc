SPECIFICATION ServicesSpec
CONSTANTS
 DeliveryRequests <- MCDeliveryRequests
 DeliveryPages <- MCDeliveryPages
 DeliveryDrafts <- MCDeliveryDrafts
 Workspaces = {"w1", "w2"}
 Callers = {c1, c2, c3}
 Limit = 2
 MaxCalls = 5
 Browsers = {b1, b2}
 Emails = {e0, e1}
 Passwords = {p1, p2}
 BadInput = bad
 NoHash = none
 MaxSuspensions = 1
 OtherEmail = e0
 Concurrency = 2
 MaxSignals = 3
 MaxOutages = 3
 FirstRuns <- MCFirstRuns
 FirstProjects <- MCFirstProjects
 FirstUsers <- MCFirstUsers
 FirstArtifacts <- MCFirstArtifacts
 Filters <- MCFilters
 RecentLimit = 2
 TopGroups = 2
 EventLimit = 4
 AdminPageSize = 2
 MaxWrites = 2
 MaxChanges = 2
INVARIANTS
 PromptIsFaithful
 DeliveryIsSound
 AdmittedWithinLimit
 AccessIsOnesOwn
 WorkerIsInPlace
 ReportsAreTrue
PROPERTY
 ServicesSettle
CHECK_DEADLOCK FALSE
