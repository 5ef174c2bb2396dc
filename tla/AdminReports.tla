------------------------------ MODULE AdminReports ------------------------------
(***************************************************************************)
(* What the administration pages show.  A report is several SELECTs, each  *)
(* on the tables of its moment, while users and workers go on writing; a   *)
(* list is read page by page, each page on request; the system page probes *)
(* the services.  A row's id is its index: rows are created in that order. *)
(* A count, or a sum of costs, is represented by the set of the rows it is *)
(* taken over.                                                             *)
(***************************************************************************)
EXTENDS Naturals, Sequences, FiniteSets, FiniteSetsExt

CONSTANTS
    FirstRuns, FirstProjects, FirstUsers, FirstArtifacts,   \* the tables at the start
    Filters,        \* list -> the filters it is opened with, each from columns to values
    RecentLimit,    \* 10 and 20 in the code
    TopGroups,      \* groups in a breakdown, 10 in the code
    EventLimit,     \* events in a run's details, 200 in the code
    AdminPageSize,  \* ADMIN_PAGE_SIZE, 25 in the code
    MaxWrites, MaxChanges

RunStatuses == {"queued", "running", "succeeded", "failed", "cancelled"}
Ages == {"before", "month", "today"}

\* The columns that are compared: of a run its model, null until the run settles, the
\* number of its events and which of them is its last, 0 until there is one.  Whether a
\* name, an e-mail or a title has the text that is searched for is a column, found.
RunRow == [age : Ages, status : RunStatuses, kind : {"planning", "execution"},
           model : {"null", "model"}, cost : Nat, project : Nat, events : Nat, ending : Nat]
ProjectRow == [owner : Nat, kind : {"pdf", "static_site"}, status : {"active", "archived"},
               found : BOOLEAN]
UserRow == [role : {"user", "support", "admin"}, status : {"active", "suspended"},
            plan : {"free", "pro", "business"}, found : BOOLEAN]
AuditRow == [action : {"account.suspended", "run.retried"}, targetType : {"user", "run"},
             targetId : Nat]

\* A run belongs to a project and a project to an account; a succeeded run has its last
\* event, and only such a run has artifacts and a cost.
ASSUME ReportsAssumption ==
    /\ AdminPageSize \in Nat \ {0} /\ RecentLimit \in Nat \ {0}
    /\ TopGroups \in Nat \ {0} /\ EventLimit \in Nat \ {0}
    /\ FirstUsers \in Seq(UserRow) /\ FirstProjects \in Seq(ProjectRow)
    /\ FirstRuns \in Seq(RunRow) /\ FirstArtifacts \in Seq(DOMAIN FirstRuns)
    /\ \A p \in DOMAIN FirstProjects : FirstProjects[p].owner \in DOMAIN FirstUsers
    /\ \A i \in DOMAIN FirstRuns :
        /\ FirstRuns[i].project \in DOMAIN FirstProjects
        /\ FirstRuns[i].status = "succeeded" => FirstRuns[i].ending \in 1..FirstRuns[i].events
        /\ FirstRuns[i].cost > 0 => FirstRuns[i].status = "succeeded"
    /\ \A a \in DOMAIN FirstArtifacts : FirstRuns[FirstArtifacts[a]].status = "succeeded"

VARIABLES
    runTable, projectTable, userTable, auditTable,
    artifactTable,  \* the run of each artifact row
    writes,
    report,         \* [name, subject, next, read]: the report being read
    walk,           \* the list being read: [list, filter, sort, page, more], the rows its last
                    \* page was cut from, those seen, those that matched at every page so
                    \* far (stayed), and those that once did and then did not (left)
    reachable,      \* the services that answer within three seconds
    health,         \* [step, shown, seenUp]: the snapshot of the system page
    changes

reportVars == <<runTable, projectTable, userTable, auditTable, artifactTable, writes, report,
                walk, reachable, health, changes>>
database == <<runTable, projectTable, userTable, auditTable, artifactTable, writes>>
pages == <<report, walk, health>>

Lists == {"runs", "users", "projects", "audit"}
Services == {"postgres", "redis", "storage", "worker"}
NoReport == [name |-> "none", subject |-> 0, next |-> 1, read |-> <<>>]
NoWalk == [list |-> "none", filter |-> <<>>, sort |-> "newest", page |-> 0, more |-> FALSE,
           rows |-> {}, seen |-> {}, stayed |-> {}, left |-> {}]
NoHealth == [step |-> "none", shown |-> {}, unknown |-> {}, seenUp |-> {}]

ReportsInit ==
    /\ runTable = FirstRuns /\ projectTable = FirstProjects /\ userTable = FirstUsers
    /\ auditTable = <<>> /\ artifactTable = FirstArtifacts
    /\ writes = 0 /\ report = NoReport /\ walk = NoWalk
    /\ reachable = Services /\ health = NoHealth /\ changes = 0

-----------------------------------------------------------------------------
(* Those who write meanwhile *)

Write == writes < MaxWrites /\ writes' = writes + 1
Active(status) == status \in {"queued", "running"}

\* startRun and the administration's retry, under the index of one active run per project.
RunInserted(p) ==
    /\ Write
    /\ ~\E i \in DOMAIN runTable : runTable[i].project = p /\ Active(runTable[i].status)
    /\ \E kind \in {"planning", "execution"} :
        runTable' = Append(runTable,
            [age |-> "today", status |-> "queued", kind |-> kind, model |-> "null", cost |-> 0,
             project |-> p, events |-> 1, ending |-> 0])
    /\ UNCHANGED <<projectTable, userTable, auditTable, artifactTable>>

RunClaimed(i) ==
    /\ Write
    /\ runTable[i].status = "queued"
    /\ runTable' = [runTable EXCEPT ![i].status = "running"]
    /\ UNCHANGED <<projectTable, userTable, auditTable, artifactTable>>

\* run.started, a delta, a warning
EventAppended(i) ==
    /\ Write
    /\ runTable[i].status = "running"
    /\ runTable' = [runTable EXCEPT ![i].events = @ + 1]
    /\ UNCHANGED <<projectTable, userTable, auditTable, artifactTable>>

\* One transaction: the artifact of an execution, the status, two events, the model and,
\* only here, the cost.
RunSucceeds(i) ==
    /\ Write
    /\ runTable[i].status = "running"
    /\ runTable' = [runTable EXCEPT ![i].status = "succeeded", ![i].model = "model",
                                    ![i].cost = 1, ![i].events = @ + 2,
                                    ![i].ending = runTable[i].events + 2]
    /\ artifactTable' = IF runTable[i].kind = "execution" THEN Append(artifactTable, i)
                        ELSE artifactTable
    /\ UNCHANGED <<projectTable, userTable, auditTable>>

\* finalizeFailure: the status and the model, and the event in a statement of its own.
RunFails(i) ==
    /\ Write
    /\ runTable[i].status = "running"
    /\ \E status \in {"failed", "cancelled"} :
        runTable' = [runTable EXCEPT ![i].status = status, ![i].model = "model"]
    /\ UNCHANGED <<projectTable, userTable, auditTable, artifactTable>>
FailureAnnounced(i) ==
    /\ Write
    /\ runTable[i].status \in {"failed", "cancelled"} /\ runTable[i].ending = 0
    /\ runTable' = [runTable EXCEPT ![i].events = @ + 1, ![i].ending = runTable[i].events + 1]
    /\ UNCHANGED <<projectTable, userTable, auditTable, artifactTable>>

RowInserted ==
    /\ Write
    /\ \/ /\ \E found \in BOOLEAN :
            userTable' = Append(userTable, [role |-> "user", status |-> "active",
                                            plan |-> "free", found |-> found])
          /\ UNCHANGED <<projectTable, auditTable>>
       \/ /\ \E owner \in DOMAIN userTable, found \in BOOLEAN :
            projectTable' = Append(projectTable, [owner |-> owner, kind |-> "pdf",
                                                  status |-> "active", found |-> found])
          /\ UNCHANGED <<userTable, auditTable>>
       \/ /\ \E row \in {[action |-> "account.suspended", targetType |-> "user", targetId |-> 1],
                        [action |-> "run.retried", targetType |-> "run", targetId |-> 1]} :
            auditTable' = Append(auditTable, row)
          /\ UNCHANGED <<userTable, projectTable>>
    /\ UNCHANGED <<runTable, artifactTable>>

\* An administrator changes the status, the role or the plan of an account.
UserChanged(u) ==
    /\ Write
    /\ \E row \in UserRow, column \in {"role", "status", "plan"} :
        /\ \A c \in DOMAIN row : row[c] # userTable[u][c] <=> c = column
        /\ userTable' = [userTable EXCEPT ![u] = row]
    /\ UNCHANGED <<runTable, projectTable, auditTable, artifactTable>>

\* Its owner or an administrator archives an active project, or its owner renames it.
ProjectChanged(p) ==
    /\ Write
    /\ projectTable[p].status = "active"
    /\ \E row \in {[projectTable[p] EXCEPT !.status = "archived"],
                   [projectTable[p] EXCEPT !.found = ~@]} :
        projectTable' = [projectTable EXCEPT ![p] = row]
    /\ UNCHANGED <<runTable, userTable, auditTable, artifactTable>>

DatabaseStep ==
    \/ \E p \in DOMAIN projectTable : RunInserted(p) \/ ProjectChanged(p)
    \/ \E i \in DOMAIN runTable :
        \/ RunClaimed(i) \/ EventAppended(i)
        \/ RunSucceeds(i) \/ RunFails(i) \/ FailureAnnounced(i)
    \/ RowInserted
    \/ \E u \in DOMAIN userTable : UserChanged(u)

-----------------------------------------------------------------------------
(* The statements of the reports *)

Runs == DOMAIN runTable
WithStatus(status) == {i \in Runs : runTable[i].status = status}
Today == {i \in Runs : runTable[i].age = "today"}
ThisMonth == {i \in Runs : runTable[i].age # "before"}
OfProject(p) == {i \in Runs : runTable[i].project = p}
Owner(i) == projectTable[runTable[i].project].owner
OutputKind(i) == projectTable[runTable[i].project].kind
OfUser(user) == {i \in Runs : Owner(i) = user}
CostOf(ids) == {i \in ids : runTable[i].cost > 0}
\* ORDER BY created_at DESC LIMIT n
Newest(ids, n) == {i \in ids : Cardinality({j \in ids : j > i}) < n}

ActiveToday == {Owner(i) : i \in Today}

RunStates == [running |-> WithStatus("running"), queued |-> WithStatus("queued")]

WindowTotals ==
    [completedToday |-> WithStatus("succeeded") \cap Today,
     failedToday |-> WithStatus("failed") \cap Today,
     costToday |-> CostOf(Today), costMonth |-> CostOf(ThisMonth)]

UserRunTotals(user) ==
    [runCount |-> OfUser(user), failed |-> OfUser(user) \cap WithStatus("failed"),
     costMonth |-> CostOf(OfUser(user) \cap ThisMonth)]

RecentErrors(user) == Newest(OfUser(user) \cap WithStatus("failed"), RecentLimit)

ProjectArtifacts(p) ==
    LET rows == {a \in DOMAIN artifactTable : runTable[artifactTable[a]].project = p}
    IN  {artifactTable[a] : a \in Newest(rows, RecentLimit)}

ProjectRuns(p) == [i \in Newest(OfProject(p), RecentLimit) |-> runTable[i].status]

\* The month's runs by model, output kind, account or project, each group with its cost.
Breakdowns == {"byModel", "byOutputKind", "topUsers", "topProjects"}
Group(by, i) ==
    CASE by = "byModel" -> runTable[i].model
      [] by = "byOutputKind" -> OutputKind(i)
      [] by = "topUsers" -> Owner(i)
      [] by = "topProjects" -> runTable[i].project
Groups(by) == {Group(by, i) : i \in ThisMonth}
Members(by, g) == {i \in ThisMonth : Group(by, i) = g}
CostSum(by, g) == MapThenSumSet(LAMBDA i : runTable[i].cost, Members(by, g))

\* ORDER BY the cost DESC LIMIT 10: of groups that cost the same, any may be cut off.
Top(by) ==
    IF Cardinality(Groups(by)) <= TopGroups THEN {Groups(by)}
    ELSE {top \in SUBSET Groups(by) :
            /\ Cardinality(top) = TopGroups
            /\ \A g \in top, h \in Groups(by) \ top : CostSum(by, g) >= CostSum(by, h)}
GroupedBy(by) == {[g \in top |-> CostOf(Members(by, g))] : top \in Top(by)}

\* ORDER BY seq LIMIT 200
FirstEvents(i) == {seq \in 1..runTable[i].events : seq <= EventLimit}

\* The counts of the window before those of the states.
OverviewStatementsWindowFirst == <<"users", "active", "projects", "window", "states", "storage">>

\* The SELECTs of each report, one after another, each a statement of its own.  Those of
\* the details that nothing is compared with (the account, its projects, the attachments)
\* are left out.
OverviewStatements == <<"users", "active", "projects", "states", "window", "storage">>
UserStatements == <<"runTotals", "recentRuns", "recentErrors">>
ProjectStatements == <<"artifacts", "projectRuns">>
UsageStatements ==
    <<"window", "storage", "byModel", "byOutputKind", "topUsers", "topProjects">>
RunStatements == <<"run", "events">>

Statements == [overview |-> OverviewStatements, user |-> UserStatements,
               project |-> ProjectStatements, usage |-> UsageStatements, run |-> RunStatements]
ReportNames == DOMAIN Statements

Select(statement, subject) ==
    CASE statement = "users" -> Len(userTable)
      [] statement = "projects" -> Len(projectTable)
      [] statement = "active" -> ActiveToday
      [] statement = "states" -> RunStates
      [] statement = "window" -> WindowTotals
      [] statement = "storage" -> Len(artifactTable)
      [] statement = "runTotals" -> UserRunTotals(subject)
      [] statement = "recentRuns" -> Newest(OfUser(subject), RecentLimit)
      [] statement = "recentErrors" -> RecentErrors(subject)
      [] statement = "artifacts" -> ProjectArtifacts(subject)
      [] statement = "projectRuns" -> ProjectRuns(subject)
      [] statement = "run" -> runTable[subject].status
      [] statement = "events" -> FirstEvents(subject)
Results(statement, subject) ==
    IF statement \in Breakdowns THEN GroupedBy(statement) ELSE {Select(statement, subject)}

\* One page at a time.
NothingShown == report.name = "none" /\ walk.list = "none" /\ health.step = "none"

\* now: which runs there are when the report begins
OpenReport(name) ==
    /\ NothingShown
    /\ \E subject \in CASE name = "user" -> DOMAIN userTable
                        [] name = "project" -> DOMAIN projectTable
                        [] name = "run" -> DOMAIN runTable
                        [] OTHER -> {0} :
        report' = [name |-> name, subject |-> subject, next |-> 1,
                   read |-> [now |-> Today]]
    /\ UNCHANGED <<walk, health>>

Done(r) == r.name # "none" /\ r.next > Len(Statements[r.name])
ReadStatement ==
    /\ report.name # "none" /\ ~Done(report)
    /\ LET statement == Statements[report.name][report.next]
       IN  \E result \in Results(statement, report.subject) :
            report' = [report EXCEPT !.next = @ + 1,
                        !.read = [s \in DOMAIN @ \cup {statement} |->
                                    IF s = statement THEN result ELSE @[s]]]
    /\ UNCHANGED <<walk, health>>

-----------------------------------------------------------------------------
(* Lists in pages *)

\* Each condition compares a column with a value, AND between them; failedOnly is the
\* status failed, and the day a run was created in stands for a range of times.
Where(table, filter) ==
    {i \in DOMAIN table : \A column \in DOMAIN filter : table[i][column] = filter[column]}

ListRuns(filter) == Where(runTable, filter)         \* status, model, kind, age
ListUsers(filter) == Where(userTable, filter)       \* found, role, status, plan
ListProjects(filter) == Where(projectTable, filter) \* found, status, kind
ListAuditLogs(filter) == Where(auditTable, filter)  \* action, targetType, targetId

Matching(list, filter) ==
    CASE list = "runs" -> ListRuns(filter)
      [] list = "users" -> ListUsers(filter)
      [] list = "projects" -> ListProjects(filter)
      [] list = "audit" -> ListAuditLogs(filter)

\* Whether j comes before i, and how many rows do
Before(sort, j, i) == IF sort = "newest" THEN j > i ELSE j < i
Rank(rows, sort, i) == Cardinality({j \in rows : Before(sort, j, i)})

\* LIMIT pageSize + 1 OFFSET (page - 1) * pageSize; the last row only tells of a next page.
Page(rows, sort, page) ==
    LET offset == (page - 1) * AdminPageSize
        last == offset + AdminPageSize
    IN  [rows |-> {i \in rows : Rank(rows, sort, i) >= offset /\ Rank(rows, sort, i) < last},
         hasNext |-> Cardinality(rows) > last]

\* Page number page of the list that w has been reading
ShowPage(w, page) ==
    LET rows == Matching(w.list, w.filter)
        cut == Page(rows, w.sort, page)
    IN  [list |-> w.list, filter |-> w.filter, sort |-> w.sort, page |-> page,
         more |-> cut.hasNext, rows |-> rows, seen |-> w.seen \cup cut.rows,
         stayed |-> w.stayed \cap rows, left |-> w.left \cup (w.rows \ rows)]

\* Newest or oldest first; the orders by cost, tokens, duration and activity, in which a row
\* has no fixed place, are left out.
OpenList(list, filter, sort) ==
    /\ NothingShown
    /\ LET rows == Matching(list, filter)
       IN  walk' = ShowPage([list |-> list, filter |-> filter, sort |-> sort, rows |-> rows,
                             seen |-> {}, stayed |-> rows, left |-> {}], 1)
    /\ UNCHANGED <<report, health>>

\* The link of Pagination.
NextPage ==
    /\ walk.more
    /\ walk' = ShowPage(walk, walk.page + 1)
    /\ UNCHANGED <<report, health>>

-----------------------------------------------------------------------------
(* The system page *)

\* Whatever services went away before; the tables are not read, so it is enough to open
\* the page before anything is written.
OpenHealth ==
    /\ NothingShown /\ writes = 0
    /\ reachable' \in SUBSET Services
    /\ health' = [NoHealth EXCEPT !.step = "probes", !.seenUp = reachable']
    /\ UNCHANGED <<database, report, walk, changes>>

\* Three probes at once, each within three seconds.
ProbeDependencies ==
    /\ health.step = "probes"
    /\ health' = [health EXCEPT !.step = "queue",
                                !.shown = reachable \cap {"postgres", "redis", "storage"}]
    /\ UNCHANGED <<report, walk>>

\* getRunQueueCounts: no time limit, on a connection that retries for ever.
CountQueue ==
    /\ health.step = "queue" /\ "redis" \in reachable
    /\ \E counted \in SUBSET {"queue"} :
        health' = [health EXCEPT !.step = "worker", !.shown = @ \cup counted]
    /\ UNCHANGED <<report, walk>>

\* Without WORKER_HEALTH_URL the worker reads unknown.
ProbeWorker ==
    /\ health.step = "worker"
    /\ \/ health' = [health EXCEPT !.step = "done",
                                   !.shown = @ \cup (reachable \cap {"worker"})]
       \/ health' = [health EXCEPT !.step = "done", !.unknown = {"worker"}]
    /\ UNCHANGED <<report, walk>>

ReachabilityChanges(service) ==
    /\ changes < MaxChanges /\ health.step # "none"
    /\ changes' = changes + 1
    /\ reachable' = IF service \in reachable THEN reachable \ {service}
                    ELSE reachable \cup {service}
    /\ health' = [health EXCEPT !.seenUp = IF service \in reachable THEN @
                                           ELSE @ \cup {service}]
    /\ UNCHANGED <<database, report, walk>>

HealthStep ==
    /\ ProbeDependencies \/ CountQueue \/ ProbeWorker
    /\ UNCHANGED <<database, reachable, changes>>

\* The page is shown: what is written later does not concern it.
Shown == Done(report) \/ (walk.list # "none" /\ ~walk.more)

ReportsNext ==
    \/ DatabaseStep /\ health = NoHealth /\ ~Shown /\ UNCHANGED <<pages, reachable, changes>>
    \/ /\ \/ \E name \in ReportNames : OpenReport(name)
          \/ ReadStatement
          \/ \E list \in Lists, sort \in {"newest", "oldest"} :
                /\ list = "audit" => sort = "newest"
                /\ \E filter \in Filters[list] : OpenList(list, filter, sort)
          \/ NextPage
       /\ UNCHANGED <<database, reachable, changes>>
    \/ OpenHealth
    \/ HealthStep
    \/ \E service \in Services : ReachabilityChanges(service)

-----------------------------------------------------------------------------
(* Properties *)

ReportsTypeOK ==
    /\ \A i \in Runs : runTable[i].status \in RunStatuses
    /\ report.name \in ReportNames \cup {"none"}
    /\ health.shown \subseteq Services \cup {"queue"}

\* A run of today that there was when the overview was opened is in at least one of its
\* counts, running, queued, completed or failed, unless it was cancelled: what moves on
\* between the SELECTs is counted where it arrives.
NoRunOfTodayIsMissed ==
    report.name = "overview" /\ Done(report) =>
        \A i \in report.read.now :
            \/ i \in report.read.states.running \cup report.read.states.queued
            \/ i \in report.read.window.completedToday \cup report.read.window.failedToday
            \/ runTable[i].status = "cancelled"

\* The breakdowns of the usage page account for the month's whole cost, except for groups
\* that are not among the ten shown.
Covers(by, breakdown, total) ==
    \A i \in total :
        IF Group(by, i) \in DOMAIN breakdown THEN i \in breakdown[Group(by, i)]
        ELSE Cardinality(DOMAIN breakdown) >= TopGroups
BreakdownsCoverTheTotal ==
    report.name = "usage" /\ Done(report) =>
        \A by \in Breakdowns : Covers(by, report.read[by], report.read.window.costMonth)

\* The details agree with each other although they are read one after another: each of a
\* user's failed runs is listed unless the list is full of newer ones; the run of a
\* project's artifact is not shown unfinished; a run shown as succeeded has its last event
\* shown, unless the list is full of earlier ones.
NewerFailures(user, i) ==
    Cardinality({j \in OfUser(user) \cap WithStatus("failed") : j > i})
FailuresAreListed(r) ==
    \A i \in r.read["runTotals"].failed :
        i \in r.read["recentErrors"] \/ NewerFailures(r.subject, i) >= RecentLimit
ArtifactsAreOfFinishedRuns(r) ==
    \A i \in r.read["artifacts"] \cap DOMAIN r.read["projectRuns"] :
        r.read["projectRuns"][i] = "succeeded"
LastEventIsShown(r) ==
    r.read["run"] = "succeeded" =>
        runTable[r.subject].ending \in r.read["events"] \/ 1..EventLimit \subseteq r.read["events"]
DetailsAgree ==
    Done(report) =>
        /\ report.name = "user" => FailuresAreListed(report)
        /\ report.name = "project" => ArtifactsAreOfFinishedRuns(report)
        /\ report.name = "run" => LastEventIsShown(report)

\* Whoever walks a list from its first page to its last, newest or oldest first and under
\* any filter, has seen every row that matched all the while, however many rows were added
\* meanwhile; unless a row before it no longer matched, which moves it to a page that was
\* shown already.
PagesMissNothing ==
    walk.list # "none" /\ ~walk.more =>
        \A i \in walk.stayed \ walk.seen : \E j \in walk.left : Before(walk.sort, j, i)

\* The system page calls a service healthy only if it was reachable at some time since
\* the page asked.
HealthIsReal == health.shown \ {"queue"} \subseteq health.seenUp

\* The administration pages show what was there.
ReportsAreTrue ==
    /\ ReportsTypeOK
    /\ NoRunOfTodayIsMissed /\ BreakdownsCoverTheTotal /\ DetailsAgree
    /\ PagesMissNothing /\ HealthIsReal

\* The snapshot of the system page comes.  The probes come to an end whatever is away; the
\* queue's counts, which the code reads without a limit although its comment calls every
\* probe bounded, only if Redis does not stay away.
SnapshotComes ==
    /\ []<>(health.step \notin {"probes", "worker"})
    /\ <>[]("redis" \notin reachable) \/ []<>(health.step # "queue")

-----------------------------------------------------------------------------
(* The invariant behind ReportsAreTrue *)

ReportsSpec == ReportsInit /\ [][ReportsNext]_reportVars

Settled(i) == runTable[i].status \in {"succeeded", "failed", "cancelled"}
ReportTablesOK ==
    /\ runTable \in Seq(RunRow) /\ projectTable \in Seq(ProjectRow)
    /\ userTable \in Seq(UserRow) /\ auditTable \in Seq(AuditRow)
    /\ artifactTable \in Seq(Nat)
    /\ \A i \in Runs : /\ runTable[i].project \in DOMAIN projectTable
                       /\ runTable[i].cost > 0 => runTable[i].status = "succeeded"
    /\ \A i \in WithStatus("succeeded") : runTable[i].ending \in 1..runTable[i].events
    /\ \A a \in DOMAIN artifactTable : artifactTable[a] \in WithStatus("succeeded")

\* What each report may rely on after so many of its SELECTs, about the tables as they are
\* now: they only grow, and what is settled stays.
OverviewTold ==
    /\ report.next > 4 =>
        \A i \in report.read.now :
            i \in report.read.states.running \cup report.read.states.queued \/ Settled(i)
    /\ report.next > 5 =>
        \A i \in report.read.now :
            \/ i \in report.read.states.running \cup report.read.states.queued
            \/ i \in report.read.window.completedToday \cup report.read.window.failedToday
            \/ runTable[i].status = "cancelled"
UsageTold ==
    /\ report.next > 1 => report.read.window.costMonth \subseteq CostOf(ThisMonth)
    /\ \A k \in 3..6 :
        report.next > k =>
            Covers(UsageStatements[k], report.read[UsageStatements[k]],
                   report.read.window.costMonth)
UserTold ==
    /\ report.next > 1 => report.read["runTotals"].failed
                            \subseteq OfUser(report.subject) \cap WithStatus("failed")
    /\ report.next > 3 => FailuresAreListed(report)
ProjectTold ==
    /\ report.next > 1 => report.read["artifacts"] \subseteq WithStatus("succeeded")
    /\ report.next > 2 => ArtifactsAreOfFinishedRuns(report)
RunTold ==
    /\ report.subject \in Runs
    /\ report.next > 1 => (report.read["run"] = "succeeded" =>
                                runTable[report.subject].status = "succeeded")
    /\ report.next > 2 => LastEventIsShown(report)

ReportOK ==
    /\ DOMAIN report = {"name", "subject", "next", "read"}
    /\ report.name \in ReportNames \cup {"none"} /\ report.next \in Nat \ {0}
    /\ report.name # "none" =>
        /\ \A k \in 1..Len(Statements[report.name]) :
            k < report.next => Statements[report.name][k] \in DOMAIN report.read
        /\ "now" \in DOMAIN report.read /\ report.read.now \subseteq Today
    /\ report.name = "overview" => OverviewTold
    /\ report.name = "usage" => UsageTold
    /\ report.name = "user" => UserTold
    /\ report.name = "project" => ProjectTold
    /\ report.name = "run" => RunTold

\* A row that has stayed and was not shown comes on a later page, as long as none before it
\* has left; when there is no later page, none is to come.
WalkOK ==
    /\ walk.list \in Lists \cup {"none"}
    /\ walk.list = "none" => ~walk.more
    /\ walk.list # "none" =>
        /\ walk.page \in Nat /\ walk.page > 0
        /\ walk.rows \subseteq Nat /\ IsFiniteSet(walk.rows) /\ walk.stayed \subseteq walk.rows
        /\ \A i \in walk.stayed \ walk.seen :
            \/ \E j \in walk.left : Before(walk.sort, j, i)
            \/ Rank(walk.rows, walk.sort, i) >= walk.page * AdminPageSize
        /\ ~walk.more => Cardinality(walk.rows) <= walk.page * AdminPageSize

HealthOK ==
    /\ health \in [step : {"none", "probes", "queue", "worker", "done"},
                   shown : SUBSET (Services \cup {"queue"}), unknown : SUBSET Services,
                   seenUp : SUBSET Services]
    /\ reachable \subseteq Services
    /\ health.step # "none" => reachable \subseteq health.seenUp
    /\ health.step = "none" => health = NoHealth
    /\ HealthIsReal

ReportsIInv == ReportTablesOK /\ ReportOK /\ WalkOK /\ HealthOK
=============================================================================
