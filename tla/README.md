# A TLA+ model of Wakil

Wakil is an Arabic-first workspace in which a user describes an outcome, an agent plans it, the
user confirms, and the agent builds a site or a file. This directory holds TLA+ modules that model
its code, the TLC configurations that check them on small instances, and proofs that TLAPS checks
for every instance. Paths are relative to the repository root; `lines` are in `PROJECT.json`
("map").

    tlc -workers 2 -config RunBackbone_faults.cfg MCRunBackbone
    tlapm RunBackboneProofs.tla

## 1. The system

PostgreSQL is the only durable authority. Redis carries a BullMQ queue, one pub/sub channel per run
and rate-limit counters; object storage holds artifacts and attachments. The web application
(Next.js) and the worker are separate processes and may each run several times.

| Part | State it keeps | Operations | Interacts with |
| --- | --- | --- | --- |
| Run mutations (`apps/web/src/server/features/runs`) | table `runs` | `startRun`, `cancelRun` | inserts a run and its first event in one transaction, then enqueues a job whose id is the run's id |
| Run worker (`apps/worker/src`) | `runs`, `run_events`, `artifacts`, `run_tasks` | `processRun` and its planning, site and file paths, `finalizeFailure`, `reconcileQueuedRuns`, shutdown | consumes jobs, publishes events, calls a provider, a sandbox and the object store |
| Event stream and run panel | one subscriber and cursor per stream; status, events and seen set in the browser | `GET .../events`, `applyEvent`, start, cancel | replays `run_events`, forwards Redis messages |
| Projects, conversations (`features/projects`, `features/conversations`) | `projects`, `conversations`, `conversation_messages` | create, rename, archive, append requirement | a message makes an older plan stale; an archived project takes no run |
| Idempotency and rate limits | table `idempotency_keys`; Redis counters | `beginIdempotent`, `completeIdempotent`, `enforceRateLimit` | wraps every mutation |
| Attachments | `message_attachments`, objects | upload, claim by a message | `appendRequirement`, the worker's source context |
| Administration (`server/admin`) | `users`, `admin_audit`, runs | suspend, plan, limit, role, archive, cancel, retry | writes the same tables as the owner's mutations |
| Authentication, workspaces | `users`, `sessions`, `workspaces` | sign-in, session check, provisioning | guards every route |
| Agents (`packages/agent-core`) | none of their own; spend and attempts of one call | planning turn, site generation, review loop, file generation | called by the worker |
| Artifacts, sandbox, skills, model router (`packages/*`) | none (sandbox: a remote sandbox per validation) | build and check bundles, validate, select skills, call a provider | called by the worker and the agents |

What makes it hard:

- **Two writers per run row.** The web tier and an administrator write `cancel_requested_at` and
  insert rows while the worker moves the same rows; only the claim
  (`UPDATE ... WHERE status = 'queued'`) and two unique indexes order them.
- **At-least-once delivery.** BullMQ redelivers a job whose lock expired, although its first slot may
  still be working; the web tier enqueues after its commit and may fail to; a reconciliation re-adds
  queued runs every 30 seconds; a job whose id exists is not added again.
- **Crashes and rejected promises** between any two awaits of the worker.
- **Two transports for one event:** the database, read once when a stream opens, and Redis, which
  loses what nobody listens to.
- **Checks before writes** in `READ COMMITTED` transactions without locks: project status, active
  administrator count, freshness of a plan.

- **A provider that may do anything:** stop a stream at any chunk, fall silent, refuse, charge more
  than expected; and four adapters that must read it alike.
- **Several statements for one answer:** a page of the administration is several `SELECT`s, sign-up a
  lookup and an insert, a rate limit two Redis commands, an artifact two objects and a row.

What makes each part correct is stated as the properties below. `PROJECT.json` lists all parts under
"components" and what is hard to test under "hazards".

## 2. Modules

| Module | Models |
| --- | --- |
| `RunLifecycle` | what a run promises: queued once, started at most once, settled at most once, announced truthfully and not before |
| `RunLog` | one run as its readers see it: its row, and what each event of its log tells; `RunBackbone` implements it, `RunEventStream` starts from it |
| `RunBackbone` | run mutations, administrator's retry and cancel, queue, worker, reconciliation and faults |
| `MCRunBackbone` | constant values for TLC |
| `RunBackboneProofs` | theorems about `RunBackbone` |
| `RunEventStream`, `RunEventStreamProofs` | how the events of a run reach a panel |
| `ProjectMutations`, `MCProjectMutations`, `ProjectMutationsProofs` | the owner's mutations under idempotency keys |
| `Administration`, `MCAdministration`, `AdministrationProofs` | the administrator's actions and the audit ledger |
| `Attachments`, `MCAttachments`, `AttachmentsProofs` | a request's files, from the composer to the message that carries them |
| `ModelProvider` | the model router: a provider's stream read by one of four adapters |
| `Generation`, `MCGeneration`, `GenerationProofs` | a plan, a page or a file asked of the model: attempts, rounds of review, deadlines, limits, cancellation |
| `Skills`, `SiteReview`, `FileArtifacts` | pure operators: selection of skills, the judges of a page or a draft, building and reading files |
| `Arrays` | `sort` and the `for` loop over an array, which these and `ArtifactDelivery` use |
| `ArtifactDelivery`, `DeliveryProofs` | an execution run from the user's files to the link to its artifact; extends the three above |
| `RateLimit` | the fixed window of one operation of one user |
| `SignIn` | accounts, sessions, workspaces |
| `WorkerProcess` | start, readiness, sweep and shutdown of the worker |
| `StorageCheck` | the object store's lifecycle check |
| `AdminReports` | reports, lists and the system page of the administration |
| `MCServices` | the six modules above it on small instances, checked by one run |
| `ServicesProofs` | theorems about `RateLimit`, `SignIn`, `WorkerProcess` and `AdminReports` |

`RunBackbone` knows a generation as a bounded number of turns with a result, and an execution as a
path of awaits. `Generation` and `ArtifactDelivery` are what happens inside: the first between
`EmitAgentStarted` (or `EmitGenerating`) and the result, the second along the path from `ReadRequest`
to `SaveArtifact`. `Generation` extends `ModelProvider`, so that every attempt reads a stream a
provider may send.

### RunBackbone

`status`, `kind`, `parent`, `project`, `cancelRequested` are columns of `runs`; `log` is `run_events`
in `seq` order, by type; `outdated` holds the plans that a user message has overtaken (the comparison
of creation times in `startRun` and `processExecutionRun`); `uploaded` the runs whose objects are
stored. `job`, `stalls` and `lock` are what BullMQ keeps of a job, `toEnqueue` the runs whose
`enqueueRun` call has not returned. A slot `w` is one of the `WORKER_CONCURRENCY` concurrent jobs of
some worker process: `pc[w]` is the await it is at, `cur[w]` its run.

A web transaction is one step. The worker takes a step per await: claim, `run.started`, reading the
request, each cancellation check, each emission, the provider's turns, sandbox, bundle check, upload,
and the transaction that saves the result. `finalizeFailure` is two steps, because it is two
transactions. `SaveSuccess` appends the final events in the transaction that settles the run.

Faults (constant `FaultKinds`, at most `MaxFaults`): *enqueue*, `enqueueRun` rejects after the commit;
*lock*, a job's lock expires while its slot works on; *throw*, a database or Redis call rejects where
no `catch` of `processRun` covers it (`return processPlanningRun(...)` is not awaited inside its
`try`); *crash*, the process dies. BullMQ's stalled check, `maxStalledCount` and `removeOnFail` are
external and modelled from how `index.ts` configures them.

History variables `cancelledQueued`, `overtakenQueued` and `retried` only record what happened.

### RunEventStream

An event is its sequence number. What the worker does to the row and the log are the actions of
`RunLog`, with the publications that follow each of them; `RunBackbone` refines `RunLog` for each of
its runs (`RunOf(r)`), so the panel follows no run that the backbone could not have. The route's
`start` callback is three phases (subscribe, read, live) with `lastSentSeq` (`cursor`) and
`liveBuffer` (`buffer`); between the resolution of the replay read and the end of the buffer there is
no await, so `ReplayEvents` is one step. `outbox` is what is written to the response and not yet
received. Losing the HTTP connection (or an error of the read) drops it, and the EventSource
reconnects with the id of the last event it received. A stream the route refuses (404, 500, a
redirect) is not tried again.

An event reaches an open stream only through Redis, and may fail to in three ways, all modelled:
the stream's Redis connection is lost and what is published until ioredis has resubscribed goes to
nobody; `PUBLISH` rejects, which the planner and the sandbox step of the worker catch (the run goes
on or fails) and nobody else does; the worker stops between its commit and the publication. A
publication executed without an answer may be sent twice. The history variable `lost` is what an open
stream was kept from that way since it read its replay; a stream opened later reads the log again, so
the read takes what lies above its cursor out of `lost`.

The loop of `send` over the replay or the buffer is not a loop here: `Send` writes what of a set of
numbers is above the cursor, in ascending order (`Ascending`), at once. The terminal event is the
last of its run, so an event after which `send` would have closed the stream is the last written.

### ProjectMutations

Every mutation of an owner has one shape, and the module has it once: claim the key
(`beginIdempotent`), read the project, write, store the response (`completeIdempotent`), commit.
`keyState`, `holder`, `hash` and `response` are the row of `idempotency_keys`; a key is `held` while
the transaction that inserted it is open, which is what blocks a duplicate on the unique index.
`audit` is `audit_logs`: each committed request with the project it wrote. `AnswerIsTheEffect` holds
an answer against that log and the project: after a create, the project answered is one that no other
request created and that begins with this request's text, so an answer naming another project of the
same user would violate it (the mutant answers a repeated create with the newest project). `Send` is
any client: a first request, a double click, a retry after a lost answer, or a retry whose text was
edited under the same key. `Fail` is a rejected statement or the death of the process at any point of
the transaction.

### Administration

`account` holds the columns of `users` that administrators change, `ledger` is `admin_audit_logs` in
the order of commits, a slot is a server action in flight. An action is four steps: guard, read the
target, count the active administrators if the action may remove one, commit (update, audit row and
commit are one step, because the row lock is held between them). Owners archive and cancel, and runs
settle, in between. History: `entitled` (the actor was an active administrator at some time since the
request came) and `overlapped` (a transaction committed between another's read and write).

### Attachments

The client is one browser page: `item` is the status of each file in the composer, `row` its
`serverId`, `phase` where `submit` or `submitRequirement` is, `batch` and `text` what their closures
captured, `key` the idempotency key. It starts as the new-project form, which creates the project and
then uploads with `linkToInitial`, and goes on as the conversation view, which uploads unclaimed rows
and then appends a message that claims them. The server is the upload route, one transaction per
upload `u` in four steps (count under the row lock, store the object, commit the row), and
`createProject` and `appendRequirement` as single steps (`stored`, `request`), since
`ProjectMutations` shows that a key makes them so. The client may lose an answer while the upload
goes on; that, and abandoned uploads, are what makes uploads overlap. A commit may take effect without
its acknowledgement (`step` is `unsure`): the route then answers as for a failure and its catch block
deletes the object of the committed row. So `RowsHaveObjects` excepts exactly those rows, and says that
the conversation view never claims one, since it never learns its id. The initial message may carry one,
because its rows are linked when they are inserted; a run of that message then fails where the worker
reads the object (`processor.ts:215`). An append waits for the lock because the message's foreign key
locks the conversation row. The order in which a batch is uploaded
is any order; why a file is refused (rate, type, contents) is abstracted into `FailUpload`.
`delivered` is a history variable.

### ModelProvider and Generation

A stream is a sequence of chunk kinds: text, the chunks that close it in one of six endings, faults at
any position. `AdapterReads` is the loop body of an adapter's `stream`, per provider; the agents see
text, usage, refusal, completion or a `ProviderError`. `Generation` has one step per await of the
three generators, which share their shape: check for cancellation, preflight (the price of the prompt
against what is left of the cap), request, one step per chunk, judge the answer, and after a round
the decision to repair. `script` is what the provider has yet to send and `truth` how it means to
end, neither of which the code sees. History: `calls`, `late` (calls after the cancellation), `spent`
(all that usage ever reported) and `shown` (the attempts whose text was streamed to the user).

### ArtifactDelivery

A page is the set of its traits, what the regular expressions of `website-review.ts`, `static-site.ts`
and the sandbox's script find in it; a draft is its parts with their sizes, and its faults. A file and
its preview are sets of lines, each named by the part and number it comes from, so that they can be
compared; an object's key is a pair of its name and extension. An attached file is its type, its size
in units of 12 000 characters and the order of its slides in the archive. `stage` is the position in
`processExecutionRun`; each request to the sandbox or the store is a step that may fail, and the
sandbox service deletes what has reached its time to live. `Follow` is any member of any workspace.

### RateLimit, SignIn, WorkerProcess, StorageCheck

`RateLimit` has a step per Redis command, which may be lost, executed without an answer, or executed
and sent again by the client (`maxRetriesPerRequest: 1`). `SignIn` has a step per statement of a
browser's request; Auth.js and its adapter are external and modelled as the code configures them. A
browser may return from Google with or without a session, whenever it likes: with one, Auth.js links an
unlinked Google account to the user of the session and keeps that session, whatever the two e-mails
are, and turns away a Google account that is another user's; without one it signs in the user the
account is linked to, creates a user for a new e-mail, and turns away an e-mail that a user has
already. `wasActive` and `asked` (who brought which Google account from a session of his own) are
history variables. `WorkerProcess` is `main()` with what it has open, the timer and
its flag, the signal handlers, and jobs only counted. `StorageCheck` is `checkLifecycle`, whose every
request may fail before or after it took effect.

### AdminReports

The tables are sequences in the order of creation, so a row's id is its index. A report is the list
of its `SELECT`s (`Statements`), read one per step while runs start, move and settle; `OpenReport`
remembers which runs of today there were. A count, or a sum of costs, is represented by the set of the
rows it is taken over: two counts are then compared by what they cover, which is stronger than
comparing numbers. `GROUP BY ... ORDER BY cost DESC LIMIT 10` is any function from at most `TopGroups`
of the groups, those that cost most, to such sets; of a run's events the first `EventLimit` are read. A
list is opened under a filter, a function from columns to the values they are compared with; a text that
is searched for is a Boolean column (`found`), and a column may change while the list is read: runs
settle, administrators change accounts, owners rename and archive. A walk through a list reads
a page per request by `OFFSET`; a page is the rows whose `Rank`, the number of rows before them in the
list's order, lies between two offsets; `stayed` and `left` remember which rows matched at every page
and which no longer do. The system page probes what is reachable, then counts the
queue, then probes the worker.

## 3. Runs

| Run | Checks | Instance |
| --- | --- | --- |
| `backbone_faults` | `TypeOK`, `OneExecutionPerProject`, `TerminalEventClosesLog`, `QueuedCancelHonoured`, `OvertakenPlanNeverBuilt`, `ArtifactHasObjectsAndPlan`, `RunningIsExecuted`, `OutcomeIsAnnounced`, `ImplementsAbstractions` (refinement of `RunLifecycle`, and of `RunLog` for each run) | a plan and its execution, two slots, any one fault at any point |
| `backbone_live` | `EveryRunSettles` | file project, provider turns, one slot, two runs, one lost enqueue |
| `backbone_crash` | `StartedRunSettles` is violated | one run, one crash |
| `backbone_retry` | `FailedRunIsRetryable` is violated | three runs |
| `stream` | `TypeOK`, `OnlyLostIsSkipped`, `ShownInOrder`, `PanelNeverAhead`, `OutcomeReachesPanel` | up to five events, two broken connections, two faults of Redis connections, publications or the worker |
| `mutations` | `TypeOK`, `EffectAtMostOnce`, `AnswerIsTheEffect`, `NoAbandonedKey` | two projects, seven keys (two of them create), two contents, four requests, two in flight |
| `administration` | `TypeOK`, `LedgerExplainsAccounts`, `OnlyAdministratorsWrite`, `SerialLeavesAnAdmin`, `SettledRunsStayUncancelled` | two accounts, three requests, two in flight |
| `administration_lockout` | `AnAdminRemains` is violated | two administrators, two requests |
| `attachments` | `TypeOK`, `LimitHolds`, `SubmissionArrived`, `RowsHaveObjects` | two files, a limit of two, three uploads, the initial message and one of the conversation, two faults |
| `generation` | `TypeOK`, `CallsAreAccounted`, `AnswersAreWhole`, `DeliveredAsReviewed`, `TurnEnds` | every job, provider and ending, two attempts, one text chunk allowed, up to two repairs |
| `generation_spend` | `SpendWithinCap` is violated | honest prices, a cap of one attempt and a half |
| `services` | `PromptIsFaithful`, `DeliveryIsSound`, `AdmittedWithinLimit`, `AccessIsOnesOwn`, `WorkerIsInPlace`, `ReportsAreTrue`, `ServicesSettle` | see below |

A property of `generation` or `services` is a conjunction of facts about one concern, each named and
commented where it is defined: `DeliveryIsSound`, for instance, says that only a reviewed and
validated page is delivered, that a row has both its objects, that the preview shows the file and
that links stay in their workspace. `services` runs six modules that share no state, one of them to a
behaviour (`scene`), so no interleaving is lost. Its instances:

- delivery: every output kind, with and without the skills runtime, three budgets, eight sets of
  attached files (too long together, damaged, empty, of a type nobody reads, slides out of order, ten
  of them), every page one trait away from a good one, drafts with every fault, any request failing;
- rate limit: a limit of two, three callers, five commands in one window;
- sign-in: two browsers that share one new e-mail, two passwords and two Google accounts; another
  account, with a password, already there, whose e-mail one of the Google accounts has; one change of
  its status;
- worker: two jobs at a time, three signals, three outages;
- storage: no bound;
- reports: six runs of all ages and states in three projects of two of three accounts, one to
  three filters for each list besides none, pages of two rows, at most two groups in a breakdown and four
  events in a run's details, two writes while a report or list is read, two changes of what is
  reachable.

Why the bounds are enough. Two attempts are a failure and its retry, two repairs one more than a file
may have and all the site loop allows; one text chunk tells an attempt that streamed from one that
did not, and the second is over the limit. Three callers with a limit of two make one refusal race an
admission. Two browsers are the fewest that race for an account or a workspace. A page of two rows
and two writes let a row enter or leave a list and move another to a page already read; two groups of
three and four events of five let the limits cut something off. Three signals are two
of a kind and one of the other. Two runs are the shortest chain (a plan, its execution) and two slots the
fewest that can race for a job; the safety properties that the first run checks are proved for every
number of both. One fault already reaches every failure state, because no recovery path of the code
depends on how often something failed. Three runs are what a retry of a failed execution takes. In
the stream, five events let one fall before the replay, one during it, one while live and one after
a reconnection, and two faults let one publication be repeated and another be lost, or the worker
stop while Redis is interrupted. Four requests are a creation, a mutation, its duplicate and one that
interferes. Three administrative requests let one change who may act while two others are in flight;
with two accounts one administrator can appoint, demote and lock out the other. Three uploads are one
more than the limit of two, so one that is refused or races for the last place exists; three keys
are a creation, a message of the conversation (or a reload before it) and the key renewed after it.

The violated runs are findings: places where a document of the repository promises what the code
does not do. In short: a run whose worker crashes stays `running` for ever and blocks its project,
since the claim takes only queued runs and reconciliation re-adds only queued runs; a failed
execution run can never be retried, because the copy of its `parent_run_id` violates
`runs_parent_run_unique`; two administrators who remove each other at once leave none; what a failed
or unreadable attempt cost is dropped, so a run may spend `maxAttempts` times its cap.

The models show some behaviour that no run is about. A page that loads while its run settles may hold
the terminal event under the older status, and shows a working run until it is reloaded. A panel whose
stream was refused, or was kept from the last event, shows a working run until then too. A rename, a
message or a start that read an active project writes after it was archived. After a failed upload the
composer invites to a retry, while the file in error keeps its send button disabled until the file is
removed. A row of `users` whose Google account could not be linked lets nobody sign in. Slides are
read by the names of their entries, so the tenth comes before the second. A key whose `EXPIRE` was
never executed refuses for ever once it is over the limit. The system page waits for as long as Redis
is away, although its other probes are bounded. A run that succeeds while the overview is read may be
counted twice. Objects whose row was never written stay in the store.

Some properties carry a condition that marks a boundary of what the code does. `RunningIsExecuted`
and `OutcomeIsAnnounced` assume `WorkersIntact`: a call that rejects outside the `try` of
`processRun` strands its run exactly as a crash does, and a crash inside `finalizeFailure` settles a
run without a terminal event. `OnlyLostIsSkipped` excepts by name the events an open stream was kept
from: it never asks for what it missed, and later events move its cursor past the hole.
`docs/superpowers/specs/2026-07-18-m2-run-backbone-design.md:60` says that "a missed Redis publish
never loses an event"; that is so for a stream opened later, and `OutcomeReachesPanel` demands it of
one, but a panel whose stream stays open shows a working run for as long as it does. `ProcessExits`
excepts that Redis stays away for ever, which a closing BullMQ worker waits for, and that it is away at
the very moment the clients are told to quit (`AwayAtQuit`); an outage that passes before or after is no
excuse. `SnapshotComes` says that the three probes and the worker's come to an end whatever is away, and
the counting of the queue unless Redis stays away for ever. `apps/web/src/server/admin/system.ts:64`
says more, that "every probe is bounded": the code disagrees, since `getRunQueueCounts` is awaited
without a limit, and the property is about what the code does. `RefusalEnds` excepts a lost `EXPIRE`,
`SlidesAreReadInOrder` the order of slides of one digit and of two among each other.
`BreakdownsCoverTheTotal` and `LastEventIsShown` except what lies beyond the limits of ten groups and 200
events, which the pages drop without a word. `PagesMissNothing` excepts a row behind one that left the
list meanwhile, as a run leaves the list of running runs when it settles: the rows behind it move to a
page already read. It is about the orders by creation; under those by cost, tokens, duration or
activity, left out, a row may move to such a page by itself. What "for ever" means is stated with
`<>[]` and `[]<>`: an exception holds only of a behaviour in which the service is away from some moment
on.

## 4. Fairness

`RunBackbone!FairSpec`: each await of a slot completes (every call of the worker has a timeout or is
a database call), BullMQ delivers waiting jobs and checks for stalled ones, and the reconciliation
runs every 30 seconds. No fairness is assumed of users, administrators or faults.
`RunEventStream!FairSpec`: the announcement and the publications of a worker that has not stopped,
each await of the route, ioredis' resubscription and the browser's delivery and reconnection go on; a
publication may still be rejected, and a stream refused. The claim and the progress of the run are
not assumed fair there.
`Generation!Spec`: the event loop goes on with what is ready and fires an expired timer; nothing is
assumed of the provider, whose silence the deadline ends. `MCServices!ServicesSpec`: the steps of a
run (each request has a timeout) and the expiry of a sandbox at its time to live; each caller's
commands and Redis' expiry of a key; `main()`, but for a BullMQ worker that closes while Redis is away
(`MainIsNotHeld`); a sweep and a job of the worker, which end or fail;
the requests of the storage check; the probes of the system page. Calls, browsers, signals, outages
and those who write the tables are assumed nothing of.

## 5. Proofs

`RunBackboneProofs` proves, for every number of runs, slots, projects and turns and every set of
faults:

| Theorem | Property |
| --- | --- |
| `TypeCorrect` | `TypeOK` |
| `ExecutionIsExclusive` | `OneExecutionPerProject` |
| `TerminalEventIsLast` | `TerminalEventClosesLog` |
| `QueuedCancelPrevails` | `QueuedCancelHonoured` |
| `OvertakenPlanIsRefused` | `OvertakenPlanNeverBuilt` |
| `ArtifactsAreWhole` | `ArtifactHasObjectsAndPlan` |
| `RunningRunsAreExecuted` | `RunningIsExecuted` |
| `OutcomesAreAnnounced` | `OutcomeIsAnnounced` |
| `BackboneImplementsLifecycle` | `ImplementsLifecycle` |
| `BackboneImplementsRunLog` | `ImplementsRunLog` |
| `BackboneImplementsAbstractions` | `ImplementsAbstractions`, both of them |

None of the properties is inductive. The invariant `IInv`
(at the end of `RunBackbone`) adds what the code relies on without saying so:

- `SlotsOwnTheirRuns`: between its claim and its outcome a slot is the only one on its run, and the
  row says `running` all along. The claim's `WHERE status = 'queued'` establishes it; nothing else
  writes `status` while a slot executes.
- `RowsConsistent`: what the two unique indexes and `startRun`'s checks make of the table.
- `LogsOpenUntilSettled`: no terminal event before the row is settled, so that an append can be last.
- `SlotsOnPath`, `ArtifactsStored`: objects precede the rows that refer to them.
- `CancelsPending`, `OvertakenPending`: a slot whose run was cancelled or overtaken in the queue is
  still before the check that will notice.

Almost every step of a slot changes only its control point, its turn counters, its own log by a
non-terminal event and `uploaded`; `Advances` names that class, one lemma (`AdvanceIInv`) preserves
the invariant for it, and the actions of both paths are shown to belong to it. The steps that write a
row (`InsertRun`, `CancelRun`, `ClaimRun`, the saves, `FinalizeStatus`, `FinalizeEmit`) have a lemma
each. The refinement of `RunLifecycle` maps claims to `Begin`, saves to `Succeed`, `FinalizeStatus`
to `Abort`, `FinalizeEmit` to `Announce` and everything else to a stutter.

The refinement of `RunLog` looks at one run `r` closely: its events become what they tell
(`Told(log[r])`), and every emission is a step. It needs to know how a log starts (`LogsStart`): the
log of a queued run is `run.queued` alone, that of a run just claimed still is, and past `run.started`
it is longer. `Pushes` names the steps of a slot that add at most one event that tells nothing of the
status; `OwnerTraced` lifts a step of one slot to all runs, because no two slots own the same. The
initial states and the steps are shown as a conjunction over the runs, so one theorem covers every
run of a behaviour.

`RunningRunsAreExecuted` and `OutcomesAreAnnounced` are inductive together as `Tended`, for each run
at once, as long as no `crash` or `throw` has been recorded (`faults` only grows, so the condition,
once lost, is lost for good).

`ProjectMutationsProofs` proves, for every number of keys, slots, projects and requests,
`MutationsTyped` (`TypeOK`), `KeysTakeEffectOnce` (`EffectAtMostOnce`), `SuccessIsTruthful`
(`AnswerIsTheEffect`) and `FailureFreesTheKey` (`NoAbandonedKey`). Its `IInv` adds `ClaimsHeld` (a
transaction past its claim holds its key with its own request, so no second one can be there),
`AuditMatchesKeys` (every effect has its key stored, with that very request: the reason a key cannot
take effect twice) and `StoredHasEffect` (what a replay answers from).

`AdministrationProofs` proves `AdministrationTyped` (`TypeOK`), `LedgerIsComplete`
(`LedgerExplainsAccounts`), `AuthorityIsFresh` (`OnlyAdministratorsWrite`), `SerialActionsKeepAnAdmin`
(`SerialLeavesAnAdmin`) and the action property `SettledRunsAreLeftAlone`
(`SettledRunsStayUncancelled`). Its `IInv` adds `WritersSpareAnAdmin` (without overlap, what was
counted is still so when it is used) and `AdministratorsEntitled`.

`AttachmentsProofs` proves, for every set of files, limit and number of uploads, keys and faults,
`AttachmentsTyped` (`TypeOK`), `LimitIsKept` (`LimitHolds`), `SubmissionsArrive` (`SubmissionArrived`)
and `RowsKeepObjects` (`RowsHaveObjects`). Its `IInv` adds `LockInv` (the upload that counted still
has room, because it holds the lock until it commits), `ClaimInv` (a message of the conversation view
has exactly the rows its stored request names, which makes a replay's answer true, and none whose
commit was not acknowledged) and `ComposerInv`
(during a submission every file waits for its upload or has a stored row of its own).

`RunEventStreamProofs` proves, for every number of events, broken connections and faults of Redis
and the worker:

| Theorem | Property |
| --- | --- |
| `TypeCorrect` | `TypeOK` |
| `PanelSkipsOnlyLost` | `OnlyLostIsSkipped` |
| `PanelShowsInOrder` | `ShownInOrder` |
| `PanelIsNeverAhead` | `PanelNeverAhead` |

Its `IInv` follows an event on its way. `LogTellsRow` and `MessagesAreOfLog`: the log closes with the
row's outcome, and whatever is unpublished, on the wire or buffered is of it, in order and at most one
ahead of what the worker knows to be published. `PhasesOfRoute`
and `CursorsInOrder`: the browser's `Last-Event-ID`, the response and `lastSentSeq` are in this
order, so nothing below a cursor is sent again, which gives the order of `shown` under any loss.
`NothingSkipped` is the argument for `OnlyLostIsSkipped`: what the panel shows, what is in the
response, and what is buffered or on the wire cover the log up to the last publication, but for what
is in `lost`. Subscribing before the replay is what makes the first of these joints hold, and sorting
and filtering the buffer by the cursor keeps the second (`AscendingType`, `ReplayedIsNew`,
`SendKeepsIInv`).
`StreamFollowsARunLog` closes the joint with the backbone: the row and the log that the stream
follows are a `RunLog`, as each run of `RunBackbone` is.

`GenerationProofs` proves, for every number of attempts, repairs and text chunks, every cap, price
and cost, every provider and every stream it may send:

| Theorem | Property |
| --- | --- |
| `TypeCorrect` | `TypeOK` |
| `AccountingIsTrue` | `CallsAreAccounted` |
| `DeliveredAnswersAreWhole` | `AnswersAreWhole` |
| `ReviewBelongsToDraft` | `DeliveredAsReviewed` |

`CallsOfRounds` and `CostOfRounds` say that the calls, and the cost, are those of the rounds before
plus those of this one, at each control point. `AdapterFollows` relates what an adapter knows to what
is left of the stream: as long as the closing chunks of a stream are not read, no adapter holds an
answer complete, and a stream that was cut never gets there; this is the reason why no answer cut
short is delivered. `OneAttemptShown` says that an attempt that showed text is the last one, and
`DraftsOfRounds` that a round starts with the reviewed draft of the round before.

`ServicesProofs` proves one theorem for each of four small modules:

| Theorem | Property | For every | Inductive invariant |
| --- | --- | --- | --- |
| `AdmissionsAreLimited` | `AdmittedWithinLimit` | limit, number of callers and calls | `LimiterIInv`: whoever is admitted has incremented the key in this life of it, and one caller at most is between `INCR` and `EXPIRE` |
| `LetInAsOneself` | `AccessIsOnesOwn` | set of browsers, e-mails and passwords | `SignInIInv`: at each step of a request, what it carries is the row's own e-mail and password; a Google account is linked, or about to be, only to the user made for it or to one whose session asked; from its reading of the account on a request's account was active; no two workspaces of one user |
| `WorkerStaysInPlace` | `WorkerIsInPlace` | concurrency | `ProcessIInv`: the flag is up exactly while a sweep is in flight, and each step of `main` has its clients open |
| `PagesShowWhatIsThere` | `ReportsAreTrue` | table, page size, filter and limit of rows, groups and events, any writes | `ReportsIInv`: see below |

A report is true because what its earlier `SELECT`s returned is bounded by the tables as they are
now: a run that the first of two counts missed has moved on, and only forward, to where the second
one looks (`OverviewTold` and its sisters). A breakdown keeps accounting for the total read before it
because only settled runs cost anything, and a settled run changes neither its model nor its project,
and a project neither its owner nor its kind (`GroupStays`). In a list in order of creation the rank of a
row that stays falls only if a row before it leaves (`RankMovesBack`), so as long as none has, a row not
yet shown is behind the page shown last (`WalkOK`). Under the other orders the rank of a row may fall by
itself, and the proof would fail where the property does.

`DeliveryProofs` proves `WhatIsDeliveredIsSound` (`DeliveryIsSound`), `DeliveryTypeCorrect`
(`DeliveryTypeOK`) and `PromptsAreFaithful` (`PromptIsFaithful`) for every set of requests, pages,
drafts, budgets, attached files and members. `DeliveryIInv` says what each stage has behind it
(`StagesBehind`: a review before the sandbox, a bundle before the first put, both objects before the
row) and `RowIsOfTheRun` what the row refers to. `PromptIInv` says of the prompt what the step that
built it computed: the text read of the files is theirs, in their order and within the limit; the
skills fit the budget (or are one), and with the default budget include those of the destination. What
it computed is proved of the loops themselves. `ForEachRuns` and `ForEachReaches` are the rule for a
`for` loop with an invariant, proved once by the least index at which the invariant would fail, so no
induction over data is needed. `SortedByKey` says that `Sort` yields each element once and in the
order of its key, from the ranks `RankBy` gives; with it slides come in order and the registry of
skills stays whole (`OrderedIsTheRegistry`). `KeptOf` is the invariant of the greedy choice: what is
used is the sum of the skills kept, each kept once; it is within the budget unless a single skill
already exceeds it; and under the default budget no skill that was asked for is dropped. That a page
which passes the agent's own check passes the sandbox's (`SecuredPasses`) and that a preview shows its
file (`BuiltFilesAgree`) are lemmas about `Secured` and the builders.

The assumptions on constants are those the modules name (`ConstantsAssumption` and its like), which
TLC evaluates on every run. Most say that a constant is a number, a positive one, a nonempty or finite
set, or that a marker such as `NoWorker` is no member of a set. The others are these. That of
`Administration` starts from tables with an active administrator. `ReportsAssumption` says of the
tables a report starts from what the schema and the worker's transactions make of them: a run is of a
project, a project of an account, a succeeded run has its last event and only such a run has
artifacts and a cost. `DeliveryAssumption` types a request: it does or does not ask for the skills
runtime, its budget is a number, its files are a sequence, the slides of a file have different
numbers from 1 to 99, and the rows of a spreadsheet's sheets are a sequence of numbers.

Only model-checked:

- liveness (`EveryRunSettles`, `OutcomeReachesPanel`, `TurnEnds`, `ServicesSettle`) and
  `FailedRunIsRetryable`, which uses `ENABLED`: out of the prover's reach;
- the operators of `Skills`, `SiteReview` and `FileArtifacts` beyond the lemmas named above.

No module declares a recursive operator, so all of them can be proved about.

## 6. Plan

1. The action properties that are implicit in the proofs: tables that only grow (`AdminReports`),
   links that stay valid (`ArtifactDelivery`), a panel that never takes back what it showed
   (`RunEventStream`).
2. `Generation` and `ArtifactDelivery` as refinements of the path of awaits that `RunBackbone` has in
   their place, as `RunLog` is between the backbone and the stream.

### Not modelled

Page rendering, wording, dialogs, scrolling, voice recording and the progress display, which follow
from the state modelled; fonts, layout and the bytes of generated files; regular expressions, beyond
what they find; JSON of the providers, beyond the chunks an adapter tells apart; configuration
parsing and logging; the joined columns of the administration's lists; scripts, evaluations and
build files; the service worker, which caches a fixed list of public files and nothing else. They
keep no state that a property is about.
