------------------------------ MODULE RunBackbone ------------------------------
(***************************************************************************)
(* The run backbone: the web tier creates and cancels runs in PostgreSQL   *)
(* and hands them to a BullMQ queue, the worker claims them, executes a    *)
(* planning or an execution run, and appends an event log per run.         *)
(*                                                                         *)
(* A run is identified by its creation order, 1..MaxRuns.  PostgreSQL      *)
(* transactions are single steps; everything between two awaits of the     *)
(* worker is a step of its own, so web transactions, other deliveries of   *)
(* the same job, crashes and rejected promises fall between them.          *)
(***************************************************************************)
EXTENDS Naturals, Sequences, FiniteSets

CONSTANTS
    Projects,       \* projects of one workspace
    FileProjects,   \* the projects whose outputKind is a file (pdf, docx, ...)
    Workers,        \* job slots of the worker processes (WORKER_CONCURRENCY each)
    NoWorker,       \* no slot holds the lock of the job
    MaxRuns,        \* bound: runs ever created
    MaxTurns,       \* bound: provider chunks, retries or repairs of one run
    MaxFaults,      \* bound: faults of a behaviour
    FaultKinds      \* which faults happen: subset of AllFaults

AllFaults == {"enqueue", "lock", "throw", "crash"}

ASSUME ConstantsAssumption ==
    /\ Projects # {}
    /\ FileProjects \subseteq Projects
    /\ NoWorker \notin Workers
    /\ MaxRuns \in Nat
    /\ MaxTurns \in Nat
    /\ MaxFaults \in Nat
    /\ FaultKinds \subseteq AllFaults

Runs == 1..MaxRuns

NoRun == 0          \* also the null parentRunId

VARIABLES
    \* table runs, one column each
    status, kind, parent, project, cancelRequested,
    \* table run_events: the types in seq order
    log,
    \* succeeded planning runs with a user message newer than their plan
    outdated,
    \* object storage: runs whose artifact objects are completely uploaded
    uploaded,
    \* next run id
    nextRun,
    \* BullMQ: state of the job with jobId = run, its stalled count, lock holder
    job, stalls, lock,
    \* runs with a call of enqueueRun, or of reconcileQueuedRuns' enqueue, under way
    toEnqueue,
    \* job slots: control point, run, whether the request read is newer than
    \* the plan, provider turns used
    pc, cur, sawNewer, turns,
    \* faults so far, by kind
    faults,
    \* history: runs cancelled, and execution runs overtaken by a user message,
    \* while they were still queued; runs an administrator's retry created
    cancelledQueued, overtakenQueued, retried

rowVars == <<status, kind, parent, project, cancelRequested, outdated, nextRun, retried>>
histVars == <<cancelledQueued, overtakenQueued>>
queueVars == <<job, stalls, lock>>
slotVars == <<pc, cur, sawNewer, turns>>
vars == <<rowVars, log, uploaded, queueVars, toEnqueue, slotVars, faults, histVars>>

Active == {"queued", "running"}
Terminal == {"succeeded", "failed", "cancelled"}
Statuses == {"absent"} \cup Active \cup Terminal

TerminalEvents == {"run.succeeded", "run.failed", "run.cancelled"}
EventTypes == TerminalEvents \cup
    {"run.queued", "run.started", "agent.started", "assistant.delta", "agent.refused",
     "agent.limit_exceeded", "assistant.completed", "artifact.generating",
     "sandbox.created", "sandbox.validated", "artifact.uploading", "artifact.ready"}

\* The terminal event finalizeFailure and terminalEvents append for a status.
EventOf(s) == CASE s = "succeeded" -> "run.succeeded"
                [] s = "failed"    -> "run.failed"
                [] s = "cancelled" -> "run.cancelled"
                [] OTHER           -> "run.queued"

\* Control points of processRun after its claim won and before the outcome is written.
Executing ==
    {"claimed", "reading", "planStart", "planCheck", "planStream", "planRefused",
     "planLimit", "planSaving", "lookup", "genStart", "genCheck", "genCall", "generated",
     "sandboxing", "validating", "validated", "bundled", "uploadStart", "uploading",
     "saving", "failing", "cancelling"}

Phases == Executing \cup {"idle", "delivered", "announcing", "finishing"}

Init ==
    /\ status = [r \in Runs |-> "absent"]
    /\ kind = [r \in Runs |-> "planning"]
    /\ parent = [r \in Runs |-> NoRun]
    /\ project = [r \in Runs |-> CHOOSE p \in Projects : TRUE]
    /\ cancelRequested = [r \in Runs |-> FALSE]
    /\ log = [r \in Runs |-> <<>>]
    /\ outdated = {}
    /\ uploaded = {}
    /\ nextRun = 1
    /\ job = [r \in Runs |-> "none"]
    /\ stalls = [r \in Runs |-> 0]
    /\ lock = [r \in Runs |-> NoWorker]
    /\ toEnqueue = {}
    /\ pc = [w \in Workers |-> "idle"]
    /\ cur = [w \in Workers |-> NoRun]
    /\ sawNewer = [w \in Workers |-> FALSE]
    /\ turns = [w \in Workers |-> 0]
    /\ faults = <<>>
    /\ cancelledQueued = {}
    /\ overtakenQueued = {}
    /\ retried = {}

Fault(k) ==
    /\ k \in FaultKinds
    /\ Len(faults) < MaxFaults
    /\ faults' = Append(faults, k)

-----------------------------------------------------------------------------
(* Web tier: each action is one committed transaction. *)

PlansOf(p) == {r \in Runs : project[r] = p /\ kind[r] = "planning" /\ status[r] = "succeeded"}

\* The partial unique index runs_one_active_per_project.
ProjectBusy(p) == \E r \in Runs : project[r] = p /\ status[r] \in Active

\* The unique index runs_parent_run_unique; null parents never conflict.
ParentTaken(q) == q # NoRun /\ \E r \in Runs : status[r] # "absent" /\ parent[r] = q

InsertRun(p, k, q) ==
    /\ nextRun <= MaxRuns
    /\ ~ProjectBusy(p)
    /\ ~ParentTaken(q)
    /\ status' = [status EXCEPT ![nextRun] = "queued"]
    /\ kind' = [kind EXCEPT ![nextRun] = k]
    /\ parent' = [parent EXCEPT ![nextRun] = q]
    /\ project' = [project EXCEPT ![nextRun] = p]
    /\ log' = [log EXCEPT ![nextRun] = <<"run.queued">>]
    /\ toEnqueue' = toEnqueue \cup {nextRun}
    /\ nextRun' = nextRun + 1
    /\ UNCHANGED <<cancelRequested, outdated, uploaded, queueVars, slotVars, faults,
                   histVars>>

StartPlanning(p) == InsertRun(p, "planning", NoRun) /\ UNCHANGED retried

\* The newest succeeded plan, provided no user message is newer than it.
StartExecution(p) ==
    \E q \in PlansOf(p) \ outdated :
        /\ \A r \in PlansOf(p) : r <= q
        /\ InsertRun(p, "execution", q)
        /\ UNCHANGED retried

\* A repeated startRun with the same idempotency key enqueues the same run again.
ReplayStart(r) ==
    /\ status[r] # "absent"
    /\ r \notin retried
    /\ toEnqueue' = toEnqueue \cup {r}
    /\ UNCHANGED <<rowVars, log, uploaded, queueVars, slotVars, faults, histVars>>

\* A retry that flips the failed run back instead of inserting a new one.
RetryByFlip(r) ==
    /\ status[r] = "failed"
    /\ status' = [status EXCEPT ![r] = "queued"]
    /\ toEnqueue' = toEnqueue \cup {r}
    /\ UNCHANGED <<kind, parent, project, cancelRequested, outdated, nextRun, retried, log,
                   uploaded, queueVars, slotVars, faults, histVars>>

RetryRunAdmin(r) ==
    /\ status[r] = "failed"
    /\ InsertRun(project[r], kind[r], parent[r])
    /\ retried' = retried \cup {nextRun}

CancelRun(r) ==
    /\ status[r] \in Active
    /\ ~cancelRequested[r]
    /\ cancelRequested' = [cancelRequested EXCEPT ![r] = TRUE]
    /\ cancelledQueued' = IF status[r] = "queued" THEN cancelledQueued \cup {r}
                                                  ELSE cancelledQueued
    /\ UNCHANGED <<status, kind, parent, project, outdated, nextRun, retried, log, uploaded,
                   queueVars, toEnqueue, slotVars, faults, overtakenQueued>>

\* A user message makes every plan written so far older than the latest request.
AppendRequirement(p) ==
    /\ PlansOf(p) \ outdated # {}
    /\ outdated' = outdated \cup PlansOf(p)
    /\ overtakenQueued' = overtakenQueued \cup
          {r \in Runs : project[r] = p /\ kind[r] = "execution" /\ status[r] = "queued"}
    /\ UNCHANGED <<status, kind, parent, project, cancelRequested, nextRun, retried, log,
                   uploaded, queueVars, toEnqueue, slotVars, faults, cancelledQueued>>

-----------------------------------------------------------------------------
(* BullMQ: adding a job whose id exists is a no-op; completed jobs are      *)
(* removed, failed ones are kept; there is one attempt per job.             *)

AddJob(r) ==
    IF job[r] = "none"
    THEN job' = [job EXCEPT ![r] = "waiting"]
    ELSE UNCHANGED job

EnqueueRun(r) ==
    /\ r \in toEnqueue
    /\ toEnqueue' = toEnqueue \ {r}
    /\ AddJob(r)
    /\ UNCHANGED <<rowVars, log, uploaded, stalls, lock, slotVars, faults, histVars>>

\* Redis unreachable, or the web process stops between commit and enqueue.
EnqueueFails(r) ==
    /\ r \in toEnqueue
    /\ Fault("enqueue")
    /\ toEnqueue' = toEnqueue \ {r}
    /\ UNCHANGED <<rowVars, log, uploaded, queueVars, slotVars, histVars>>

\* reconcileQueuedRuns: read the runs of a status, then enqueue each, by then
\* possibly claimed or finished.
ReconcileRuns(s) ==
    /\ toEnqueue' = toEnqueue \cup {r \in Runs : status[r] = s}
    /\ UNCHANGED <<rowVars, log, uploaded, queueVars, slotVars, faults, histVars>>

ReconcileRunningRuns == ReconcileRuns("running")

ReconcileQueuedRuns == ReconcileRuns("queued")

Deliver(w, r) ==
    /\ pc[w] = "idle"
    /\ job[r] = "waiting"
    /\ job' = [job EXCEPT ![r] = "active"]
    /\ lock' = [lock EXCEPT ![r] = w]
    /\ pc' = [pc EXCEPT ![w] = "delivered"]
    /\ cur' = [cur EXCEPT ![w] = r]
    /\ UNCHANGED <<rowVars, log, uploaded, stalls, toEnqueue, sawNewer, turns, faults, histVars>>

\* The lock of a live slot expires: a blocked event loop, or Redis unreachable.
LoseLock(r) ==
    /\ lock[r] # NoWorker
    /\ Fault("lock")
    /\ lock' = [lock EXCEPT ![r] = NoWorker]
    /\ UNCHANGED <<rowVars, log, uploaded, job, stalls, toEnqueue, slotVars, histVars>>

\* The stalled check: an active job without a lock waits again, once.
StalledJob(r) ==
    /\ job[r] = "active"
    /\ lock[r] = NoWorker
    /\ job' = [job EXCEPT ![r] = IF stalls[r] = 0 THEN "waiting" ELSE "failed"]
    /\ stalls' = [stalls EXCEPT ![r] = 1]
    /\ UNCHANGED <<rowVars, log, uploaded, lock, toEnqueue, slotVars, faults, histVars>>

\* removeOnFail: a kept job goes when it is a week old and another job fails.
ExpireFailedJob(r) ==
    /\ job[r] = "failed"
    /\ job' = [job EXCEPT ![r] = "none"]
    /\ stalls' = [stalls EXCEPT ![r] = 0]
    /\ UNCHANGED <<rowVars, log, uploaded, lock, toEnqueue, slotVars, faults, histVars>>

\* The slot is free again.
FreeSlot(w) ==
    /\ pc' = [pc EXCEPT ![w] = "idle"]
    /\ cur' = [cur EXCEPT ![w] = NoRun]
    /\ sawNewer' = [sawNewer EXCEPT ![w] = FALSE]
    /\ turns' = [turns EXCEPT ![w] = 0]

\* The slot reports its job completed (outcome "none") or failed; only the
\* holder of the lock may.
ReleaseJob(w, outcome) ==
    LET r == cur[w] IN
    IF lock[r] = w
    THEN /\ job' = [job EXCEPT ![r] = outcome]
         /\ lock' = [lock EXCEPT ![r] = NoWorker]
         /\ stalls' = [stalls EXCEPT ![r] = IF outcome = "none" THEN 0 ELSE @]
    ELSE UNCHANGED queueVars

-----------------------------------------------------------------------------
(* Worker: processRun, processPlanningRun, processExecutionRun,             *)
(* processFileExecutionRun and finalizeFailure.                             *)

Append_(r, types) == log' = [log EXCEPT ![r] = @ \o types]

Goto(w, phase) == pc' = [pc EXCEPT ![w] = phase]

\* A step that only moves the control point.
Step(w, from, to) ==
    /\ pc[w] = from
    /\ Goto(w, to)
    /\ UNCHANGED <<rowVars, log, uploaded, queueVars, toEnqueue, cur, sawNewer, turns, faults,
                   histVars>>

\* await emit(...): append one event, then continue.
Emit(w, from, type, to) ==
    /\ pc[w] = from
    /\ Append_(cur[w], <<type>>)
    /\ Goto(w, to)
    /\ UNCHANGED <<rowVars, uploaded, queueVars, toEnqueue, cur, sawNewer, turns, faults,
                   histVars>>

\* Another provider turn of the same run.
TurnWithin(w, from, to, limit) ==
    /\ pc[w] = from
    /\ turns[w] < limit
    /\ turns' = [turns EXCEPT ![w] = @ + 1]
    /\ Goto(w, to)
    /\ UNCHANGED <<rowVars, uploaded, queueVars, toEnqueue, cur, sawNewer, faults, histVars>>

TurnUnlimited(w, from, to) == TurnWithin(w, from, to, MaxTurns + 1)

Turn(w, from, to) == TurnWithin(w, from, to, MaxTurns)

\* await isCancelRequested(...): the run ends cancelled or goes on.
CheckCancelled(w, from, to) ==
    \/ Step(w, from, "cancelling") /\ cancelRequested[cur[w]]
    \/ Step(w, from, to) /\ ~cancelRequested[cur[w]]

\* UPDATE runs SET status = 'running' WHERE id = ... AND status IN claimable.
ClaimIf(w, claimable) ==
    /\ pc[w] = "delivered"
    /\ LET r == cur[w] IN
       IF status[r] \in claimable
       THEN /\ status' = [status EXCEPT ![r] = "running"]
            /\ Goto(w, "claimed")
       ELSE /\ Goto(w, "finishing")
            /\ UNCHANGED status
    /\ UNCHANGED <<kind, parent, project, cancelRequested, outdated, nextRun, retried, log,
                   uploaded, queueVars, toEnqueue, cur, sawNewer, turns, faults, histVars>>

ClaimActive(w) == ClaimIf(w, Active)        \* a claim a running run does not refuse

ClaimAlways(w) == ClaimIf(w, Statuses)      \* a claim without condition

ClaimRun(w) == ClaimIf(w, {"queued"})

EmitStarted(w) == Emit(w, "claimed", "run.started", "reading")

\* The try block of processRun: the latest request, the project, the attachments.
ReadRequest(w) ==
    /\ pc[w] = "reading"
    /\ LET r == cur[w] IN
       /\ sawNewer' = [sawNewer EXCEPT ![w] = parent[r] \in outdated]
       /\ Goto(w, IF kind[r] = "execution" THEN "lookup" ELSE "planStart")
    /\ UNCHANGED <<rowVars, log, uploaded, queueVars, toEnqueue, cur, turns, faults, histVars>>

ReadErrorSwallowed(w) == Step(w, "reading", "finishing")

\* An unreadable attachment or a failed read is caught: INTERNAL_ERROR.
ReadRequestFails(w) == Step(w, "reading", "failing")

EmitAgentStarted(w) == Emit(w, "planStart", "agent.started", "planCheck")

NoPlanningCheck(w) == Step(w, "planCheck", "planStream")

PlanningCheck(w) == CheckCancelled(w, "planCheck", "planStream")

\* One chunk of the stream; the next is of the same provider event, or of a
\* new one, which is checked for cancellation first.
PlanningDelta(w) ==
    \E next \in {"planStream", "planCheck"} :
        Turn(w, "planStream", next) /\ Append_(cur[w], <<"assistant.delta">>)

\* A retryable failure before the first chunk: back off, check, call again.
PlanningRetry(w) == Turn(w, "planStream", "planCheck") /\ UNCHANGED log

\* The stream ended: a plan, a refusal, an exceeded limit or a provider failure.
PlanningResult(w) ==
    \E to \in {"planSaving", "planRefused", "planLimit", "failing"} : Step(w, "planStream", to)

EmitAgentStopped(w) ==
    \/ Emit(w, "planRefused", "agent.refused", "failing")
    \/ Emit(w, "planLimit", "agent.limit_exceeded", "failing")

\* The success transaction: assistant message, runs row, both events.
SaveSuccess(w, from, first) ==
    /\ pc[w] = from
    /\ status' = [status EXCEPT ![cur[w]] = "succeeded"]
    /\ Append_(cur[w], <<first, "run.succeeded">>)
    /\ Goto(w, "finishing")
    /\ UNCHANGED <<kind, parent, project, cancelRequested, outdated, nextRun, retried,
                   uploaded, queueVars, toEnqueue, cur, sawNewer, turns, faults, histVars>>

SavePlan(w) == SaveSuccess(w, "planSaving", "assistant.completed")

LookupAnyPlan(w) == Step(w, "lookup", "genStart")

\* The plan must be a succeeded planning run, and not older than the request read.
LookupPlan(w) ==
    /\ pc[w] = "lookup"
    /\ LET q == parent[cur[w]]
           usable == q # NoRun /\ status[q] = "succeeded" /\ ~sawNewer[w]
       IN Step(w, "lookup", IF usable THEN "genStart" ELSE "failing")

EmitGenerating(w) == Emit(w, "genStart", "artifact.generating", "genCheck")

\* A repair cut short by a cancellation keeps the previous draft, so after the
\* first turn the check may also end in "generated".
GenerationCheck(w) ==
    \/ CheckCancelled(w, "genCheck", "genCall")
    \/ Step(w, "genCheck", "generated") /\ cancelRequested[cur[w]] /\ turns[w] > 0

\* Another provider event, a retry or a repair pass.
GenerationTurn(w) == Turn(w, "genCall", "genCheck") /\ UNCHANGED log

\* A reviewed draft, or a failure: provider, review gate, bundle.
GenerationResult(w) == \E to \in {"generated", "failing"} : Step(w, "genCall", to)

IsFileRun(r) == project[r] \in FileProjects

CheckGenerated(w) ==
    /\ pc[w] = "generated"
    /\ CheckCancelled(w, "generated", IF IsFileRun(cur[w]) THEN "uploadStart" ELSE "sandboxing")

EmitSandboxCreated(w) == Emit(w, "sandboxing", "sandbox.created", "validating")

\* Creating, using or reporting the sandbox failed; all of it is caught.
SandboxFails(w) ==
    \E from \in {"sandboxing", "validating"} : Step(w, from, "failing")

SandboxReports(w) == Step(w, "validating", "validated")

EmitSandboxValidated(w) == Emit(w, "validated", "sandbox.validated", "bundled")

\* ARTIFACT_TOO_LARGE, or the last cancellation check of a site.
CheckBundle(w) ==
    \/ Step(w, "bundled", "failing")
    \/ CheckCancelled(w, "bundled", "uploadStart")

EmitUploading(w) == Emit(w, "uploadStart", "artifact.uploading", "uploading")

Upload(w) ==
    /\ pc[w] = "uploading"
    /\ uploaded' = uploaded \cup {cur[w]}
    /\ Goto(w, "saving")
    /\ UNCHANGED <<rowVars, log, queueVars, toEnqueue, cur, sawNewer, turns, faults, histVars>>

UploadErrorSwallowed(w) == Step(w, "uploading", "saving")

UploadFails(w) == Step(w, "uploading", "failing")

SaveArtifact(w) == SaveSuccess(w, "saving", "artifact.ready")

\* finalizeFailure, first await: the status, in a statement of its own ...
FinalizeThen(w, next) ==
    /\ pc[w] \in {"failing", "cancelling"}
    /\ status' = [status EXCEPT ![cur[w]] =
                     IF pc[w] = "failing" THEN "failed" ELSE "cancelled"]
    /\ Goto(w, next)
    /\ UNCHANGED <<kind, parent, project, cancelRequested, outdated, nextRun, retried, log,
                   uploaded, queueVars, toEnqueue, cur, sawNewer, turns, faults, histVars>>

FinalizeSilently(w) == FinalizeThen(w, "finishing")

FinalizeStatus(w) == FinalizeThen(w, "announcing")

\* ... second await: the terminal event.
FinalizeEmit(w) == Emit(w, "announcing", EventOf(status[cur[w]]), "finishing")

\* The processor returned: BullMQ completes and removes the job.
CompleteJob(w) ==
    /\ pc[w] = "finishing"
    /\ ReleaseJob(w, "none")
    /\ FreeSlot(w)
    /\ UNCHANGED <<rowVars, log, uploaded, toEnqueue, faults, histVars>>

\* A database or Redis call rejects outside every try block (or the publish of
\* the event just appended does): processRun rejects and BullMQ fails the job.
\* "reading" stands for the publish of run.started only.
ProcessRunThrows(w) ==
    /\ pc[w] \notin {"idle", "planStream", "sandboxing", "validating", "genCall"}
    /\ Fault("throw")
    /\ ReleaseJob(w, "failed")
    /\ FreeSlot(w)
    /\ UNCHANGED <<rowVars, log, uploaded, toEnqueue, histVars>>

\* The worker process dies; the job's lock is no longer renewed.
Crash(w) ==
    /\ pc[w] # "idle"
    /\ Fault("crash")
    /\ lock' = [r \in Runs |-> IF lock[r] = w THEN NoWorker ELSE lock[r]]
    /\ FreeSlot(w)
    /\ UNCHANGED <<rowVars, log, uploaded, job, stalls, toEnqueue, histVars>>

-----------------------------------------------------------------------------
WebStep ==
    \/ \E p \in Projects : StartPlanning(p) \/ StartExecution(p) \/ AppendRequirement(p)
    \/ \E r \in Runs :
          ReplayStart(r) \/ RetryRunAdmin(r) \/ CancelRun(r) \/ EnqueueRun(r) \/ EnqueueFails(r)

QueueStep ==
    \/ ReconcileQueuedRuns
    \/ \E r \in Runs :
          LoseLock(r) \/ StalledJob(r) \/ ExpireFailedJob(r)

PlanningStep(w) ==
    \/ EmitAgentStarted(w) \/ PlanningCheck(w) \/ PlanningDelta(w) \/ PlanningRetry(w)
    \/ PlanningResult(w) \/ EmitAgentStopped(w) \/ SavePlan(w)

ExecutionStep(w) ==
    \/ LookupPlan(w) \/ EmitGenerating(w) \/ GenerationCheck(w) \/ GenerationTurn(w)
    \/ GenerationResult(w) \/ CheckGenerated(w) \/ EmitSandboxCreated(w) \/ SandboxFails(w)
    \/ SandboxReports(w) \/ EmitSandboxValidated(w) \/ CheckBundle(w) \/ EmitUploading(w)
    \/ Upload(w) \/ UploadFails(w) \/ SaveArtifact(w)

\* What a slot does by itself once a job is delivered to it.
SlotStep(w) ==
    \/ ClaimRun(w) \/ EmitStarted(w) \/ ReadRequest(w) \/ ReadRequestFails(w)
    \/ PlanningStep(w) \/ ExecutionStep(w)
    \/ FinalizeStatus(w) \/ FinalizeEmit(w) \/ CompleteJob(w)

Next ==
    \/ WebStep
    \/ QueueStep
    \/ \E w \in Workers : SlotStep(w) \/ ProcessRunThrows(w) \/ Crash(w)
    \/ \E w \in Workers, r \in Runs : Deliver(w, r)

Spec == Init /\ [][Next]_vars

\* Every await of a slot settles (calls carry deadlines), reconcileQueuedRuns
\* runs on a timer, BullMQ checks for stalled jobs and serves waiting jobs in
\* order, so a job that waits is delivered although slots are taken meanwhile.
Fairness ==
    /\ \A w \in Workers : WF_vars(SlotStep(w))
    /\ WF_vars(ReconcileQueuedRuns)
    /\ \A r \in Runs : /\ WF_vars(EnqueueRun(r))
                        /\ WF_vars(StalledJob(r))
                        /\ SF_vars(\E w \in Workers : Deliver(w, r))

FairSpec == Spec /\ Fairness

-----------------------------------------------------------------------------
(* Properties *)

\* Every variable stays in its type; event logs hold known event types.
TypeOK ==
    /\ status \in [Runs -> Statuses]
    /\ kind \in [Runs -> {"planning", "execution"}]
    /\ parent \in [Runs -> Runs \cup {NoRun}]
    /\ project \in [Runs -> Projects]
    /\ cancelRequested \in [Runs -> BOOLEAN]
    /\ log \in [Runs -> Seq(EventTypes)]
    /\ outdated \subseteq Runs
    /\ uploaded \subseteq Runs
    /\ nextRun \in 1..(MaxRuns + 1)
    /\ job \in [Runs -> {"none", "waiting", "active", "failed"}]
    /\ stalls \in [Runs -> {0, 1}]
    /\ lock \in [Runs -> Workers \cup {NoWorker}]
    /\ toEnqueue \subseteq Runs
    /\ pc \in [Workers -> Phases]
    /\ cur \in [Workers -> Runs \cup {NoRun}]
    /\ sawNewer \in [Workers -> BOOLEAN]
    /\ turns \in [Workers -> 0..MaxTurns]
    /\ faults \in Seq(FaultKinds)
    /\ Len(faults) <= MaxFaults
    /\ cancelledQueued \subseteq Runs
    /\ overtakenQueued \subseteq Runs
    /\ retried \subseteq Runs

\* Two slots never execute runs of one project at the same time, a fortiori
\* never the same run, although BullMQ may deliver a job twice: the claim in
\* processRun and the index runs_one_active_per_project together ensure it.
OneExecutionPerProject ==
    \A v, w \in Workers :
        v # w /\ pc[v] \in Executing /\ pc[w] \in Executing
            => project[cur[v]] # project[cur[w]]

\* A terminal event is the last one of its run's log and names the run's
\* status: a client that stops at it misses nothing and shows the right outcome.
TerminalEventClosesLog ==
    \A r \in Runs : \A i \in 1..Len(log[r]) :
        log[r][i] \in TerminalEvents => i = Len(log[r]) /\ log[r][i] = EventOf(status[r])

\* A cancellation accepted while the run is still queued is never lost: the
\* run does not succeed and leaves no artifact behind.
QueuedCancelHonoured ==
    \A r \in cancelledQueued : status[r] # "succeeded" /\ r \notin uploaded

\* A user message that arrives while an execution run is queued outdates its
\* plan: the worker refuses the run instead of building from the old plan.
OvertakenPlanNeverBuilt ==
    \A r \in overtakenQueued : status[r] # "succeeded" /\ r \notin uploaded

\* An execution run that succeeded has its objects in storage, was built from
\* a succeeded plan of its own project, and no other run used that plan.
ArtifactHasObjectsAndPlan ==
    \A r \in Runs : kind[r] = "execution" /\ status[r] = "succeeded" =>
        /\ r \in uploaded
        /\ parent[r] \in PlansOf(project[r])
        /\ \A q \in Runs : q # r /\ status[q] # "absent" => parent[q] # parent[r]

\* No process died and no rejection escaped processRun.
WorkersIntact == \A i \in 1..Len(faults) : faults[i] \notin {"crash", "throw"}

\* A run is running only while a slot executes it, as long as the workers are
\* intact: lost enqueues and locks and double deliveries strand no run.
RunningIsExecuted ==
    WorkersIntact => \A r \in Runs : status[r] = "running" =>
        \E w \in Workers : cur[w] = r /\ pc[w] \in Executing

\* A settled run has its terminal event, or a slot is about to append it, as
\* long as the workers are intact.
OutcomeIsAnnounced ==
    WorkersIntact => \A r \in Runs : status[r] \in Terminal =>
        \/ log[r][Len(log[r])] = EventOf(status[r])
        \/ \E w \in Workers : cur[w] = r /\ pc[w] = "announcing"

\* The outcome a log announces.
OutcomeIn(events) ==
    LET Announces(type) == \E i \in 1..Len(events) : events[i] = type
    IN  CASE Announces("run.succeeded") -> "succeeded"
          [] Announces("run.failed")    -> "failed"
          [] Announces("run.cancelled") -> "cancelled"
          [] OTHER -> "none"

Lifecycle == INSTANCE RunLifecycle
    WITH Runs <- Runs, state <- status, outcome <- [r \in Runs |-> OutcomeIn(log[r])]

\* Every step of the backbone is a step of RunLifecycle or invisible to it: no
\* redelivery, crash or late write restarts, re-settles or re-announces a run.
ImplementsLifecycle == Lifecycle!Spec

\* What an event tells the readers of its run.
Tells(type) == CASE type = "run.queued"    -> "queued"
                 [] type = "run.started"   -> "started"
                 [] type = "run.succeeded" -> "succeeded"
                 [] type = "run.failed"    -> "failed"
                 [] type = "run.cancelled" -> "cancelled"
                 [] OTHER                  -> "progress"

RunOf(r) == INSTANCE RunLog
    WITH row <- status[r], events <- [i \in 1..Len(log[r]) |-> Tells(log[r][i])]

\* The log of each run is one the run panel can read: it opens with run.queued, tells the
\* start before anything else and the outcome after everything, and only once the row
\* holds it.
ImplementsRunLog ==
    /\ \A r \in Runs : RunOf(r)!Init
    /\ [][\A r \in Runs : UNCHANGED <<status[r], log[r]>> \/ RunOf(r)!Next]_<<status, log>>

\* A step of any run is one its operators and its readers expect: no redelivery, crash or
\* late write restarts or settles it again, and its log tells just what its row went through.
ImplementsAbstractions == ImplementsLifecycle /\ ImplementsRunLog

\* A run that was started settles.
StartedRunSettles ==
    \A r \in Runs : (status[r] = "running") ~> (status[r] \in Terminal)

\* An administrator can retry any failed run of a project without an active run.
FailedRunIsRetryable ==
    \A r \in Runs :
        status[r] = "failed" /\ ~ProjectBusy(project[r]) /\ nextRun <= MaxRuns
            => ENABLED RetryRunAdmin(r)

\* Every run created settles, although any enqueue may be lost: the
\* reconciliation of the worker finds it.
EveryRunSettles ==
    \A r \in Runs : (status[r] = "queued") ~> (status[r] \in Terminal)

-----------------------------------------------------------------------------
(* The inductive invariant behind the safety properties. *)

BeforeFirstCheck ==
    {"claimed", "reading", "planStart", "planCheck", "lookup", "genStart", "genCheck"}

PlanningPhases == {"planStart", "planCheck", "planStream", "planRefused", "planLimit", "planSaving"}

ExecutionPhases ==
    {"lookup", "genStart", "genCheck", "genCall", "generated", "sandboxing", "validating",
     "validated", "bundled", "uploadStart", "uploading", "saving"}

Aborting == {"failing", "cancelling"}

OpenLog(r) == \A i \in 1..Len(log[r]) : log[r][i] \notin TerminalEvents

\* A slot that is not idle works on a run that exists.
Custody == \A w \in Workers : pc[w] # "idle" => cur[w] \in Runs

\* A slot past its claim knows the status of its run, because no other writes it.
SlotsOwnTheirRuns ==
    /\ \A w \in Workers : pc[w] \in Executing => status[cur[w]] = "running"
    /\ \A w \in Workers : pc[w] = "announcing" =>
          status[cur[w]] \in {"failed", "cancelled"} /\ OpenLog(cur[w])
    /\ \A v, w \in Workers :
          /\ v # w
          /\ pc[v] \in Executing \cup {"announcing"}
          /\ pc[w] \in Executing \cup {"announcing"}
          => cur[v] # cur[w]

\* The table runs: rows in creation order, one active row per project, an
\* execution row refers to a succeeded plan of its project that no other has.
RowsConsistent ==
    /\ \A r \in Runs : status[r] = "absent" <=> r >= nextRun
    /\ \A q, r \in Runs :
          q # r /\ status[q] \in Active /\ status[r] \in Active => project[q] # project[r]
    /\ \A r \in Runs : status[r] # "absent" =>
          IF kind[r] = "planning" THEN parent[r] = NoRun ELSE parent[r] \in PlansOf(project[r])
    /\ \A q, r \in Runs :
          q # r /\ status[q] # "absent" /\ status[r] # "absent" /\ parent[r] # NoRun
              => parent[q] # parent[r]

LogsOpenUntilSettled == \A r \in Runs : status[r] \notin Terminal => OpenLog(r)

\* Planning and execution slots stay on their own paths; objects precede rows.
SlotsOnPath ==
    \A w \in Workers :
        /\ pc[w] \in PlanningPhases => kind[cur[w]] = "planning"
        /\ pc[w] \in ExecutionPhases => kind[cur[w]] = "execution"
        /\ pc[w] = "saving" => cur[w] \in uploaded

\* Objects are uploaded by a claimed run, and before it succeeds.
ArtifactsStored ==
    /\ \A r \in Runs : kind[r] = "execution" /\ status[r] = "succeeded" => r \in uploaded
    /\ \A r \in uploaded : status[r] \notin {"absent", "queued"}

\* A slot that executes a run cancelled in the queue has not passed a check yet.
CancelsPending ==
    /\ \A r \in cancelledQueued :
          cancelRequested[r] /\ status[r] \notin {"absent", "succeeded"} /\ r \notin uploaded
    /\ \A w \in Workers :
          pc[w] \in Executing /\ cur[w] \in cancelledQueued
              => pc[w] \in BeforeFirstCheck \cup Aborting /\ turns[w] = 0
    /\ \A w \in Workers :
          pc[w] \in {"idle", "delivered"} => turns[w] = 0

\* A slot that executes a run overtaken in the queue has not used its plan.
OvertakenPending ==
    /\ \A r \in overtakenQueued :
          /\ kind[r] = "execution"
          /\ parent[r] \in outdated
          /\ status[r] \notin {"absent", "succeeded"}
          /\ r \notin uploaded
    /\ \A w \in Workers :
          pc[w] \in Executing /\ cur[w] \in overtakenQueued
              => \/ pc[w] \in {"claimed", "reading"} \cup Aborting
                 \/ pc[w] = "lookup" /\ sawNewer[w]

IInv ==
    /\ TypeOK
    /\ Custody
    /\ SlotsOwnTheirRuns
    /\ RowsConsistent
    /\ LogsOpenUntilSettled
    /\ TerminalEventClosesLog
    /\ SlotsOnPath
    /\ ArtifactsStored
    /\ CancelsPending
    /\ OvertakenPending

\* How a log starts: nobody but the slot that claimed the run adds to it, and that slot
\* tells the start before all else.  What ImplementsRunLog needs beyond IInv.
LogsStart ==
    /\ \A r \in Runs :
          /\ status[r] = "absent" => log[r] = <<>>
          /\ status[r] = "queued" => log[r] = <<"run.queued">>
    /\ \A w \in Workers :
          /\ pc[w] = "claimed" => log[cur[w]] = <<"run.queued">>
          /\ pc[w] \in Executing \cup {"announcing"} /\ pc[w] # "claimed"
                => Len(log[cur[w]]) > 1
=============================================================================
