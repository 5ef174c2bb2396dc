-------------------------- MODULE RunBackboneProofs --------------------------
(***************************************************************************)
(* Proofs about RunBackbone, for every number of runs, slots, projects,    *)
(* provider turns and faults.                                              *)
(***************************************************************************)
EXTENDS RunBackbone, TLAPS, SequenceTheorems

-----------------------------------------------------------------------------
(* Typing *)

\* EventOf yields events of the log.
LEMMA EventOfType ==
    ASSUME NEW s PROVE EventOf(s) \in EventTypes
BY DEF EventOf, EventTypes, TerminalEvents

LEMMA InitTypeOK == Init => TypeOK
<1> SUFFICES ASSUME Init PROVE TypeOK
    OBVIOUS
<1>1. (CHOOSE p \in Projects : TRUE) \in Projects
    BY ConstantsAssumption
<1>2. <<>> \in Seq(EventTypes)
    OBVIOUS
<1> QED
    BY <1>1, <1>2, ConstantsAssumption
    DEF Init, TypeOK, Runs, NoRun, Statuses, Active, Terminal, Phases

\* Inserting a run keeps the types (startRun and retryRunAdminAction).
LEMMA InsertRunTypeOK ==
    ASSUME TypeOK, NEW p \in Projects, NEW k \in {"planning", "execution"},
           NEW q \in Runs \cup {NoRun}, InsertRun(p, k, q)
    PROVE  /\ status' \in [Runs -> Statuses]
           /\ kind' \in [Runs -> {"planning", "execution"}]
           /\ parent' \in [Runs -> Runs \cup {NoRun}]
           /\ project' \in [Runs -> Projects]
           /\ log' \in [Runs -> Seq(EventTypes)]
           /\ nextRun' \in 1..(MaxRuns + 1)
           /\ nextRun \in Runs
           /\ toEnqueue' \subseteq Runs
<1>1. nextRun \in Runs /\ nextRun' \in 1..(MaxRuns + 1)
    BY ConstantsAssumption DEF InsertRun, TypeOK, Runs
<1>2. <<"run.queued">> \in Seq(EventTypes)
    BY DEF EventTypes
<1> QED
    BY <1>1, <1>2 DEF InsertRun, TypeOK, Statuses, Active

LEMMA WebTypeOK == TypeOK /\ WebStep => TypeOK'
<1> SUFFICES ASSUME TypeOK, WebStep PROVE TypeOK'
    OBVIOUS
<1>1. ASSUME NEW p \in Projects, StartPlanning(p) PROVE TypeOK'
    <2>1. NoRun \in Runs \cup {NoRun}
        OBVIOUS
    <2> QED
        BY <1>1, <2>1, InsertRunTypeOK
        DEF StartPlanning, InsertRun, TypeOK, queueVars, slotVars, histVars
<1>2. ASSUME NEW p \in Projects, StartExecution(p) PROVE TypeOK'
    <2>1. PICK q \in Runs : InsertRun(p, "execution", q) /\ UNCHANGED retried
        BY <1>2 DEF StartExecution, PlansOf
    <2> QED
        BY <2>1, InsertRunTypeOK DEF InsertRun, TypeOK, queueVars, slotVars, histVars
<1>3. ASSUME NEW p \in Projects, AppendRequirement(p) PROVE TypeOK'
    BY <1>3 DEF AppendRequirement, PlansOf, TypeOK, queueVars, slotVars
<1>4. ASSUME NEW r \in Runs, ReplayStart(r) PROVE TypeOK'
    BY <1>4 DEF ReplayStart, TypeOK, rowVars, queueVars, slotVars, histVars
<1>5. ASSUME NEW r \in Runs, RetryRunAdmin(r) PROVE TypeOK'
    <2>1. /\ project[r] \in Projects
          /\ kind[r] \in {"planning", "execution"}
          /\ parent[r] \in Runs \cup {NoRun}
        BY DEF TypeOK
    <2> QED
        BY <1>5, <2>1, InsertRunTypeOK
        DEF RetryRunAdmin, InsertRun, TypeOK, queueVars, slotVars, histVars
<1>6. ASSUME NEW r \in Runs, CancelRun(r) PROVE TypeOK'
    BY <1>6 DEF CancelRun, TypeOK, queueVars, slotVars
<1>7. ASSUME NEW r \in Runs, EnqueueRun(r) PROVE TypeOK'
    BY <1>7 DEF EnqueueRun, AddJob, TypeOK, rowVars, slotVars, histVars
<1>8. ASSUME NEW r \in Runs, EnqueueFails(r) PROVE TypeOK'
    BY <1>8, ConstantsAssumption
    DEF EnqueueFails, Fault, TypeOK, rowVars, queueVars, slotVars, histVars
<1> QED
    BY <1>1, <1>2, <1>3, <1>4, <1>5, <1>6, <1>7, <1>8 DEF WebStep

LEMMA QueueTypeOK == TypeOK /\ QueueStep => TypeOK'
<1> SUFFICES ASSUME TypeOK, QueueStep PROVE TypeOK'
    OBVIOUS
<1>1. CASE ReconcileQueuedRuns
    BY <1>1 DEF ReconcileQueuedRuns, ReconcileRuns, TypeOK, rowVars, queueVars, slotVars,
                histVars
<1>2. ASSUME NEW r \in Runs, LoseLock(r) PROVE TypeOK'
    BY <1>2, ConstantsAssumption DEF LoseLock, Fault, TypeOK, rowVars, slotVars, histVars
<1>3. ASSUME NEW r \in Runs, StalledJob(r) PROVE TypeOK'
    BY <1>3 DEF StalledJob, TypeOK, rowVars, slotVars, histVars
<1>4. ASSUME NEW r \in Runs, ExpireFailedJob(r) PROVE TypeOK'
    BY <1>4 DEF ExpireFailedJob, TypeOK, rowVars, slotVars, histVars
<1> QED
    BY <1>1, <1>2, <1>3, <1>4 DEF QueueStep

LEMMA FreeType ==
    ASSUME TypeOK, NEW w \in Workers, FreeSlot(w)
    PROVE  /\ pc' \in [Workers -> Phases]
           /\ cur' \in [Workers -> Runs \cup {NoRun}]
           /\ sawNewer' \in [Workers -> BOOLEAN]
           /\ turns' \in [Workers -> 0..MaxTurns]
BY ConstantsAssumption DEF FreeSlot, TypeOK, Phases

LEMMA ReleaseType ==
    ASSUME TypeOK, NEW w \in Workers, cur[w] \in Runs, NEW o \in {"none", "failed"},
           ReleaseJob(w, o)
    PROVE  /\ job' \in [Runs -> {"none", "waiting", "active", "failed"}]
           /\ stalls' \in [Runs -> {0, 1}]
           /\ lock' \in [Runs -> Workers \cup {NoWorker}]
<1>1. CASE lock[cur[w]] = w
    <2>1. /\ job' = [job EXCEPT ![cur[w]] = o]
          /\ lock' = [lock EXCEPT ![cur[w]] = NoWorker]
          /\ stalls' = [stalls EXCEPT ![cur[w]] = IF o = "none" THEN 0 ELSE stalls[cur[w]]]
        BY <1>1 DEF ReleaseJob
    <2>2. (IF o = "none" THEN 0 ELSE stalls[cur[w]]) \in {0, 1}
        BY DEF TypeOK
    <2> QED
        BY <2>1, <2>2 DEF TypeOK
<1>2. CASE lock[cur[w]] # w
    BY <1>2 DEF ReleaseJob, TypeOK, queueVars
<1> QED
    BY <1>1, <1>2

-----------------------------------------------------------------------------
(* Steps inside an execution.                                              *)

\* The events an execution appends before it settles.
Progress == EventTypes \ TerminalEvents

\* A slot that has claimed its run goes on executing it, at control point to.
\* It may append an event, upload the objects and use a turn.
Advances(w, to) ==
    /\ pc[w] \in Executing
    /\ to \in Executing
    /\ Goto(w, to)
    /\ UNCHANGED log \/ \E e \in Progress : Append_(cur[w], <<e>>)
    /\ UNCHANGED uploaded \/ uploaded' = uploaded \cup {cur[w]}
    /\ uploaded' = uploaded \/ cur[w] \notin cancelledQueued \cup overtakenQueued
    /\ \E b \in BOOLEAN : sawNewer' = [sawNewer EXCEPT ![w] = b]
    /\ \E n \in 0..MaxTurns : turns' = [turns EXCEPT ![w] = n]
    /\ to \in PlanningPhases => kind[cur[w]] = "planning"
    /\ to \in ExecutionPhases => kind[cur[w]] = "execution"
    /\ to = "saving" => cur[w] \in uploaded'
    /\ cur[w] \in cancelledQueued => to \in BeforeFirstCheck \cup Aborting /\ turns'[w] = 0
    /\ cur[w] \in overtakenQueued => \/ to \in {"claimed", "reading"} \cup Aborting
                                     \/ to = "lookup" /\ sawNewer'[w]
    /\ UNCHANGED <<rowVars, queueVars, toEnqueue, cur, faults, histVars>>

\* Appending a progress event keeps an open log open and the other logs alone.
LEMMA AppendProgress ==
    ASSUME TypeOK, NEW r \in Runs, NEW e \in Progress, OpenLog(r), Append_(r, <<e>>)
    PROVE  /\ log' \in [Runs -> Seq(EventTypes)]
           /\ \A q \in Runs \ {r} : log'[q] = log[q]
           /\ OpenLog(r)'
<1>1. log[r] \in Seq(EventTypes) /\ e \in EventTypes /\ e \notin TerminalEvents
    BY DEF TypeOK, Progress
<1>2. log'[r] = log[r] \o <<e>>
    BY DEF Append_, TypeOK
<1>3. /\ log'[r] \in Seq(EventTypes)
      /\ Len(log'[r]) = Len(log[r]) + 1
      /\ \A i \in 1..Len(log[r]) : log'[r][i] = log[r][i]
      /\ log'[r][Len(log[r]) + 1] = e
    BY <1>1, <1>2
<1>4. OpenLog(r)'
    BY <1>1, <1>3 DEF OpenLog
<1> QED
    BY <1>3, <1>4 DEF Append_, TypeOK

LEMMA AdvanceLogs ==
    ASSUME IInv, NEW w \in Workers, NEW to, Advances(w, to)
    PROVE  /\ cur[w] \in Runs
           /\ status[cur[w]] = "running"
           /\ log' \in [Runs -> Seq(EventTypes)]
           /\ \A q \in Runs \ {cur[w]} : log'[q] = log[q]
           /\ OpenLog(cur[w])'
<1>1. cur[w] \in Runs /\ status[cur[w]] = "running"
    BY DEF Advances, IInv, Custody, SlotsOwnTheirRuns, Executing
<1>2. OpenLog(cur[w])
    BY <1>1 DEF IInv, LogsOpenUntilSettled, Terminal
<1>3. CASE UNCHANGED log
    BY <1>1, <1>2, <1>3 DEF OpenLog, IInv, TypeOK, Advances
<1>4. CASE \E e \in Progress : Append_(cur[w], <<e>>)
    <2>1. PICK e \in Progress : Append_(cur[w], <<e>>)
        BY <1>4
    <2>2. TypeOK
        BY DEF IInv
    <2>3. cur' = cur
        BY DEF Advances
    <2> QED
        BY <1>1, <1>2, <2>1, <2>2, <2>3, AppendProgress DEF OpenLog
<1> QED
    BY <1>1, <1>3, <1>4 DEF Advances

\* The invariant survives every step inside an execution.
LEMMA AdvanceIInv ==
    ASSUME IInv, NEW w \in Workers, NEW to, Advances(w, to)
    PROVE  IInv'
<1>1. /\ cur[w] \in Runs
      /\ status[cur[w]] = "running"
      /\ log' \in [Runs -> Seq(EventTypes)]
      /\ \A q \in Runs \ {cur[w]} : log'[q] = log[q]
      /\ OpenLog(cur[w])'
    BY AdvanceLogs
<1>2. /\ pc' = [pc EXCEPT ![w] = to]
      /\ to \in Executing
      /\ to \in Phases
      /\ pc[w] \in Executing
    BY DEF Advances, Goto, Phases
<1>3. UNCHANGED <<status, kind, parent, project, cancelRequested, outdated, nextRun, retried,
                  job, stalls, lock, toEnqueue, cur, faults, cancelledQueued, overtakenQueued>>
    BY DEF Advances, rowVars, queueVars, histVars
<1>4. \A r \in Runs : OpenLog(r) /\ r # cur[w] => OpenLog(r)'
    BY <1>1 DEF OpenLog
<1>5. TypeOK'
    <2>1. pc' \in [Workers -> Phases]
        BY <1>2 DEF IInv, TypeOK
    <2>2. sawNewer' \in [Workers -> BOOLEAN] /\ turns' \in [Workers -> 0..MaxTurns]
        BY DEF Advances, IInv, TypeOK
    <2>3. uploaded' \subseteq Runs
        BY <1>1 DEF Advances, IInv, TypeOK
    <2> QED
        BY <1>1, <1>3, <2>1, <2>2, <2>3 DEF IInv, TypeOK
<1>6. Custody'
    BY <1>1, <1>2, <1>3 DEF IInv, Custody, TypeOK
<1>7. SlotsOwnTheirRuns'
    <2>1. "announcing" \notin Executing
        BY DEF Executing
    <2>2. \A v \in Workers : pc'[v] = IF v = w THEN to ELSE pc[v]
        BY <1>2 DEF IInv, TypeOK
    <2>3. \A v \in Workers : pc[v] = "announcing" => cur[v] \in Runs \ {cur[w]}
        BY <1>1, <1>2, <2>1 DEF IInv, SlotsOwnTheirRuns, Custody
    <2> QED
        BY <1>1, <1>2, <1>3, <1>4, <2>1, <2>2, <2>3 DEF IInv, SlotsOwnTheirRuns
<1>8. RowsConsistent'
    BY <1>3 DEF IInv, RowsConsistent, PlansOf
<1>9. LogsOpenUntilSettled'
    BY <1>1, <1>3, <1>4 DEF IInv, LogsOpenUntilSettled
<1>10. TerminalEventClosesLog'
    BY <1>1, <1>3 DEF IInv, TerminalEventClosesLog, OpenLog
<1>11. SlotsOnPath'
    BY <1>1, <1>2, <1>3 DEF Advances, IInv, SlotsOnPath, TypeOK
<1>12. ArtifactsStored'
    <2>1. uploaded \subseteq Runs
        BY DEF IInv, TypeOK
    <2> QED
        BY <1>3, <1>1, <2>1 DEF Advances, IInv, ArtifactsStored
<1>13. CancelsPending'
    <2>1. \A v \in Workers \ {w} : turns'[v] = turns[v] /\ pc'[v] = pc[v]
        BY <1>2 DEF Advances, IInv, TypeOK
    <2>2. to \notin {"idle", "delivered"} /\ pc'[w] = to
        BY <1>2 DEF Executing, IInv, TypeOK
    <2> QED
        BY <1>3, <2>1, <2>2 DEF Advances, IInv, CancelsPending
<1>14. OvertakenPending'
    <2>1. \A v \in Workers \ {w} : sawNewer'[v] = sawNewer[v] /\ pc'[v] = pc[v]
        BY <1>2 DEF Advances, IInv, TypeOK
    <2>2. pc'[w] = to
        BY <1>2 DEF IInv, TypeOK
    <2> QED
        BY <1>3, <2>1, <2>2 DEF Advances, IInv, OvertakenPending
<1> QED
    BY <1>5, <1>6, <1>7, <1>8, <1>9, <1>10, <1>11, <1>12, <1>13, <1>14 DEF IInv

\* The steps of a slot that do not claim, settle or release its run.
InsideStep(w) ==
    \/ EmitStarted(w) \/ ReadRequest(w) \/ ReadRequestFails(w)
    \/ EmitAgentStarted(w) \/ PlanningCheck(w) \/ PlanningDelta(w) \/ PlanningRetry(w)
    \/ PlanningResult(w) \/ EmitAgentStopped(w)
    \/ LookupPlan(w) \/ EmitGenerating(w) \/ GenerationCheck(w) \/ GenerationTurn(w)
    \/ GenerationResult(w) \/ CheckGenerated(w) \/ EmitSandboxCreated(w) \/ SandboxFails(w)
    \/ SandboxReports(w) \/ EmitSandboxValidated(w) \/ CheckBundle(w) \/ EmitUploading(w)
    \/ Upload(w) \/ UploadFails(w)

\* Where an execution may go next: the conditions of Advances on control points.
MayGo(w, to) ==
    /\ to \in Executing
    /\ to \in PlanningPhases => kind[cur[w]] = "planning"
    /\ to \in ExecutionPhases => kind[cur[w]] = "execution"
    /\ cur[w] \in cancelledQueued => to \in BeforeFirstCheck \cup Aborting
    /\ cur[w] \in overtakenQueued => to \in {"claimed", "reading"} \cup Aborting

LEMMA SlotTypes ==
    ASSUME IInv, NEW w \in Workers
    PROVE  /\ sawNewer[w] \in BOOLEAN
           /\ sawNewer = [sawNewer EXCEPT ![w] = sawNewer[w]]
           /\ turns[w] \in 0..MaxTurns
           /\ turns = [turns EXCEPT ![w] = turns[w]]
           /\ pc[w] \in Executing /\ cur[w] \in cancelledQueued => turns[w] = 0
BY DEF IInv, TypeOK, CancelsPending

\* A step or an emission that leads from one control point to another.
Moves(w, from, to) == Step(w, from, to) \/ \E e \in Progress : Emit(w, from, e, to)

LEMMA MoveAdvances ==
    ASSUME IInv, NEW w \in Workers, NEW from \in Executing, NEW to, to # "saving",
           Moves(w, from, to), MayGo(w, to) \/ to \in Aborting
    PROVE  Advances(w, to)
<1>1. to \in Executing /\ (to \in Aborting => to \notin PlanningPhases \cup ExecutionPhases)
    BY DEF MayGo, Aborting, Executing, PlanningPhases, ExecutionPhases
<1>2. pc[w] \in Executing /\ Goto(w, to)
    BY DEF Moves, Step, Emit
<1>3. /\ UNCHANGED log \/ \E e \in Progress : Append_(cur[w], <<e>>)
      /\ UNCHANGED <<rowVars, uploaded, queueVars, toEnqueue, cur, faults, histVars>>
      /\ UNCHANGED <<sawNewer, turns>>
    BY DEF Moves, Step, Emit
<1> QED
    BY <1>1, <1>2, <1>3, SlotTypes DEF Advances, MayGo

LEMMA AbortAdvances ==
    ASSUME IInv, NEW w \in Workers, NEW from \in Executing, NEW to \in Aborting,
           Moves(w, from, to)
    PROVE  Advances(w, to)
BY MoveAdvances DEF Aborting

\* What the control point says of a slot's run.
LEMMA PathFacts ==
    ASSUME IInv, NEW w \in Workers
    PROVE  /\ pc[w] \in PlanningPhases => kind[cur[w]] = "planning"
           /\ pc[w] \in ExecutionPhases => kind[cur[w]] = "execution"
           /\ pc[w] \in Executing /\ cur[w] \in cancelledQueued =>
                 /\ pc[w] \in BeforeFirstCheck \cup Aborting
                 /\ turns[w] = 0
                 /\ cancelRequested[cur[w]]
           /\ pc[w] \in Executing /\ cur[w] \in overtakenQueued =>
                 /\ \/ pc[w] \in {"claimed", "reading"} \cup Aborting
                    \/ pc[w] = "lookup" /\ sawNewer[w]
                 /\ kind[cur[w]] = "execution"
                 /\ parent[cur[w]] \in outdated
BY DEF IInv, SlotsOnPath, CancelsPending, OvertakenPending

LEMMA ReadRequestAdvances ==
    ASSUME IInv, NEW w \in Workers, ReadRequest(w)
    PROVE  \E to \in Executing : Advances(w, to)
<1> DEFINE to == IF kind[cur[w]] = "execution" THEN "lookup" ELSE "planStart"
<1>1. /\ pc[w] = "reading"
      /\ pc[w] \in Executing
      /\ sawNewer' = [sawNewer EXCEPT ![w] = parent[cur[w]] \in outdated]
      /\ Goto(w, to)
      /\ UNCHANGED <<rowVars, log, uploaded, queueVars, toEnqueue, cur, turns, faults, histVars>>
    BY DEF ReadRequest, Executing
<1>2. kind[cur[w]] \in {"planning", "execution"}
    BY <1>1 DEF IInv, Custody, TypeOK
<1>3. /\ to \in Executing /\ to # "saving"
      /\ to \in PlanningPhases => kind[cur[w]] = "planning"
      /\ to \in ExecutionPhases => kind[cur[w]] = "execution"
      /\ to \in BeforeFirstCheck
    BY <1>2 DEF Executing, PlanningPhases, ExecutionPhases, BeforeFirstCheck
<1>4. cur[w] \in overtakenQueued => to = "lookup" /\ sawNewer'[w]
    BY <1>1, PathFacts DEF IInv, TypeOK
<1>5. \E b \in BOOLEAN : sawNewer' = [sawNewer EXCEPT ![w] = b]
    <2>1. (parent[cur[w]] \in outdated) \in BOOLEAN
        OBVIOUS
    <2> QED
        BY <1>1, <2>1, Zenon
<1>6. \E n \in 0..MaxTurns : turns' = [turns EXCEPT ![w] = n]
    BY <1>1, SlotTypes
<1>7. cur[w] \in cancelledQueued => turns'[w] = 0
    BY <1>1, PathFacts
<1>8. Advances(w, to)
    BY <1>1, <1>3, <1>4, <1>5, <1>6, <1>7 DEF Advances
<1> QED
    BY <1>3, <1>8

\* Checking for a cancellation leads to "cancelling" or onwards; a run that
\* was cancelled in the queue never gets past its first check.
LEMMA CheckAdvances ==
    ASSUME IInv, NEW w \in Workers, NEW from \in Executing, NEW to, to # "saving",
           CheckCancelled(w, from, to),
           cur[w] \notin cancelledQueued => MayGo(w, to)
    PROVE  \E t \in Executing : Advances(w, t)
<1>1. CASE Step(w, from, "cancelling")
    BY <1>1, AbortAdvances DEF Moves, Aborting, Executing
<1>2. CASE Step(w, from, to) /\ ~cancelRequested[cur[w]]
    <2>1. cur[w] \notin cancelledQueued
        BY <1>2, PathFacts DEF Step
    <2> QED
        BY <1>2, <2>1, MoveAdvances DEF Moves, MayGo
<1> QED
    BY <1>1, <1>2 DEF CheckCancelled

\* A provider turn: only a run that was not cancelled in the queue takes one.
LEMMA TurnAdvances ==
    ASSUME IInv, NEW w \in Workers, NEW from \in Executing \ (BeforeFirstCheck \cup Aborting),
           NEW to, to # "saving",
           Turn(w, from, to), UNCHANGED log \/ \E e \in Progress : Append_(cur[w], <<e>>),
           cur[w] \notin cancelledQueued => MayGo(w, to)
    PROVE  \E t \in Executing : Advances(w, t)
<1>1. /\ pc[w] = from
      /\ turns[w] < MaxTurns
      /\ turns' = [turns EXCEPT ![w] = turns[w] + 1]
      /\ Goto(w, to)
      /\ UNCHANGED <<rowVars, uploaded, queueVars, toEnqueue, cur, sawNewer, faults, histVars>>
    BY DEF Turn, TurnWithin
<1>2. cur[w] \notin cancelledQueued
    BY <1>1, PathFacts
<1>3. turns[w] + 1 \in 0..MaxTurns
    BY <1>1, SlotTypes, ConstantsAssumption
<1>4. \E b \in BOOLEAN : sawNewer' = [sawNewer EXCEPT ![w] = b]
    BY <1>1, SlotTypes
<1>5. Advances(w, to)
    BY <1>1, <1>2, <1>3, <1>4 DEF Advances, MayGo
<1> QED
    BY <1>5 DEF Advances

LEMMA RequestStepAdvances ==
    ASSUME IInv, NEW w \in Workers, EmitStarted(w) \/ ReadRequest(w) \/ ReadRequestFails(w)
    PROVE  \E to \in Executing : Advances(w, to)
<1>1. CASE EmitStarted(w)
    <2>1. Moves(w, "claimed", "reading") /\ pc[w] = "claimed"
        BY <1>1 DEF EmitStarted, Moves, Emit, Progress, EventTypes, TerminalEvents
    <2>2. MayGo(w, "reading") /\ "claimed" \in Executing
        BY DEF MayGo, Executing, PlanningPhases, ExecutionPhases, BeforeFirstCheck
    <2> QED
        BY <2>1, <2>2, MoveAdvances DEF Executing
<1>2. CASE ReadRequestFails(w)
    <2>1. Moves(w, "reading", "failing")
        BY <1>2 DEF ReadRequestFails, Moves
    <2> QED
        BY <2>1, AbortAdvances DEF Executing, Aborting
<1> QED
    BY <1>1, <1>2, ReadRequestAdvances

\* Planning phases other than the first two lie behind a cancellation check.
LEMMA PlanningMayGo ==
    ASSUME IInv, NEW w \in Workers, pc[w] \in PlanningPhases, NEW to \in PlanningPhases,
           to \in BeforeFirstCheck \/ cur[w] \notin cancelledQueued
    PROVE  MayGo(w, to)
<1>1. pc[w] \in Executing /\ pc[w] \notin {"claimed", "reading", "lookup"} \cup Aborting
    BY DEF PlanningPhases, Executing, Aborting
<1>2. cur[w] \notin overtakenQueued /\ kind[cur[w]] = "planning"
    BY <1>1, PathFacts
<1>3. to \in Executing \ ExecutionPhases
    BY DEF PlanningPhases, ExecutionPhases, Executing
<1> QED
    BY <1>2, <1>3 DEF MayGo

\* The same of execution phases.
LEMMA ExecutionMayGo ==
    ASSUME IInv, NEW w \in Workers, pc[w] \in ExecutionPhases, NEW to \in ExecutionPhases,
           pc[w] = "lookup" => ~sawNewer[w],
           to \in BeforeFirstCheck \/ cur[w] \notin cancelledQueued
    PROVE  MayGo(w, to)
<1>1. pc[w] \in Executing /\ pc[w] \notin {"claimed", "reading"} \cup Aborting
    BY DEF ExecutionPhases, Executing, Aborting
<1>2. cur[w] \notin overtakenQueued /\ kind[cur[w]] = "execution"
    BY <1>1, PathFacts
<1>3. to \in Executing \ PlanningPhases
    BY DEF PlanningPhases, ExecutionPhases, Executing
<1> QED
    BY <1>2, <1>3 DEF MayGo

\* The names of the control points and events used below.
LEMMA PlanningNames ==
    /\ PlanningPhases \subseteq Executing
    /\ Aborting \subseteq Executing
    /\ "saving" \notin PlanningPhases \cup Aborting
    /\ {"planStart", "planCheck", "planStream", "planRefused", "planLimit", "planSaving"}
          \subseteq PlanningPhases
    /\ {"planStart", "planCheck"} \subseteq BeforeFirstCheck
    /\ {"failing", "cancelling"} \subseteq Aborting
    /\ {"planStream", "planRefused", "planLimit", "planSaving"} \cap
          (BeforeFirstCheck \cup Aborting) = {}
    /\ {"agent.started", "assistant.delta", "agent.refused", "agent.limit_exceeded"}
          \subseteq Progress
BY DEF PlanningPhases, Executing, Aborting, BeforeFirstCheck, Progress, EventTypes, TerminalEvents

LEMMA PlanningStepAdvances ==
    ASSUME IInv, NEW w \in Workers, PlanningStep(w), ~SavePlan(w)
    PROVE  \E to \in Executing : Advances(w, to)
<1>1. CASE EmitAgentStarted(w)
    <2>1. Moves(w, "planStart", "planCheck") /\ pc[w] = "planStart"
        BY <1>1, PlanningNames DEF EmitAgentStarted, Moves, Emit
    <2>2. MayGo(w, "planCheck")
        BY <2>1, PlanningNames, PlanningMayGo
    <2> QED
        BY <2>1, <2>2, PlanningNames, MoveAdvances
<1>2. CASE PlanningCheck(w)
    <2>1. CheckCancelled(w, "planCheck", "planStream") /\ pc[w] = "planCheck"
        BY <1>2 DEF PlanningCheck, CheckCancelled, Step
    <2>2. cur[w] \notin cancelledQueued => MayGo(w, "planStream")
        BY <2>1, PlanningNames, PlanningMayGo
    <2> QED
        BY <2>1, <2>2, PlanningNames, CheckAdvances
<1>3. CASE PlanningDelta(w)
    <2>1. PICK next \in {"planStream", "planCheck"} :
              Turn(w, "planStream", next) /\ Append_(cur[w], <<"assistant.delta">>)
        BY <1>3 DEF PlanningDelta
    <2>2. pc[w] = "planStream"
        BY <2>1 DEF Turn, TurnWithin
    <2>3. cur[w] \notin cancelledQueued => MayGo(w, next)
        BY <2>2, PlanningNames, PlanningMayGo
    <2>4. \E e \in Progress : Append_(cur[w], <<e>>)
        BY <2>1, PlanningNames
    <2> QED
        BY <2>1, <2>3, <2>4, PlanningNames, TurnAdvances
<1>4. CASE PlanningRetry(w)
    <2>1. Turn(w, "planStream", "planCheck") /\ UNCHANGED log /\ pc[w] = "planStream"
        BY <1>4 DEF PlanningRetry, Turn, TurnWithin
    <2>2. cur[w] \notin cancelledQueued => MayGo(w, "planCheck")
        BY <2>1, PlanningNames, PlanningMayGo
    <2> QED
        BY <2>1, <2>2, PlanningNames, TurnAdvances
<1>5. CASE PlanningResult(w)
    <2>1. PICK to \in {"planSaving", "planRefused", "planLimit", "failing"} :
              Step(w, "planStream", to)
        BY <1>5 DEF PlanningResult
    <2>2. Moves(w, "planStream", to) /\ pc[w] = "planStream"
        BY <2>1 DEF Moves, Step
    <2>3. cur[w] \notin cancelledQueued
        BY <2>2, PathFacts, PlanningNames
    <2>4. MayGo(w, to) \/ to \in Aborting
        BY <2>2, <2>3, PlanningNames, PlanningMayGo
    <2> QED
        BY <2>2, <2>4, PlanningNames, MoveAdvances
<1>6. CASE EmitAgentStopped(w)
    <2>1. Moves(w, "planRefused", "failing") \/ Moves(w, "planLimit", "failing")
        BY <1>6, PlanningNames DEF EmitAgentStopped, Moves
    <2> QED
        BY <2>1, PlanningNames, AbortAdvances
<1> QED
    BY <1>1, <1>2, <1>3, <1>4, <1>5, <1>6 DEF PlanningStep

LEMMA ExecutionNames ==
    /\ ExecutionPhases \subseteq Executing
    /\ Aborting \subseteq Executing
    /\ "saving" \notin Aborting
    /\ {"lookup", "genStart", "genCheck", "genCall", "generated", "sandboxing", "validating",
        "validated", "bundled", "uploadStart", "uploading", "saving"} \subseteq ExecutionPhases
    /\ {"lookup", "genStart", "genCheck"} \subseteq BeforeFirstCheck
    /\ {"failing", "cancelling"} \subseteq Aborting
    /\ {"genCall", "generated", "sandboxing", "validating", "validated", "bundled",
        "uploadStart", "uploading"} \cap (BeforeFirstCheck \cup Aborting) = {}
    /\ {"artifact.generating", "sandbox.created", "sandbox.validated", "artifact.uploading"}
          \subseteq Progress
BY DEF ExecutionPhases, Executing, Aborting, BeforeFirstCheck, Progress, EventTypes, TerminalEvents

\* An emission leads on within the execution phases behind the first check.
LEMMA EmissionAdvances ==
    ASSUME IInv, NEW w \in Workers, NEW from \in ExecutionPhases, NEW to \in ExecutionPhases,
           to # "saving", Moves(w, from, to), from # "lookup",
           to \in BeforeFirstCheck \/ from \notin BeforeFirstCheck \cup Aborting
    PROVE  \E t \in Executing : Advances(w, t)
<1>1. pc[w] = from
    BY DEF Moves, Step, Emit
<1>2. to \in BeforeFirstCheck \/ cur[w] \notin cancelledQueued
    BY <1>1, PathFacts, ExecutionNames
<1>3. MayGo(w, to)
    BY <1>1, <1>2, ExecutionMayGo
<1> QED
    BY <1>3, ExecutionNames, MoveAdvances

LEMMA ExecutionStepAdvances ==
    ASSUME IInv, NEW w \in Workers, ExecutionStep(w), ~SaveArtifact(w)
    PROVE  \E to \in Executing : Advances(w, to)
<1> DEFINE Go(from, to) == Moves(w, from, to) /\ pc[w] = from
<1>1. CASE LookupPlan(w)
    <2>1. Go("lookup", "failing") \/ (Go("lookup", "genStart") /\ ~sawNewer[w])
        BY <1>1 DEF LookupPlan, Moves, Step
    <2>2. ~sawNewer[w] /\ pc[w] = "lookup" => MayGo(w, "genStart")
        BY ExecutionNames, ExecutionMayGo
    <2> QED
        BY <2>1, <2>2, ExecutionNames, MoveAdvances
<1>2. CASE EmitGenerating(w)
    <2>1. Moves(w, "genStart", "genCheck")
        BY <1>2, ExecutionNames DEF EmitGenerating, Moves
    <2> QED
        BY <2>1, ExecutionNames, EmissionAdvances
<1>3. CASE GenerationCheck(w)
    <2>1. CASE CheckCancelled(w, "genCheck", "genCall")
        <3>1. pc[w] = "genCheck"
            BY <2>1 DEF CheckCancelled, Step
        <3>2. cur[w] \notin cancelledQueued => MayGo(w, "genCall")
            BY <3>1, ExecutionNames, ExecutionMayGo
        <3> QED
            BY <2>1, <3>2, ExecutionNames, CheckAdvances
    <2>2. CASE Step(w, "genCheck", "generated") /\ turns[w] > 0
        <3>1. Moves(w, "genCheck", "generated") /\ pc[w] = "genCheck"
            BY <2>2 DEF Moves, Step
        <3>2. cur[w] \notin cancelledQueued
            BY <2>2, <3>1, PathFacts, ExecutionNames
        <3>3. MayGo(w, "generated")
            BY <3>1, <3>2, ExecutionNames, ExecutionMayGo
        <3> QED
            BY <3>1, <3>3, ExecutionNames, MoveAdvances
    <2> QED
        BY <1>3, <2>1, <2>2 DEF GenerationCheck
<1>4. CASE GenerationTurn(w)
    <2>1. Turn(w, "genCall", "genCheck") /\ UNCHANGED log /\ pc[w] = "genCall"
        BY <1>4 DEF GenerationTurn, Turn, TurnWithin
    <2>2. cur[w] \notin cancelledQueued => MayGo(w, "genCheck")
        BY <2>1, ExecutionNames, ExecutionMayGo
    <2> QED
        BY <2>1, <2>2, ExecutionNames, TurnAdvances
<1>5. CASE GenerationResult(w)
    <2>1. Moves(w, "genCall", "generated") \/ Moves(w, "genCall", "failing")
        BY <1>5 DEF GenerationResult, Moves
    <2> QED
        BY <2>1, ExecutionNames, EmissionAdvances, AbortAdvances
<1>6. CASE CheckGenerated(w)
    <2> DEFINE to == IF IsFileRun(cur[w]) THEN "uploadStart" ELSE "sandboxing"
    <2>1. CheckCancelled(w, "generated", to) /\ pc[w] = "generated"
        BY <1>6 DEF CheckGenerated
    <2>2. to \in ExecutionPhases /\ to # "saving"
        BY ExecutionNames
    <2>3. cur[w] \notin cancelledQueued => MayGo(w, to)
        BY <2>1, <2>2, ExecutionNames, ExecutionMayGo
    <2> HIDE DEF to
    <2> QED
        BY <2>1, <2>2, <2>3, ExecutionNames, CheckAdvances
<1>7. CASE EmitSandboxCreated(w) \/ SandboxReports(w) \/ EmitSandboxValidated(w) \/ EmitUploading(w)
    <2>1. \/ Moves(w, "sandboxing", "validating")
          \/ Moves(w, "validating", "validated")
          \/ Moves(w, "validated", "bundled")
          \/ Moves(w, "uploadStart", "uploading")
        BY <1>7, ExecutionNames
        DEF EmitSandboxCreated, SandboxReports, EmitSandboxValidated, EmitUploading, Moves
    <2> QED
        BY <2>1, ExecutionNames, EmissionAdvances
<1>8. CASE SandboxFails(w) \/ UploadFails(w)
    <2>1. \/ Moves(w, "sandboxing", "failing")
          \/ Moves(w, "validating", "failing")
          \/ Moves(w, "uploading", "failing")
        BY <1>8 DEF SandboxFails, UploadFails, Moves
    <2> QED
        BY <2>1, ExecutionNames, AbortAdvances
<1>9. CASE CheckBundle(w)
    <2>1. CASE Step(w, "bundled", "failing")
        BY <2>1, ExecutionNames, AbortAdvances DEF Moves
    <2>2. CASE CheckCancelled(w, "bundled", "uploadStart")
        <3>1. pc[w] = "bundled"
            BY <2>2 DEF CheckCancelled, Step
        <3>2. cur[w] \notin cancelledQueued => MayGo(w, "uploadStart")
            BY <3>1, ExecutionNames, ExecutionMayGo
        <3> QED
            BY <2>2, <3>2, ExecutionNames, CheckAdvances
    <2> QED
        BY <1>9, <2>1, <2>2 DEF CheckBundle
<1>10. CASE Upload(w)
    <2>1. /\ pc[w] = "uploading"
          /\ uploaded' = uploaded \cup {cur[w]}
          /\ Goto(w, "saving")
          /\ UNCHANGED <<rowVars, log, queueVars, toEnqueue, cur, sawNewer, turns, faults, histVars>>
        BY <1>10 DEF Upload
    <2>2. pc[w] \in Executing /\ "saving" \notin PlanningPhases
        BY <2>1, ExecutionNames DEF PlanningPhases
    <2>3. cur[w] \notin cancelledQueued \cup overtakenQueued
        BY <2>1, <2>2, PathFacts, ExecutionNames
    <2>4. kind[cur[w]] = "execution"
        BY <2>1, PathFacts, ExecutionNames
    <2>5. Advances(w, "saving")
        BY <2>1, <2>2, <2>3, <2>4, ExecutionNames, SlotTypes DEF Advances
    <2> QED
        BY <2>5, ExecutionNames
<1> QED
    BY <1>1, <1>2, <1>3, <1>4, <1>5, <1>6, <1>7, <1>8, <1>9, <1>10 DEF ExecutionStep

-----------------------------------------------------------------------------
(* Steps that change neither rows, logs nor slots, and slots set free.       *)

LEMMA QuietIInv ==
    ASSUME IInv, TypeOK', UNCHANGED <<rowVars, log, uploaded, slotVars, histVars>>
    PROVE  IInv'
<1>1. UNCHANGED <<status, kind, parent, project, cancelRequested, outdated, nextRun, log,
                  uploaded, pc, cur, sawNewer, turns, cancelledQueued, overtakenQueued>>
    BY DEF rowVars, slotVars, histVars
<1>2. /\ Custody' /\ SlotsOwnTheirRuns' /\ RowsConsistent'
      /\ LogsOpenUntilSettled' /\ TerminalEventClosesLog'
    BY <1>1 DEF IInv, Custody, SlotsOwnTheirRuns, RowsConsistent, LogsOpenUntilSettled,
                TerminalEventClosesLog, OpenLog, PlansOf
<1>3. SlotsOnPath' /\ ArtifactsStored' /\ CancelsPending' /\ OvertakenPending'
    BY <1>1 DEF IInv, SlotsOnPath, ArtifactsStored, CancelsPending, OvertakenPending
<1> QED
    BY <1>2, <1>3 DEF IInv

LEMMA FreeIInv ==
    ASSUME IInv, NEW w \in Workers, FreeSlot(w), TypeOK',
           UNCHANGED <<rowVars, log, uploaded, histVars>>
    PROVE  IInv'
<1>1. UNCHANGED <<status, kind, parent, project, cancelRequested, outdated, nextRun, log,
                  uploaded, cancelledQueued, overtakenQueued>>
    BY DEF rowVars, histVars
<1>2. /\ pc'[w] = "idle" /\ turns'[w] = 0
      /\ \A v \in Workers \ {w} :
            pc'[v] = pc[v] /\ cur'[v] = cur[v] /\ turns'[v] = turns[v] /\ sawNewer'[v] = sawNewer[v]
    BY DEF FreeSlot, IInv, TypeOK
<1>3. "idle" \notin Executing \cup {"announcing"} \cup PlanningPhases \cup ExecutionPhases
    BY DEF Executing, PlanningPhases, ExecutionPhases
<1>4. RowsConsistent' /\ LogsOpenUntilSettled' /\ TerminalEventClosesLog'
    BY <1>1 DEF IInv, RowsConsistent, LogsOpenUntilSettled, TerminalEventClosesLog, OpenLog,
                PlansOf
<1>5. Custody'
    BY <1>2 DEF IInv, Custody
<1>6. SlotsOwnTheirRuns'
    BY <1>1, <1>2, <1>3 DEF IInv, SlotsOwnTheirRuns, OpenLog
<1>7. SlotsOnPath' /\ ArtifactsStored'
    BY <1>1, <1>2, <1>3 DEF IInv, SlotsOnPath, ArtifactsStored
<1>8. CancelsPending' /\ OvertakenPending'
    BY <1>1, <1>2, <1>3 DEF IInv, CancelsPending, OvertakenPending
<1> QED
    BY <1>4, <1>5, <1>6, <1>7, <1>8 DEF IInv

LEMMA QueueIInv == ASSUME IInv, QueueStep PROVE IInv'
<1>1. TypeOK'
    BY QueueTypeOK DEF IInv
<1>2. UNCHANGED <<rowVars, log, uploaded, slotVars, histVars>>
    BY DEF QueueStep, ReconcileQueuedRuns, ReconcileRuns, LoseLock, StalledJob, ExpireFailedJob
<1> QED
    BY <1>1, <1>2, QuietIInv

LEMMA DeliverIInv ==
    ASSUME IInv, NEW w \in Workers, NEW r \in Runs, Deliver(w, r) PROVE IInv'
<1>1. UNCHANGED <<status, kind, parent, project, cancelRequested, outdated, nextRun, retried,
                  log, uploaded, sawNewer, turns, faults, cancelledQueued, overtakenQueued>>
    BY DEF Deliver, rowVars, histVars
<1>2. /\ pc[w] = "idle" /\ pc'[w] = "delivered" /\ cur'[w] = r
      /\ \A v \in Workers \ {w} : pc'[v] = pc[v] /\ cur'[v] = cur[v]
    BY DEF Deliver, IInv, TypeOK
<1>3. "delivered" \notin Executing \cup {"announcing"} \cup PlanningPhases \cup ExecutionPhases
    BY DEF Executing, PlanningPhases, ExecutionPhases
<1>4. TypeOK'
    BY <1>1 DEF Deliver, IInv, TypeOK, Phases
<1>5. RowsConsistent' /\ LogsOpenUntilSettled' /\ TerminalEventClosesLog'
    BY <1>1 DEF IInv, RowsConsistent, LogsOpenUntilSettled, TerminalEventClosesLog, OpenLog,
                PlansOf
<1>6. Custody'
    BY <1>2 DEF IInv, Custody
<1>7. SlotsOwnTheirRuns'
    BY <1>1, <1>2, <1>3 DEF IInv, SlotsOwnTheirRuns, OpenLog
<1>8. SlotsOnPath' /\ ArtifactsStored'
    BY <1>1, <1>2, <1>3 DEF IInv, SlotsOnPath, ArtifactsStored
<1>9. CancelsPending' /\ OvertakenPending'
    BY <1>1, <1>2, <1>3 DEF IInv, CancelsPending, OvertakenPending
<1> QED
    BY <1>4, <1>5, <1>6, <1>7, <1>8, <1>9 DEF IInv

LEMMA LeaveIInv ==
    ASSUME IInv, NEW w \in Workers, CompleteJob(w) \/ ProcessRunThrows(w) \/ Crash(w)
    PROVE  IInv'
<1>1. FreeSlot(w) /\ UNCHANGED <<rowVars, log, uploaded, histVars>>
    BY DEF CompleteJob, ProcessRunThrows, Crash
<1>2. pc[w] # "idle" /\ cur[w] \in Runs
    BY DEF CompleteJob, ProcessRunThrows, Crash, IInv, Custody
<1>3. /\ pc' \in [Workers -> Phases]
      /\ cur' \in [Workers -> Runs \cup {NoRun}]
      /\ sawNewer' \in [Workers -> BOOLEAN]
      /\ turns' \in [Workers -> 0..MaxTurns]
    BY <1>1, FreeType DEF IInv
<1>4. /\ job' \in [Runs -> {"none", "waiting", "active", "failed"}]
      /\ stalls' \in [Runs -> {0, 1}]
      /\ lock' \in [Runs -> Workers \cup {NoWorker}]
    <2>1. CASE ReleaseJob(w, "none") \/ ReleaseJob(w, "failed")
        BY <1>2, <2>1, ReleaseType DEF IInv
    <2>2. CASE Crash(w)
        BY <2>2 DEF Crash, IInv, TypeOK
    <2> QED
        BY <2>1, <2>2 DEF CompleteJob, ProcessRunThrows
<1>5. faults' \in Seq(FaultKinds) /\ Len(faults') <= MaxFaults /\ UNCHANGED toEnqueue
    <2>1. faults \in Seq(FaultKinds) /\ Len(faults) <= MaxFaults
        BY DEF IInv, TypeOK
    <2>2. CASE CompleteJob(w)
        BY <2>1, <2>2 DEF CompleteJob
    <2>3. CASE ProcessRunThrows(w)
        BY <2>1, <2>3, ConstantsAssumption DEF ProcessRunThrows, Fault
    <2>4. CASE Crash(w)
        BY <2>1, <2>4, ConstantsAssumption DEF Crash, Fault
    <2> QED
        BY <2>2, <2>3, <2>4
<1>6. TypeOK'
    BY <1>1, <1>3, <1>4, <1>5 DEF IInv, TypeOK, rowVars, histVars
<1> QED
    BY <1>1, <1>6, FreeIInv

-----------------------------------------------------------------------------
(* Steps that claim or settle a run.                                         *)

\* An active row that changes its status but stays an existing one leaves the
\* table consistent.
LEMMA RowsAfterUpdate ==
    ASSUME IInv, NEW r \in Runs, status[r] \in Active, NEW s \in Active \cup Terminal,
           status' = [status EXCEPT ![r] = s],
           UNCHANGED <<kind, parent, project, outdated, nextRun>>
    PROVE  /\ RowsConsistent'
           /\ status' \in [Runs -> Statuses]
           /\ status'[r] = s
           /\ \A q \in Runs \ {r} : status'[q] = status[q]
<1>1. /\ status'[r] = s
      /\ \A q \in Runs \ {r} : status'[q] = status[q]
      /\ status' \in [Runs -> Statuses]
    BY DEF IInv, TypeOK, Statuses
<1>2. "absent" \notin Active \cup Terminal /\ "succeeded" \notin Active
    BY DEF Active, Terminal
<1>3. \A p \in Projects : PlansOf(p) \subseteq {q \in Runs : project[q] = p /\ kind[q] = "planning"
                                               /\ status'[q] = "succeeded"}
    BY <1>1, <1>2 DEF PlansOf
<1>4. \A p \in Projects : \A q \in PlansOf(p) : q \in PlansOf(p)'
    BY <1>3 DEF PlansOf
<1>5. \A q \in Runs : project[q] \in Projects
    BY DEF IInv, TypeOK
<1>6. RowsConsistent
    BY DEF IInv
<1>7. \A q \in Runs : status'[q] # "absent" =>
          IF kind'[q] = "planning" THEN parent'[q] = NoRun ELSE parent'[q] \in PlansOf(project[q])'
    BY <1>1, <1>2, <1>4, <1>5, <1>6 DEF RowsConsistent
<1>8. RowsConsistent'
    BY <1>1, <1>2, <1>6, <1>7 DEF RowsConsistent, PlansOf
<1> QED
    BY <1>1, <1>8

LEMMA ClaimIInv == ASSUME IInv, NEW w \in Workers, ClaimRun(w) PROVE IInv'
<1> DEFINE r == cur[w]
<1>1. /\ pc[w] = "delivered" /\ r \in Runs
      /\ UNCHANGED <<kind, parent, project, cancelRequested, outdated, nextRun, retried, log,
                     uploaded, job, stalls, lock, toEnqueue, cur, sawNewer, turns, faults,
                     cancelledQueued, overtakenQueued>>
    BY DEF ClaimRun, ClaimIf, IInv, Custody, queueVars, histVars
<1>2. CASE status[r] = "queued"
    <2>1. status' = [status EXCEPT ![r] = "running"] /\ Goto(w, "claimed")
        BY <1>2 DEF ClaimRun, ClaimIf
    <2>2. /\ RowsConsistent'
          /\ status' \in [Runs -> Statuses]
          /\ status'[r] = "running"
          /\ \A q \in Runs \ {r} : status'[q] = status[q]
        BY <1>1, <1>2, <2>1, RowsAfterUpdate DEF Active
    <2>3. /\ pc'[w] = "claimed" /\ pc' \in [Workers -> Phases]
          /\ \A v \in Workers \ {w} : pc'[v] = pc[v]
        BY <2>1 DEF Goto, IInv, TypeOK, Phases, Executing
    <2>4. \A v \in Workers : pc[v] \in Executing \cup {"announcing"} => cur[v] # r /\ cur[v] \in Runs
        BY <1>2 DEF IInv, SlotsOwnTheirRuns, Custody, Executing
    <2>5. TypeOK'
        BY <1>1, <2>2, <2>3 DEF IInv, TypeOK
    <2>6. Custody'
        BY <1>1, <2>3 DEF IInv, Custody
    <2>7. SlotsOwnTheirRuns'
        BY <1>1, <2>2, <2>3, <2>4 DEF IInv, SlotsOwnTheirRuns, OpenLog
    <2>8. LogsOpenUntilSettled' /\ TerminalEventClosesLog'
        <3>1. OpenLog(r)
            BY <1>1, <1>2 DEF IInv, LogsOpenUntilSettled, Terminal
        <3> QED
            BY <1>1, <2>2, <3>1 DEF IInv, LogsOpenUntilSettled, TerminalEventClosesLog, OpenLog
    <2>9. SlotsOnPath' /\ ArtifactsStored'
        <3>1. uploaded \subseteq Runs
            BY DEF IInv, TypeOK
        <3>2. SlotsOnPath'
            BY <1>1, <2>2, <2>3 DEF IInv, SlotsOnPath, PlanningPhases, ExecutionPhases
        <3> QED
            BY <1>1, <2>2, <2>3, <3>1, <3>2 DEF IInv, ArtifactsStored
    <2>10. CancelsPending' /\ OvertakenPending'
        <3>1. "claimed" \in BeforeFirstCheck /\ "claimed" \notin {"idle", "delivered"}
            BY DEF BeforeFirstCheck
        <3>2. cancelledQueued \subseteq Runs /\ overtakenQueued \subseteq Runs
            BY DEF IInv, TypeOK
        <3> QED
            BY <1>1, <2>2, <2>3, <3>1, <3>2 DEF IInv, CancelsPending, OvertakenPending
    <2> QED
        BY <2>2, <2>5, <2>6, <2>7, <2>8, <2>9, <2>10 DEF IInv
<1>3. CASE status[r] # "queued"
    <2>1. UNCHANGED status /\ Goto(w, "finishing")
        BY <1>3 DEF ClaimRun, ClaimIf
    <2>2. /\ pc'[w] = "finishing" /\ pc' \in [Workers -> Phases]
          /\ \A v \in Workers \ {w} : pc'[v] = pc[v]
        BY <2>1 DEF Goto, IInv, TypeOK, Phases
    <2>3. "finishing" \notin Executing \cup {"announcing"} \cup PlanningPhases \cup ExecutionPhases
        BY DEF Executing, PlanningPhases, ExecutionPhases
    <2>4. TypeOK' /\ Custody'
        BY <1>1, <2>1, <2>2 DEF IInv, TypeOK, Custody
    <2>5. RowsConsistent' /\ LogsOpenUntilSettled' /\ TerminalEventClosesLog'
        BY <1>1, <2>1 DEF IInv, RowsConsistent, LogsOpenUntilSettled, TerminalEventClosesLog,
                          OpenLog, PlansOf
    <2>6. SlotsOwnTheirRuns' /\ SlotsOnPath' /\ ArtifactsStored'
        BY <1>1, <2>1, <2>2, <2>3
        DEF IInv, SlotsOwnTheirRuns, OpenLog, SlotsOnPath, ArtifactsStored
    <2>7. CancelsPending' /\ OvertakenPending'
        BY <1>1, <2>1, <2>2, <2>3 DEF IInv, CancelsPending, OvertakenPending
    <2> QED
        BY <2>4, <2>5, <2>6, <2>7 DEF IInv
<1> QED
    BY <1>2, <1>3

\* Appending events of which the last and only the last is terminal closes an
\* open log.
LEMMA AppendTerminal ==
    ASSUME TypeOK, NEW r \in Runs, OpenLog(r), NEW t \in Seq(EventTypes), Len(t) > 0,
           t[Len(t)] \in TerminalEvents,
           \A j \in 1..Len(t) : t[j] \in TerminalEvents => j = Len(t),
           Append_(r, t)
    PROVE  /\ log' \in [Runs -> Seq(EventTypes)]
           /\ \A q \in Runs \ {r} : log'[q] = log[q]
           /\ \A i \in 1..Len(log'[r]) : log'[r][i] \in TerminalEvents =>
                 i = Len(log'[r]) /\ log'[r][i] = t[Len(t)]
           /\ Len(log'[r]) \in 1..Len(log'[r]) /\ log'[r][Len(log'[r])] = t[Len(t)]
<1>1. log[r] \in Seq(EventTypes) /\ log'[r] = log[r] \o t
    BY DEF TypeOK, Append_
<1> DEFINE l == log[r]
           m == log'[r]
<1>2. /\ m \in Seq(EventTypes)
      /\ Len(m) = Len(l) + Len(t)
      /\ \A i \in 1..Len(l) : m[i] = l[i]
      /\ \A i \in (Len(l) + 1)..(Len(l) + Len(t)) : m[i] = t[i - Len(l)]
    BY <1>1
<1>3. Len(l) \in Nat /\ Len(t) \in Nat
    BY <1>1
<1>4. ASSUME NEW i \in 1..Len(m), m[i] \in TerminalEvents
      PROVE  i = Len(m) /\ m[i] = t[Len(t)]
    <2>1. i \notin 1..Len(l)
        BY <1>2, <1>4 DEF OpenLog
    <2>2. i \in (Len(l) + 1)..(Len(l) + Len(t)) /\ i - Len(l) \in 1..Len(t)
        BY <1>2, <1>3, <2>1
    <2>3. t[i - Len(l)] \in TerminalEvents
        BY <1>2, <1>4, <2>2
    <2>4. i - Len(l) = Len(t)
        BY <2>2, <2>3
    <2> QED
        BY <1>2, <1>3, <2>2, <2>4
<1>5. Len(m) \in 1..Len(m) /\ m[Len(m)] = t[Len(t)]
    <2>1. /\ Len(m) \in 1..Len(m)
          /\ Len(m) \in (Len(l) + 1)..(Len(l) + Len(t))
          /\ Len(m) - Len(l) = Len(t)
        BY <1>2, <1>3
    <2>2. m[Len(m)] = t[Len(m) - Len(l)]
        BY <1>2, <2>1
    <2> QED
        BY <2>1, <2>2
<1>6. log' \in [Runs -> Seq(EventTypes)] /\ \A q \in Runs \ {r} : log'[q] = log[q]
    <2>1. log \in [Runs -> Seq(EventTypes)] /\ log[r] \o t \in Seq(EventTypes)
        BY <1>1, <1>2 DEF TypeOK
    <2> QED
        BY <2>1 DEF Append_
<1> QED
    BY <1>4, <1>5, <1>6

\* Facts about the slot that settles its run.
LEMMA OwnerFacts ==
    ASSUME IInv, NEW w \in Workers, pc[w] \in Executing
    PROVE  /\ cur[w] \in Runs
           /\ status[cur[w]] = "running"
           /\ OpenLog(cur[w])
           /\ \A v \in Workers \ {w} :
                 pc[v] \in Executing \cup {"announcing"} => cur[v] \in Runs \ {cur[w]}
<1>1. pc[w] # "idle" /\ \A v \in Workers : pc[v] \in Executing \cup {"announcing"} => pc[v] # "idle"
    BY DEF Executing
<1>2. cur[w] \in Runs /\ status[cur[w]] = "running"
    BY <1>1 DEF IInv, Custody, SlotsOwnTheirRuns
<1>3. OpenLog(cur[w])
    BY <1>2 DEF IInv, LogsOpenUntilSettled, Terminal
<1>4. \A v \in Workers \ {w} : pc[v] \in Executing \cup {"announcing"} => cur[v] \in Runs \ {cur[w]}
    BY <1>1 DEF IInv, Custody, SlotsOwnTheirRuns
<1> QED
    BY <1>2, <1>3, <1>4

LEMMA EventOfFacts ==
    /\ EventOf("succeeded") = "run.succeeded"
    /\ EventOf("failed") = "run.failed"
    /\ EventOf("cancelled") = "run.cancelled"
<1>1. "failed" # "succeeded" /\ "cancelled" # "succeeded" /\ "cancelled" # "failed"
    OBVIOUS
<1> QED
    BY <1>1, Zenon DEF EventOf

\* The success transaction (assistant message or artifact, row and events).
LEMMA SaveIInv ==
    ASSUME IInv, NEW w \in Workers, SavePlan(w) \/ SaveArtifact(w)
    PROVE  IInv'
<1> DEFINE r == cur[w]
<1>1. PICK first \in Progress : /\ status' = [status EXCEPT ![r] = "succeeded"]
                                /\ Append_(r, <<first, "run.succeeded">>)
    BY DEF SavePlan, SaveArtifact, SaveSuccess, Progress, EventTypes, TerminalEvents
<1>2. /\ Goto(w, "finishing")
      /\ UNCHANGED <<kind, parent, project, cancelRequested, outdated, nextRun, retried,
                     uploaded, job, stalls, lock, toEnqueue, cur, sawNewer, turns, faults,
                     cancelledQueued, overtakenQueued>>
    BY DEF SavePlan, SaveArtifact, SaveSuccess, queueVars, histVars
<1>3. \/ pc[w] = "planSaving" /\ pc[w] \in PlanningPhases
      \/ pc[w] = "saving" /\ pc[w] \in ExecutionPhases
    BY DEF SavePlan, SaveArtifact, SaveSuccess, PlanningPhases, ExecutionPhases
<1>4. pc[w] \in Executing /\ pc[w] \notin BeforeFirstCheck \cup Aborting
      /\ pc[w] \notin {"claimed", "reading", "lookup"}
    BY <1>3 DEF Executing, BeforeFirstCheck, Aborting
<1>5. r \notin cancelledQueued /\ r \notin overtakenQueued
    BY <1>4, PathFacts
<1>6. kind[r] = "execution" => r \in uploaded
    BY <1>3 DEF IInv, SlotsOnPath
<1>7. /\ r \in Runs /\ status[r] = "running" /\ OpenLog(r)
      /\ \A v \in Workers \ {w} :
            pc[v] \in Executing \cup {"announcing"} => cur[v] \in Runs \ {r}
    BY <1>4, OwnerFacts
<1>8. /\ RowsConsistent'
      /\ status' \in [Runs -> Statuses]
      /\ status'[r] = "succeeded"
      /\ \A q \in Runs \ {r} : status'[q] = status[q]
    BY <1>1, <1>2, <1>7, RowsAfterUpdate DEF Active, Terminal
<1>9. /\ log' \in [Runs -> Seq(EventTypes)]
      /\ \A q \in Runs \ {r} : log'[q] = log[q]
      /\ \A i \in 1..Len(log'[r]) : log'[r][i] \in TerminalEvents =>
            i = Len(log'[r]) /\ log'[r][i] = "run.succeeded"
    <2> DEFINE t == <<first, "run.succeeded">>
    <2>1. /\ t \in Seq(EventTypes) /\ Len(t) = 2
          /\ t[Len(t)] = "run.succeeded" /\ "run.succeeded" \in TerminalEvents
          /\ \A j \in 1..Len(t) : t[j] \in TerminalEvents => j = Len(t)
        BY DEF Progress, EventTypes, TerminalEvents
    <2> HIDE DEF t
    <2>2. Append_(r, t) /\ TypeOK
        BY <1>1 DEF t, IInv
    <2> QED
        BY <1>7, <2>1, <2>2, AppendTerminal
<1>10. /\ pc'[w] = "finishing" /\ pc' \in [Workers -> Phases]
       /\ \A v \in Workers \ {w} : pc'[v] = pc[v]
    BY <1>2 DEF Goto, IInv, TypeOK, Phases
<1>11. "finishing" \notin Executing \cup {"announcing"} \cup PlanningPhases \cup ExecutionPhases
    BY DEF Executing, PlanningPhases, ExecutionPhases
<1>12. TypeOK'
    BY <1>2, <1>8, <1>9, <1>10 DEF IInv, TypeOK
<1>13. Custody'
    BY <1>2, <1>7, <1>10 DEF IInv, Custody
<1>14. SlotsOwnTheirRuns'
    <2>1. \A v \in Workers : pc'[v] \in Executing \cup {"announcing"} =>
              /\ v # w /\ pc'[v] = pc[v] /\ cur'[v] = cur[v]
              /\ status'[cur[v]] = status[cur[v]]
              /\ log'[cur[v]] = log[cur[v]]
        BY <1>2, <1>7, <1>8, <1>9, <1>10, <1>11
    <2>2. cur' = cur
        BY <1>2
    <2> HIDE DEF r
    <2> QED
        BY <2>1, <2>2 DEF IInv, SlotsOwnTheirRuns, OpenLog
<1>15. LogsOpenUntilSettled'
    BY <1>8, <1>9 DEF IInv, LogsOpenUntilSettled, OpenLog, Terminal
<1>16. TerminalEventClosesLog'
    BY <1>8, <1>9, EventOfFacts DEF IInv, TerminalEventClosesLog
<1>17. SlotsOnPath' /\ ArtifactsStored'
    <2>1. uploaded \subseteq Runs
        BY DEF IInv, TypeOK
    <2>2. SlotsOnPath'
        BY <1>2, <1>6, <1>8, <1>10, <1>11 DEF IInv, SlotsOnPath
    <2> QED
        BY <1>2, <1>6, <1>8, <1>10, <1>11, <2>1, <2>2 DEF IInv, ArtifactsStored
<1>18. CancelsPending' /\ OvertakenPending'
    <2>1. cancelledQueued \subseteq Runs /\ overtakenQueued \subseteq Runs
        BY DEF IInv, TypeOK
    <2> QED
        BY <1>2, <1>5, <1>8, <1>10, <1>11, <2>1 DEF IInv, CancelsPending, OvertakenPending
<1> QED
    BY <1>8, <1>12, <1>13, <1>14, <1>15, <1>16, <1>17, <1>18 DEF IInv

\* finalizeFailure, the status.
LEMMA FinalizeStatusIInv == ASSUME IInv, NEW w \in Workers, FinalizeStatus(w) PROVE IInv'
<1> DEFINE r == cur[w]
<1>1. PICK s \in {"failed", "cancelled"} : status' = [status EXCEPT ![r] = s]
    BY DEF FinalizeStatus, FinalizeThen
<1>2. /\ Goto(w, "announcing")
      /\ UNCHANGED <<kind, parent, project, cancelRequested, outdated, nextRun, retried, log,
                     uploaded, job, stalls, lock, toEnqueue, cur, sawNewer, turns, faults,
                     cancelledQueued, overtakenQueued>>
    BY DEF FinalizeStatus, FinalizeThen, queueVars, histVars
<1>3. pc[w] \in Executing
    BY DEF FinalizeStatus, FinalizeThen, Executing
<1>4. /\ r \in Runs /\ status[r] = "running" /\ OpenLog(r)
      /\ \A v \in Workers \ {w} :
            pc[v] \in Executing \cup {"announcing"} => cur[v] \in Runs \ {r}
    BY <1>3, OwnerFacts
<1>5. /\ RowsConsistent'
      /\ status' \in [Runs -> Statuses]
      /\ status'[r] = s
      /\ \A q \in Runs \ {r} : status'[q] = status[q]
    BY <1>1, <1>2, <1>4, RowsAfterUpdate DEF Active, Terminal
<1>6. /\ pc'[w] = "announcing" /\ pc' \in [Workers -> Phases]
      /\ \A v \in Workers \ {w} : pc'[v] = pc[v]
    BY <1>2 DEF Goto, IInv, TypeOK, Phases
<1>7. "announcing" \notin Executing \cup PlanningPhases \cup ExecutionPhases
    BY DEF Executing, PlanningPhases, ExecutionPhases
<1>8. TypeOK' /\ Custody'
    BY <1>2, <1>4, <1>5, <1>6 DEF IInv, TypeOK, Custody
<1>9. SlotsOwnTheirRuns'
    <2>1. \A v \in Workers \ {w} : pc'[v] \in Executing \cup {"announcing"} =>
              pc'[v] = pc[v] /\ cur[v] # r /\ status'[cur[v]] = status[cur[v]]
        BY <1>4, <1>5, <1>6
    <2>2. cur' = cur /\ log' = log
        BY <1>2
    <2>3. pc'[w] \notin Executing /\ status'[cur[w]] \in {"failed", "cancelled"} /\ OpenLog(cur[w])
        BY <1>4, <1>5, <1>6, <1>7
    <2> QED
        BY <2>1, <2>2, <2>3 DEF IInv, SlotsOwnTheirRuns, OpenLog
<1>10. LogsOpenUntilSettled'
    BY <1>2, <1>5 DEF IInv, LogsOpenUntilSettled, OpenLog, Terminal
<1>11. TerminalEventClosesLog'
    BY <1>2, <1>4, <1>5 DEF IInv, TerminalEventClosesLog, OpenLog
<1>12. SlotsOnPath' /\ ArtifactsStored'
    <2>1. uploaded \subseteq Runs
        BY DEF IInv, TypeOK
    <2>2. SlotsOnPath'
        BY <1>2, <1>5, <1>6, <1>7 DEF IInv, SlotsOnPath
    <2> QED
        BY <1>2, <1>5, <1>6, <1>7, <2>1, <2>2 DEF IInv, ArtifactsStored
<1>13. CancelsPending' /\ OvertakenPending'
    <2>1. cancelledQueued \subseteq Runs /\ overtakenQueued \subseteq Runs
        BY DEF IInv, TypeOK
    <2> QED
        BY <1>2, <1>5, <1>6, <1>7, <2>1 DEF IInv, CancelsPending, OvertakenPending
<1> QED
    BY <1>5, <1>8, <1>9, <1>10, <1>11, <1>12, <1>13 DEF IInv

\* finalizeFailure, the terminal event.
LEMMA FinalizeEmitIInv == ASSUME IInv, NEW w \in Workers, FinalizeEmit(w) PROVE IInv'
<1> DEFINE r == cur[w]
           e == EventOf(status[r])
<1>1. /\ pc[w] = "announcing"
      /\ Append_(r, <<e>>)
      /\ Goto(w, "finishing")
      /\ UNCHANGED <<status, kind, parent, project, cancelRequested, outdated, nextRun, retried,
                     uploaded, job, stalls, lock, toEnqueue, cur, sawNewer, turns, faults,
                     cancelledQueued, overtakenQueued>>
    BY DEF FinalizeEmit, Emit, rowVars, queueVars, histVars
<1>2. r \in Runs /\ status[r] \in {"failed", "cancelled"} /\ OpenLog(r)
    BY <1>1 DEF IInv, Custody, SlotsOwnTheirRuns
<1>3. e \in TerminalEvents
    BY <1>2, EventOfFacts DEF TerminalEvents
<1>4. /\ log' \in [Runs -> Seq(EventTypes)]
      /\ \A q \in Runs \ {r} : log'[q] = log[q]
      /\ \A i \in 1..Len(log'[r]) : log'[r][i] \in TerminalEvents =>
            i = Len(log'[r]) /\ log'[r][i] = e
    <2> DEFINE t == <<e>>
    <2> HIDE DEF e
    <2>1. /\ t \in Seq(EventTypes) /\ Len(t) > 0
          /\ t[Len(t)] = e /\ t[Len(t)] \in TerminalEvents
          /\ \A j \in 1..Len(t) : t[j] \in TerminalEvents => j = Len(t)
        BY <1>3 DEF EventTypes
    <2>2. Append_(r, t) /\ TypeOK
        BY <1>1 DEF IInv
    <2> HIDE DEF t
    <2>3. /\ log' \in [Runs -> Seq(EventTypes)]
          /\ \A q \in Runs \ {r} : log'[q] = log[q]
          /\ \A i \in 1..Len(log'[r]) : log'[r][i] \in TerminalEvents =>
                i = Len(log'[r]) /\ log'[r][i] = t[Len(t)]
        BY <1>2, <2>1, <2>2, AppendTerminal
    <2> QED
        BY <2>1, <2>3
<1>5. /\ pc'[w] = "finishing" /\ pc' \in [Workers -> Phases]
      /\ \A v \in Workers \ {w} : pc'[v] = pc[v]
    BY <1>1 DEF Goto, IInv, TypeOK, Phases
<1>6. "finishing" \notin Executing \cup {"announcing"} \cup PlanningPhases \cup ExecutionPhases
      /\ "announcing" \notin Executing
    BY DEF Executing, PlanningPhases, ExecutionPhases
<1>7. TypeOK' /\ Custody'
    BY <1>1, <1>2, <1>4, <1>5 DEF IInv, TypeOK, Custody
<1>8. SlotsOwnTheirRuns'
    <2>1. \A v \in Workers : pc[v] = "announcing" => cur[v] \in Runs
        BY DEF IInv, Custody
    <2>2. \A v \in Workers : pc'[v] \in Executing \cup {"announcing"} =>
              /\ v # w /\ pc'[v] = pc[v]
              /\ pc[v] = "announcing" => log'[cur[v]] = log[cur[v]]
        BY <1>1, <1>4, <1>5, <1>6, <2>1 DEF IInv, SlotsOwnTheirRuns
    <2>3. cur' = cur /\ status' = status
        BY <1>1
    <2> QED
        BY <2>2, <2>3 DEF IInv, SlotsOwnTheirRuns, OpenLog
<1>9. RowsConsistent' /\ ArtifactsStored'
    BY <1>1 DEF IInv, RowsConsistent, PlansOf, ArtifactsStored
<1>10. LogsOpenUntilSettled'
    BY <1>1, <1>2, <1>4 DEF IInv, LogsOpenUntilSettled, OpenLog, Terminal
<1>11. TerminalEventClosesLog'
    <2> HIDE DEF e
    <2>1. e = EventOf(status'[r])
        BY <1>1 DEF e
    <2> QED
        BY <1>1, <1>4, <2>1 DEF IInv, TerminalEventClosesLog
<1>12. SlotsOnPath'
    BY <1>1, <1>5, <1>6 DEF IInv, SlotsOnPath
<1>13. CancelsPending' /\ OvertakenPending'
    BY <1>1, <1>5, <1>6 DEF IInv, CancelsPending, OvertakenPending
<1> QED
    BY <1>7, <1>8, <1>9, <1>10, <1>11, <1>12, <1>13 DEF IInv

-----------------------------------------------------------------------------
(* Transactions of the web tier.                                             *)

\* The new row of startRun or retryRunAdminAction.
LEMMA InsertRunIInv ==
    ASSUME IInv, TypeOK', NEW p \in Projects, NEW k \in {"planning", "execution"},
           NEW q \in Runs \cup {NoRun}, InsertRun(p, k, q),
           IF k = "planning" THEN q = NoRun ELSE q \in PlansOf(p)
    PROVE  IInv'
<1> DEFINE n == nextRun
<1>1. /\ n \in Runs /\ n \in Nat /\ n # NoRun
      /\ TypeOK /\ RowsConsistent
    BY InsertRunTypeOK DEF IInv, Runs, NoRun
<1>2. /\ ~ProjectBusy(p) /\ ~ParentTaken(q)
      /\ status' = [status EXCEPT ![n] = "queued"]
      /\ kind' = [kind EXCEPT ![n] = k]
      /\ parent' = [parent EXCEPT ![n] = q]
      /\ project' = [project EXCEPT ![n] = p]
      /\ log' = [log EXCEPT ![n] = <<"run.queued">>]
      /\ nextRun' = n + 1
      /\ UNCHANGED <<cancelRequested, outdated, uploaded, pc, cur, sawNewer, turns,
                     cancelledQueued, overtakenQueued>>
    BY DEF InsertRun, slotVars, histVars
<1>3. /\ status[n] = "absent"
      /\ status'[n] = "queued" /\ kind'[n] = k /\ parent'[n] = q /\ project'[n] = p
      /\ log'[n] = <<"run.queued">>
    BY <1>1, <1>2 DEF RowsConsistent, TypeOK, Runs
<1>4. \A r \in Runs \ {n} :
          /\ status'[r] = status[r] /\ kind'[r] = kind[r] /\ parent'[r] = parent[r]
          /\ project'[r] = project[r] /\ log'[r] = log[r]
    BY <1>2 DEF TypeOK
<1> HIDE DEF n
<1>5. \A w \in Workers : pc[w] \in Executing \cup {"announcing"} => cur[w] \in Runs \ {n}
    <2>1. \A w \in Workers : pc[w] \in Executing \cup {"announcing"} =>
              cur[w] \in Runs /\ status[cur[w]] # "absent"
        BY DEF IInv, Custody, SlotsOwnTheirRuns, Executing
    <2> QED
        BY <1>3, <2>1
<1>6. \A r \in Runs : r \in cancelledQueued \cup overtakenQueued => r # n
    BY <1>3 DEF IInv, CancelsPending, OvertakenPending
<1>7. RowsConsistent'
    <2>1. \A r \in Runs : status'[r] = "absent" <=> r >= nextRun'
        <3>1. \A r \in Runs : r >= n + 1 <=> r >= n /\ r # n
            BY <1>1 DEF Runs
        <3> QED
            BY <1>1, <1>2, <1>3, <1>4, <3>1 DEF RowsConsistent, n
    <2>2. \A r, t \in Runs : r # t /\ status'[r] \in Active /\ status'[t] \in Active
              => project'[r] # project'[t]
        BY <1>1, <1>2, <1>3, <1>4 DEF RowsConsistent, ProjectBusy
    <2>3. \A x \in Projects : \A r \in PlansOf(x) : r \in PlansOf(x)'
        <3>1. \A x \in Projects : \A r \in PlansOf(x) : r \in Runs \ {n}
            BY <1>3 DEF PlansOf
        <3> QED
            BY <1>4, <3>1 DEF PlansOf
    <2>4. \A r \in Runs : project[r] \in Projects
        BY <1>1 DEF TypeOK
    <2>5. \A r \in Runs : (status[r] # "absent" =>
              IF kind[r] = "planning" THEN parent[r] = NoRun
                                      ELSE parent[r] \in PlansOf(project[r]))'
        <3>1. ASSUME NEW r \in Runs \ {n}, status'[r] # "absent"
              PROVE  IF kind'[r] = "planning" THEN parent'[r] = NoRun
                                              ELSE parent'[r] \in PlansOf(project[r])'
            BY <1>1, <1>4, <2>3, <2>4, <3>1 DEF RowsConsistent
        <3>2. IF kind'[n] = "planning" THEN parent'[n] = NoRun
                                       ELSE parent'[n] \in PlansOf(p)'
            BY <1>3, <2>3
        <3> QED
            BY <1>3, <1>4, <3>1, <3>2 DEF PlansOf
    <2>6. \A r, t \in Runs :
              r # t /\ status'[r] # "absent" /\ status'[t] # "absent" /\ parent'[t] # NoRun
                  => parent'[r] # parent'[t]
        BY <1>1, <1>2, <1>3, <1>4 DEF RowsConsistent, ParentTaken
    <2> QED
        BY <2>1, <2>2, <2>5, <2>6 DEF RowsConsistent
<1>8. Custody'
    BY <1>2 DEF IInv, Custody
<1>9. SlotsOwnTheirRuns'
    BY <1>2, <1>4, <1>5 DEF IInv, SlotsOwnTheirRuns, OpenLog
<1>10. LogsOpenUntilSettled' /\ TerminalEventClosesLog'
    <2>1. \A i \in 1..Len(log'[n]) : log'[n][i] \notin TerminalEvents
        <3>1. log'[n] = <<"run.queued">> /\ "run.queued" \notin TerminalEvents
            BY <1>3 DEF TerminalEvents
        <3> QED
            BY <3>1
    <2> QED
        BY <1>4, <2>1 DEF IInv, LogsOpenUntilSettled, TerminalEventClosesLog, OpenLog
<1>11. SlotsOnPath' /\ ArtifactsStored'
    <2>1. PlanningPhases \cup ExecutionPhases \subseteq Executing
        BY DEF PlanningPhases, ExecutionPhases, Executing
    <2> QED
        BY <1>2, <1>3, <1>4, <1>5, <2>1 DEF IInv, SlotsOnPath, ArtifactsStored
<1>12. CancelsPending' /\ OvertakenPending'
    <2>1. cancelledQueued \subseteq Runs /\ overtakenQueued \subseteq Runs
        BY <1>1 DEF TypeOK
    <2> QED
        BY <1>2, <1>4, <1>6, <2>1 DEF IInv, CancelsPending, OvertakenPending
<1> QED
    BY <1>7, <1>8, <1>9, <1>10, <1>11, <1>12 DEF IInv

LEMMA CancelRunIInv == ASSUME IInv, TypeOK', NEW r \in Runs, CancelRun(r) PROVE IInv'
<1>1. /\ status[r] \in Active
      /\ cancelRequested' = [cancelRequested EXCEPT ![r] = TRUE]
      /\ cancelledQueued' = IF status[r] = "queued" THEN cancelledQueued \cup {r}
                                                    ELSE cancelledQueued
      /\ UNCHANGED <<status, kind, parent, project, outdated, nextRun, log, uploaded, pc, cur,
                     sawNewer, turns, overtakenQueued>>
    BY DEF CancelRun, slotVars
<1>2. /\ Custody' /\ SlotsOwnTheirRuns' /\ RowsConsistent'
      /\ LogsOpenUntilSettled' /\ TerminalEventClosesLog'
    BY <1>1 DEF IInv, Custody, SlotsOwnTheirRuns, RowsConsistent, LogsOpenUntilSettled,
                TerminalEventClosesLog, OpenLog, PlansOf
<1>3. SlotsOnPath' /\ ArtifactsStored' /\ OvertakenPending'
    BY <1>1 DEF IInv, SlotsOnPath, ArtifactsStored, OvertakenPending
<1>4. CancelsPending'
    <2>1. cancelledQueued \subseteq Runs /\ \A q \in Runs : cancelRequested[q] => cancelRequested'[q]
        BY <1>1 DEF IInv, TypeOK
    <2>2. cancelRequested'[r]
        BY <1>1 DEF IInv, TypeOK
    <2>3. status[r] = "queued" =>
              r \notin uploaded /\ \A w \in Workers : pc[w] \in Executing => cur[w] # r
        BY DEF IInv, ArtifactsStored, SlotsOwnTheirRuns
    <2> QED
        BY <1>1, <2>1, <2>2, <2>3 DEF IInv, CancelsPending, Active
<1> QED
    BY <1>2, <1>3, <1>4 DEF IInv

LEMMA AppendRequirementIInv ==
    ASSUME IInv, TypeOK', NEW p \in Projects, AppendRequirement(p) PROVE IInv'
<1> DEFINE overtaken ==
        {r \in Runs : project[r] = p /\ kind[r] = "execution" /\ status[r] = "queued"}
<1>1. /\ outdated' = outdated \cup PlansOf(p)
      /\ overtakenQueued' = overtakenQueued \cup overtaken
      /\ UNCHANGED <<status, kind, parent, project, cancelRequested, nextRun, log, uploaded, pc,
                     cur, sawNewer, turns, cancelledQueued>>
    BY DEF AppendRequirement, slotVars
<1>2. /\ Custody' /\ SlotsOwnTheirRuns' /\ RowsConsistent'
      /\ LogsOpenUntilSettled' /\ TerminalEventClosesLog'
    BY <1>1 DEF IInv, Custody, SlotsOwnTheirRuns, RowsConsistent, LogsOpenUntilSettled,
                TerminalEventClosesLog, OpenLog, PlansOf
<1>3. SlotsOnPath' /\ ArtifactsStored' /\ CancelsPending'
    BY <1>1 DEF IInv, SlotsOnPath, ArtifactsStored, CancelsPending
<1>4. OvertakenPending'
    <2>1. \A r \in overtaken :
              /\ kind[r] = "execution" /\ status[r] = "queued"
              /\ parent[r] \in PlansOf(p)
              /\ r \notin uploaded
              /\ \A w \in Workers : pc[w] \in Executing => cur[w] # r
        BY DEF IInv, RowsConsistent, ArtifactsStored, SlotsOwnTheirRuns
    <2> HIDE DEF overtaken
    <2> QED
        BY <1>1, <2>1 DEF IInv, OvertakenPending
<1> QED
    BY <1>2, <1>3, <1>4 DEF IInv

LEMMA WebIInv == ASSUME IInv, WebStep PROVE IInv'
<1>0. TypeOK'
    BY WebTypeOK DEF IInv
<1>1. ASSUME NEW p \in Projects, StartPlanning(p) PROVE IInv'
    BY <1>0, <1>1, InsertRunIInv DEF StartPlanning
<1>2. ASSUME NEW p \in Projects, StartExecution(p) PROVE IInv'
    <2>1. PICK q \in PlansOf(p) : InsertRun(p, "execution", q)
        BY <1>2 DEF StartExecution
    <2>2. q \in Runs
        BY DEF PlansOf
    <2> QED
        BY <1>0, <2>1, <2>2, InsertRunIInv
<1>3. ASSUME NEW p \in Projects, AppendRequirement(p) PROVE IInv'
    BY <1>0, <1>3, AppendRequirementIInv
<1>4. ASSUME NEW r \in Runs, RetryRunAdmin(r) PROVE IInv'
    <2>1. /\ status[r] = "failed"
          /\ InsertRun(project[r], kind[r], parent[r])
        BY <1>4 DEF RetryRunAdmin
    <2>2. /\ project[r] \in Projects
          /\ kind[r] \in {"planning", "execution"}
          /\ parent[r] \in Runs \cup {NoRun}
        BY DEF IInv, TypeOK
    <2>3. IF kind[r] = "planning" THEN parent[r] = NoRun ELSE parent[r] \in PlansOf(project[r])
        BY <2>1 DEF IInv, RowsConsistent
    <2> QED
        BY <1>0, <2>1, <2>2, <2>3, InsertRunIInv
<1>5. ASSUME NEW r \in Runs, CancelRun(r) PROVE IInv'
    BY <1>0, <1>5, CancelRunIInv
<1>6. ASSUME NEW r \in Runs, ReplayStart(r) \/ EnqueueRun(r) \/ EnqueueFails(r) PROVE IInv'
    BY <1>0, <1>6, QuietIInv DEF ReplayStart, EnqueueRun, EnqueueFails
<1> QED
    BY <1>1, <1>2, <1>3, <1>4, <1>5, <1>6 DEF WebStep

-----------------------------------------------------------------------------
(* The inductive invariant.                                                  *)

LEMMA InitIInv == Init => IInv
<1> SUFFICES ASSUME Init PROVE IInv
    OBVIOUS
<1>1. TypeOK
    BY InitTypeOK
<1>2. \A r \in Runs : log[r] = <<>> /\ status[r] = "absent" /\ r >= nextRun
    BY ConstantsAssumption DEF Init, Runs
<1>3. \A r \in Runs : OpenLog(r)
    BY <1>2 DEF OpenLog
<1>4. \A w \in Workers : pc[w] = "idle" /\ turns[w] = 0
    BY DEF Init
<1>5. "idle" \notin Executing \cup {"announcing"} \cup PlanningPhases \cup ExecutionPhases
    BY DEF Executing, PlanningPhases, ExecutionPhases
<1>6. cancelledQueued = {} /\ overtakenQueued = {} /\ uploaded = {}
    BY DEF Init
<1>7. "absent" \notin Active \cup Terminal
    BY DEF Active, Terminal
<1>8. Custody /\ SlotsOwnTheirRuns /\ RowsConsistent
    BY <1>2, <1>4, <1>5, <1>7 DEF Custody, SlotsOwnTheirRuns, RowsConsistent
<1>9. LogsOpenUntilSettled /\ TerminalEventClosesLog
    BY <1>2, <1>3 DEF LogsOpenUntilSettled, TerminalEventClosesLog, OpenLog
<1>10. SlotsOnPath /\ ArtifactsStored /\ CancelsPending /\ OvertakenPending
    BY <1>2, <1>4, <1>5, <1>6 DEF SlotsOnPath, ArtifactsStored, CancelsPending, OvertakenPending
<1> QED
    BY <1>1, <1>8, <1>9, <1>10 DEF IInv

LEMMA SlotIInv == ASSUME IInv, NEW w \in Workers, SlotStep(w) PROVE IInv'
<1>1. CASE EmitStarted(w) \/ ReadRequest(w) \/ ReadRequestFails(w)
    BY <1>1, RequestStepAdvances, AdvanceIInv
<1>2. CASE PlanningStep(w) /\ ~SavePlan(w)
    BY <1>2, PlanningStepAdvances, AdvanceIInv
<1>3. CASE ExecutionStep(w) /\ ~SaveArtifact(w)
    BY <1>3, ExecutionStepAdvances, AdvanceIInv
<1>4. CASE SavePlan(w) \/ SaveArtifact(w)
    BY <1>4, SaveIInv
<1> QED
    BY <1>1, <1>2, <1>3, <1>4, ClaimIInv, FinalizeStatusIInv, FinalizeEmitIInv, LeaveIInv
    DEF SlotStep

LEMMA NextIInv == IInv /\ [Next]_vars => IInv'
<1> SUFFICES ASSUME IInv, [Next]_vars PROVE IInv'
    OBVIOUS
<1>1. CASE UNCHANGED vars
    <2>1. TypeOK'
        BY <1>1 DEF IInv, TypeOK, vars, rowVars, queueVars, slotVars, histVars
    <2> QED
        BY <1>1, <2>1, QuietIInv DEF vars
<1>2. CASE Next
    BY <1>2, WebIInv, QueueIInv, SlotIInv, LeaveIInv, DeliverIInv DEF Next
<1> QED
    BY <1>1, <1>2

LEMMA SpecIInv == Spec => []IInv
<1>1. Init => IInv
    BY InitIInv
<1>2. IInv /\ [Next]_vars => IInv'
    BY NextIInv
<1> QED
    BY <1>1, <1>2, PTL DEF Spec

-----------------------------------------------------------------------------
(* Theorems.                                                                 *)

\* Every reachable state is well typed.
THEOREM TypeCorrect == Spec => []TypeOK
<1>1. IInv => TypeOK
    BY DEF IInv
<1> QED
    BY <1>1, SpecIInv, PTL

\* Whatever is delivered twice, lost or killed, two slots never execute runs of
\* one project at the same time: the conditional claim of processRun leaves a
\* run to one slot, and runs_one_active_per_project one run to a project.
THEOREM ExecutionIsExclusive == Spec => []OneExecutionPerProject
<1>1. IInv => OneExecutionPerProject
    <2> SUFFICES ASSUME IInv, NEW v \in Workers, NEW w \in Workers,
                        v # w, pc[v] \in Executing, pc[w] \in Executing
                 PROVE  project[cur[v]] # project[cur[w]]
        BY DEF OneExecutionPerProject
    <2>1. cur[v] \in Runs /\ cur[w] \in Runs
        BY OwnerFacts
    <2>2. cur[v] # cur[w] /\ status[cur[v]] = "running" /\ status[cur[w]] = "running"
        BY DEF IInv, SlotsOwnTheirRuns
    <2> QED
        BY <2>1, <2>2 DEF IInv, RowsConsistent, Active
<1> QED
    BY <1>1, SpecIInv, PTL

\* A client that stops reading a run's events at a terminal one has them all,
\* and has been told the status the row holds.
THEOREM TerminalEventIsLast == Spec => []TerminalEventClosesLog
<1>1. IInv => TerminalEventClosesLog
    BY DEF IInv
<1> QED
    BY <1>1, SpecIInv, PTL

\* cancelRun on a queued run always prevails, on either processing path.
THEOREM QueuedCancelPrevails == Spec => []QueuedCancelHonoured
<1>1. IInv => QueuedCancelHonoured
    BY DEF IInv, CancelsPending, QueuedCancelHonoured
<1> QED
    BY <1>1, SpecIInv, PTL

\* The worker's second look at the latest user message (processExecutionRun)
\* closes the gap between startRun's check and the claim.
THEOREM OvertakenPlanIsRefused == Spec => []OvertakenPlanNeverBuilt
<1>1. IInv => OvertakenPlanNeverBuilt
    BY DEF IInv, OvertakenPending, OvertakenPlanNeverBuilt
<1> QED
    BY <1>1, SpecIInv, PTL

\* No artifact row without its objects, and none without its own plan.
THEOREM ArtifactsAreWhole == Spec => []ArtifactHasObjectsAndPlan
<1>1. IInv => ArtifactHasObjectsAndPlan
    <2> SUFFICES ASSUME IInv, NEW r \in Runs, kind[r] = "execution", status[r] = "succeeded"
                 PROVE  /\ r \in uploaded
                        /\ parent[r] \in PlansOf(project[r])
                        /\ \A q \in Runs : q # r /\ status[q] # "absent" => parent[q] # parent[r]
        BY DEF ArtifactHasObjectsAndPlan
    <2>1. r \in uploaded
        BY DEF IInv, ArtifactsStored
    <2>2. parent[r] \in PlansOf(project[r])
        BY DEF IInv, RowsConsistent
    <2>3. parent[r] # NoRun
        BY <2>2, ConstantsAssumption DEF PlansOf, Runs, NoRun
    <2> QED
        BY <2>1, <2>2, <2>3 DEF IInv, RowsConsistent
<1> QED
    BY <1>1, SpecIInv, PTL

-----------------------------------------------------------------------------
(* RunBackbone implements RunLifecycle.                                      *)

LEMMA OutcomeOfOpen ==
    ASSUME NEW l, \A i \in 1..Len(l) : l[i] \notin TerminalEvents
    PROVE  OutcomeIn(l) = "none"
<1>1. /\ ~\E i \in 1..Len(l) : l[i] = "run.succeeded"
      /\ ~\E i \in 1..Len(l) : l[i] = "run.failed"
      /\ ~\E i \in 1..Len(l) : l[i] = "run.cancelled"
    BY DEF TerminalEvents
<1> QED
    BY <1>1, Zenon DEF OutcomeIn

LEMMA OutcomeOfClosed ==
    ASSUME NEW l, NEW s \in Terminal,
           \E i \in 1..Len(l) : l[i] = EventOf(s),
           \A i \in 1..Len(l) : l[i] \in TerminalEvents => l[i] = EventOf(s)
    PROVE  OutcomeIn(l) = s
<1>1. CASE s = "succeeded"
    <2>1. \E i \in 1..Len(l) : l[i] = "run.succeeded"
        BY <1>1, EventOfFacts
    <2>2. /\ ~\E i \in 1..Len(l) : l[i] = "run.failed"
          /\ ~\E i \in 1..Len(l) : l[i] = "run.cancelled"
        BY <1>1, EventOfFacts DEF TerminalEvents
    <2> QED
        BY <1>1, <2>1, <2>2, Zenon DEF OutcomeIn
<1>2. CASE s = "failed"
    <2>1. /\ \E i \in 1..Len(l) : l[i] = "run.failed"
          /\ ~\E i \in 1..Len(l) : l[i] = "run.succeeded"
          /\ ~\E i \in 1..Len(l) : l[i] = "run.cancelled"
        BY <1>2, EventOfFacts DEF TerminalEvents
    <2> QED
        BY <1>2, <2>1, Zenon DEF OutcomeIn
<1>3. CASE s = "cancelled"
    <2>1. /\ \E i \in 1..Len(l) : l[i] = "run.cancelled"
          /\ ~\E i \in 1..Len(l) : l[i] = "run.succeeded"
          /\ ~\E i \in 1..Len(l) : l[i] = "run.failed"
        BY <1>3, EventOfFacts DEF TerminalEvents
    <2> QED
        BY <1>3, <2>1, Zenon DEF OutcomeIn
<1> QED
    BY <1>1, <1>2, <1>3 DEF Terminal

\* The outcomes the logs announce: the refinement mapping of Lifecycle!outcome.
Outcomes == [r \in Runs |-> OutcomeIn(log[r])]

\* A step that leaves the statuses alone and keeps open logs open and closed
\* ones unchanged is invisible.
LEMMA Invisible ==
    ASSUME UNCHANGED status,
           \A r \in Runs : log'[r] = log[r] \/ (OpenLog(r) /\ OpenLog(r)')
    PROVE  UNCHANGED <<status, Outcomes>>
<1>1. \A r \in Runs : OutcomeIn(log'[r]) = OutcomeIn(log[r])
    BY OutcomeOfOpen DEF OpenLog
<1> QED
    BY <1>1 DEF Outcomes

LEMMA InsertCreates ==
    ASSUME IInv, NEW p \in Projects, NEW k \in {"planning", "execution"},
           NEW q \in Runs \cup {NoRun}, InsertRun(p, k, q)
    PROVE  Lifecycle!Create(nextRun)
<1> DEFINE n == nextRun
<1>1. n \in Runs
    BY InsertRunTypeOK DEF IInv
<1>2. /\ status' = [status EXCEPT ![n] = "queued"]
      /\ log' = [log EXCEPT ![n] = <<"run.queued">>]
    BY DEF InsertRun
<1>3. status[n] = "absent" /\ OpenLog(n)
    BY <1>1 DEF IInv, RowsConsistent, LogsOpenUntilSettled, Terminal, Runs
<1> HIDE DEF n
<1>4. log'[n] = <<"run.queued">> /\ \A r \in Runs \ {n} : log'[r] = log[r]
    BY <1>1, <1>2 DEF IInv, TypeOK
<1>5. \A i \in 1..Len(log'[n]) : log'[n][i] \notin TerminalEvents
    BY <1>4 DEF TerminalEvents
<1>6. \A r \in Runs : OutcomeIn(log'[r]) = OutcomeIn(log[r])
    BY <1>3, <1>4, <1>5, OutcomeOfOpen DEF OpenLog
<1> QED
    BY <1>2, <1>3, <1>6 DEF Lifecycle!Create, n

LEMMA SaveSucceeds ==
    ASSUME IInv, IInv', NEW w \in Workers, SavePlan(w) \/ SaveArtifact(w)
    PROVE  cur[w] \in Runs /\ Lifecycle!Succeed(cur[w])
<1> DEFINE r == cur[w]
<1>1. PICK first \in Progress : /\ status' = [status EXCEPT ![r] = "succeeded"]
                                /\ Append_(r, <<first, "run.succeeded">>)
    BY DEF SavePlan, SaveArtifact, SaveSuccess, Progress, EventTypes, TerminalEvents
<1>2. r \in Runs /\ status[r] = "running"
    BY OwnerFacts DEF SavePlan, SaveArtifact, SaveSuccess, Executing
<1>3. /\ log[r] \in Seq(EventTypes) /\ log'[r] = log[r] \o <<first, "run.succeeded">>
      /\ \A q \in Runs \ {r} : log'[q] = log[q]
      /\ status'[r] = "succeeded"
    BY <1>1, <1>2 DEF Append_, IInv, TypeOK
<1>4. \E i \in 1..Len(log'[r]) : log'[r][i] = "run.succeeded"
    <2>1. /\ Len(log'[r]) = Len(log[r]) + 2 /\ Len(log[r]) \in Nat
          /\ log'[r][Len(log[r]) + 2] = "run.succeeded"
        BY <1>3
    <2> QED
        BY <2>1
<1>5. \A i \in 1..Len(log'[r]) : log'[r][i] \in TerminalEvents => log'[r][i] = EventOf("succeeded")
    BY <1>2, <1>3 DEF IInv, TerminalEventClosesLog
<1>6. OutcomeIn(log'[r]) = "succeeded"
    BY <1>4, <1>5, OutcomeOfClosed, EventOfFacts DEF Terminal
<1>7. [q \in Runs |-> OutcomeIn(log'[q])]
        = [[q \in Runs |-> OutcomeIn(log[q])] EXCEPT ![r] = "succeeded"]
    BY <1>2, <1>3, <1>6
<1> QED
    BY <1>1, <1>2, <1>7 DEF Lifecycle!Succeed

LEMMA FinalizeAborts ==
    ASSUME IInv, NEW w \in Workers, FinalizeStatus(w)
    PROVE  cur[w] \in Runs /\ Lifecycle!Abort(cur[w])
<1>1. /\ \E s \in {"failed", "cancelled"} : status' = [status EXCEPT ![cur[w]] = s]
      /\ UNCHANGED log
    BY DEF FinalizeStatus, FinalizeThen
<1>2. cur[w] \in Runs /\ status[cur[w]] = "running"
    BY OwnerFacts DEF FinalizeStatus, FinalizeThen, Executing
<1> QED
    BY <1>1, <1>2 DEF Lifecycle!Abort

LEMMA FinalizeAnnounces ==
    ASSUME IInv, IInv', NEW w \in Workers, FinalizeEmit(w)
    PROVE  cur[w] \in Runs /\ Lifecycle!Announce(cur[w])
<1> DEFINE r == cur[w]
<1>1. /\ pc[w] = "announcing"
      /\ Append_(r, <<EventOf(status[r])>>)
      /\ UNCHANGED status
    BY DEF FinalizeEmit, Emit, rowVars
<1>2. r \in Runs /\ status[r] \in {"failed", "cancelled"} /\ OpenLog(r)
    BY <1>1 DEF IInv, Custody, SlotsOwnTheirRuns
<1>3. /\ log[r] \in Seq(EventTypes) /\ log'[r] = log[r] \o <<EventOf(status[r])>>
      /\ \A q \in Runs \ {r} : log'[q] = log[q]
    BY <1>1, <1>2 DEF Append_, IInv, TypeOK
<1> DEFINE e == EventOf(status[r])
<1> HIDE DEF e
<1>4. \E i \in 1..Len(log'[r]) : log'[r][i] = e
    <2>1. log'[r] = log[r] \o <<e>>
        BY <1>3 DEF e
    <2>2. /\ Len(log'[r]) = Len(log[r]) + 1 /\ Len(log[r]) \in Nat
          /\ log'[r][Len(log[r]) + 1] = e
        BY <1>3, <2>1
    <2> QED
        BY <2>2
<1>5. \A i \in 1..Len(log'[r]) : log'[r][i] \in TerminalEvents => log'[r][i] = e
    BY <1>1, <1>2 DEF IInv, TerminalEventClosesLog, e
<1>6. OutcomeIn(log'[r]) = status[r]
    BY <1>2, <1>4, <1>5, OutcomeOfClosed DEF Terminal, e
<1>7. OutcomeIn(log[r]) = "none"
    BY <1>2, OutcomeOfOpen DEF OpenLog
<1>8. [q \in Runs |-> OutcomeIn(log'[q])]
        = [[q \in Runs |-> OutcomeIn(log[q])] EXCEPT ![r] = status[r]]
    BY <1>2, <1>3, <1>6
<1> QED
    BY <1>1, <1>2, <1>7, <1>8 DEF Lifecycle!Announce

LEMMA ClaimBegins ==
    ASSUME IInv, NEW w \in Workers, ClaimRun(w)
    PROVE  \/ cur[w] \in Runs /\ Lifecycle!Begin(cur[w])
           \/ UNCHANGED <<status, Outcomes>>
<1>1. cur[w] \in Runs /\ UNCHANGED log
    BY DEF ClaimRun, ClaimIf, IInv, Custody
<1>2. CASE status[cur[w]] = "queued"
    BY <1>1, <1>2 DEF ClaimRun, ClaimIf, Lifecycle!Begin
<1>3. CASE status[cur[w]] # "queued"
    BY <1>1, <1>3 DEF ClaimRun, ClaimIf, Outcomes
<1> QED
    BY <1>2, <1>3

\* Steps inside an execution, of the queue and of a leaving slot are invisible.
LEMMA AdvanceInvisible ==
    ASSUME IInv, NEW w \in Workers, \E to \in Executing : Advances(w, to)
    PROVE  UNCHANGED <<status, Outcomes>>
<1>1. PICK to \in Executing : Advances(w, to)
    OBVIOUS
<1>2. /\ cur[w] \in Runs /\ OpenLog(cur[w])'
      /\ \A q \in Runs \ {cur[w]} : log'[q] = log[q]
    BY <1>1, AdvanceLogs
<1>3. OpenLog(cur[w]) /\ cur' = cur /\ status' = status
    BY <1>1, OwnerFacts DEF Advances, rowVars
<1>4. \A r \in Runs : log'[r] = log[r] \/ (OpenLog(r) /\ OpenLog(r)')
    BY <1>2, <1>3 DEF OpenLog
<1> QED
    BY <1>3, <1>4, Invisible

LEMMA SameLogInvisible == ASSUME UNCHANGED <<status, log>> PROVE UNCHANGED <<status, Outcomes>>
BY DEF Outcomes

LEMMA StepRefines ==
    ASSUME IInv, IInv', Next
    PROVE  (\E r \in Runs : \/ Lifecycle!Create(r) \/ Lifecycle!Begin(r) \/ Lifecycle!Succeed(r)
                            \/ Lifecycle!Abort(r) \/ Lifecycle!Announce(r))
           \/ UNCHANGED <<status, Outcomes>>
<1> DEFINE Visible ==
        \E r \in Runs : \/ Lifecycle!Create(r) \/ Lifecycle!Begin(r) \/ Lifecycle!Succeed(r)
                        \/ Lifecycle!Abort(r) \/ Lifecycle!Announce(r)
           Hidden == UNCHANGED <<status, Outcomes>>
<1>1. ASSUME NEW p \in Projects, NEW k \in {"planning", "execution"},
             NEW q \in Runs \cup {NoRun}, InsertRun(p, k, q)
      PROVE  Visible
    <2>1. nextRun \in Runs
        BY <1>1, InsertRunTypeOK DEF IInv
    <2>2. Lifecycle!Create(nextRun)
        BY <1>1, InsertCreates
    <2> QED
        BY <2>1, <2>2
<1>2. CASE WebStep
    <2>1. ASSUME NEW p \in Projects, StartPlanning(p) PROVE Visible
        BY <1>1, <2>1 DEF StartPlanning
    <2>2. ASSUME NEW p \in Projects, StartExecution(p) PROVE Visible
        BY <1>1, <2>2 DEF StartExecution, PlansOf
    <2>3. ASSUME NEW r \in Runs, RetryRunAdmin(r) PROVE Visible
        <3>1. /\ project[r] \in Projects /\ kind[r] \in {"planning", "execution"}
              /\ parent[r] \in Runs \cup {NoRun}
            BY DEF IInv, TypeOK
        <3> QED
            BY <1>1, <2>3, <3>1 DEF RetryRunAdmin
    <2>4. ASSUME NEW p \in Projects, AppendRequirement(p) PROVE Hidden
        BY <2>4, SameLogInvisible DEF AppendRequirement
    <2>5. ASSUME NEW r \in Runs,
                 ReplayStart(r) \/ CancelRun(r) \/ EnqueueRun(r) \/ EnqueueFails(r)
          PROVE  Hidden
        BY <2>5, SameLogInvisible DEF ReplayStart, CancelRun, EnqueueRun, EnqueueFails, rowVars
    <2> QED
        BY <1>2, <2>1, <2>2, <2>3, <2>4, <2>5 DEF WebStep
<1>3. CASE QueueStep
    BY <1>3, SameLogInvisible
    DEF QueueStep, ReconcileQueuedRuns, ReconcileRuns, LoseLock, StalledJob, ExpireFailedJob,
        rowVars
<1>4. ASSUME NEW w \in Workers, CompleteJob(w) \/ ProcessRunThrows(w) \/ Crash(w)
      PROVE  Hidden
    BY <1>4, SameLogInvisible DEF CompleteJob, ProcessRunThrows, Crash, rowVars
<1>5. ASSUME NEW w \in Workers, NEW r \in Runs, Deliver(w, r) PROVE Hidden
    BY <1>5, SameLogInvisible DEF Deliver, rowVars
<1>6. ASSUME NEW w \in Workers, SlotStep(w) PROVE Visible \/ Hidden
    <2>1. CASE \/ EmitStarted(w) \/ ReadRequest(w) \/ ReadRequestFails(w)
               \/ PlanningStep(w) /\ ~SavePlan(w)
               \/ ExecutionStep(w) /\ ~SaveArtifact(w)
        BY <2>1, RequestStepAdvances, PlanningStepAdvances, ExecutionStepAdvances,
           AdvanceInvisible
    <2>2. CASE SavePlan(w) \/ SaveArtifact(w)
        BY <2>2, SaveSucceeds
    <2>3. CASE ClaimRun(w)
        BY <2>3, ClaimBegins
    <2>4. CASE FinalizeStatus(w)
        BY <2>4, FinalizeAborts
    <2>5. CASE FinalizeEmit(w)
        BY <2>5, FinalizeAnnounces
    <2> QED
        BY <1>4, <1>6, <2>1, <2>2, <2>3, <2>4, <2>5 DEF SlotStep
<1> QED
    BY <1>2, <1>3, <1>4, <1>5, <1>6 DEF Next

\* No redelivery, crash, lost call or late write restarts, settles again or
\* announces again a run: the backbone implements RunLifecycle.
THEOREM BackboneImplementsLifecycle == Spec => ImplementsLifecycle
<1>1. Init => Lifecycle!Init
    <2> SUFFICES ASSUME Init PROVE Lifecycle!Init
        OBVIOUS
    <2>1. OutcomeIn(<<>>) = "none"
        BY OutcomeOfOpen
    <2>2. \A r \in Runs : log[r] = <<>>
        BY DEF Init
    <2> QED
        BY <2>1, <2>2 DEF Init, Lifecycle!Init
<1>2. IInv /\ IInv' /\ [Next]_vars => [Lifecycle!Next]_(Lifecycle!lifeVars)
    <2> SUFFICES ASSUME IInv, IInv', [Next]_vars
                 PROVE  Lifecycle!Next \/ UNCHANGED Lifecycle!lifeVars
        OBVIOUS
    <2>1. CASE Next
        BY <2>1, StepRefines DEF Lifecycle!Next, Lifecycle!lifeVars, Outcomes
    <2>2. CASE UNCHANGED vars
        BY <2>2, SameLogInvisible DEF vars, rowVars, Lifecycle!lifeVars, Outcomes
    <2> QED
        BY <2>1, <2>2
<1> QED
    BY <1>1, <1>2, SpecIInv, PTL DEF Spec, ImplementsLifecycle, Lifecycle!Spec

-----------------------------------------------------------------------------
(* RunBackbone implements RunLog for each of its runs.                       *)

\* What a log tells: the refinement mapping of RunLog!events.
Told(l) == [i \in 1..Len(l) |-> Tells(l[i])]

Readings == {"queued", "started", "progress", "succeeded", "failed", "cancelled"}

\* The events an execution appends after its start and before it settles.
Later == Progress \ {"run.queued", "run.started"}

LEMMA TellsFacts ==
    /\ Tells("run.queued") = "queued"
    /\ Tells("run.started") = "started"
    /\ Tells("run.succeeded") = "succeeded"
    /\ Tells("run.failed") = "failed"
    /\ Tells("run.cancelled") = "cancelled"
BY DEF Tells

LEMMA TellsLater == ASSUME NEW e \in Later PROVE Tells(e) = "progress"
BY DEF Tells, Later, Progress, TerminalEvents

LEMMA TellsOutcome ==
    ASSUME NEW e \in EventTypes
    PROVE  /\ Tells(e) \in Readings
           /\ Tells(e) \in {"succeeded", "failed", "cancelled"} <=> e \in TerminalEvents
BY DEF Tells, Readings, TerminalEvents

\* Reading goes event by event.
LEMMA ToldIs ==
    ASSUME NEW l \in Seq(EventTypes)
    PROVE  /\ Told(l) \in Seq(Readings)
           /\ Len(Told(l)) = Len(l)
           /\ \A i \in 1..Len(l) : Told(l)[i] = Tells(l[i])
<1> DEFINE n == Len(l)
<1>1. n \in Nat /\ \A i \in 1..n : l[i] \in EventTypes
    OBVIOUS
<1>2. Told(l) \in [1..n -> Readings]
    BY <1>1, TellsOutcome DEF Told
<1>3. \A i \in 1..n : Told(l)[i] = Tells(l[i])
    BY DEF Told
<1> HIDE DEF n
<1>4. Told(l) \in Seq(Readings) /\ Len(Told(l)) = n
    BY <1>1, <1>2
<1> QED
    BY <1>3, <1>4 DEF n

\* More events tell more, and nothing else.
LEMMA ToldMore ==
    ASSUME NEW l \in Seq(EventTypes), NEW k \in Seq(EventTypes)
    PROVE  Told(l \o k) = Told(l) \o Told(k)
<1>1. /\ l \o k \in Seq(EventTypes)
      /\ Len(l \o k) = Len(l) + Len(k)
      /\ \A i \in 1..Len(l) + Len(k) : (l \o k)[i] = IF i <= Len(l) THEN l[i] ELSE k[i - Len(l)]
    BY ConcatProperties
<1>2. /\ Told(l) \o Told(k) \in Seq(Readings)
      /\ Len(Told(l) \o Told(k)) = Len(l) + Len(k)
      /\ \A i \in 1..Len(l) + Len(k) :
            (Told(l) \o Told(k))[i] = IF i <= Len(l) THEN Told(l)[i] ELSE Told(k)[i - Len(l)]
    <2> DEFINE s == Told(l)
               t == Told(k)
    <2>1. s \in Seq(Readings) /\ t \in Seq(Readings) /\ Len(s) = Len(l) /\ Len(t) = Len(k)
        BY ToldIs
    <2> HIDE DEF s, t
    <2>2. /\ s \o t \in Seq(Readings)
          /\ Len(s \o t) = Len(s) + Len(t)
          /\ \A i \in 1..Len(s) + Len(t) : (s \o t)[i] = IF i <= Len(s) THEN s[i] ELSE t[i - Len(s)]
        BY <2>1, ConcatProperties
    <2> QED
        BY <2>1, <2>2 DEF s, t
<1>3. /\ Told(l \o k) \in Seq(Readings)
      /\ Len(Told(l \o k)) = Len(l) + Len(k)
      /\ \A i \in 1..Len(l) + Len(k) : Told(l \o k)[i] = Tells((l \o k)[i])
    BY <1>1, ToldIs
<1>4. ASSUME NEW i \in 1..Len(l) + Len(k) PROVE Told(l \o k)[i] = (Told(l) \o Told(k))[i]
    <2>1. CASE i <= Len(l)
        <3>1. i \in 1..Len(l)
            BY <2>1
        <3> QED
            BY <1>1, <1>2, <1>3, <2>1, <3>1, ToldIs
    <2>2. CASE ~(i <= Len(l))
        <3>1. i - Len(l) \in 1..Len(k)
            BY <2>2
        <3> QED
            BY <1>1, <1>2, <1>3, <2>2, <3>1, ToldIs
    <2> QED
        BY <2>1, <2>2
<1> DEFINE a == Told(l \o k)
           b == Told(l) \o Told(k)
<1>5. /\ a \in Seq(Readings) /\ b \in Seq(Readings)
      /\ Len(a) = Len(b)
      /\ \A i \in 1..Len(a) : a[i] = b[i]
    BY <1>2, <1>3, <1>4
<1> HIDE DEF a, b
<1>6. a = b
    BY <1>5, SeqEqual
<1> QED
    BY <1>6 DEF a, b

LEMMA ToldOne ==
    ASSUME NEW e \in EventTypes PROVE <<e>> \in Seq(EventTypes) /\ Told(<<e>>) = <<Tells(e)>>
<1>1. <<e>> \in Seq(EventTypes) /\ Len(<<e>>) = 1 /\ <<e>>[1] = e
    OBVIOUS
<1> DEFINE k == <<e>>
           a == Told(k)
           b == <<Tells(e)>>
<1>2. a \in Seq(Readings) /\ Len(a) = 1 /\ a[1] = Tells(e)
    <2>1. k \in Seq(EventTypes) /\ Len(k) = 1 /\ k[1] = e
        BY <1>1
    <2> HIDE DEF k
    <2> QED
        BY <2>1, ToldIs
<1>3. b \in Seq(Readings) /\ Len(b) = 1 /\ b[1] = Tells(e)
    BY TellsOutcome
<1> HIDE DEF a, b
<1>4. a = b
    BY <1>2, <1>3, SeqEqual
<1> QED
    BY <1>1, <1>4 DEF a, b

LEMMA ToldTwo ==
    ASSUME NEW d \in EventTypes, NEW e \in EventTypes
    PROVE  <<d, e>> \in Seq(EventTypes) /\ Told(<<d, e>>) = <<Tells(d), Tells(e)>>
<1>1. <<d, e>> \in Seq(EventTypes) /\ Len(<<d, e>>) = 2 /\ <<d, e>>[1] = d /\ <<d, e>>[2] = e
    OBVIOUS
<1> DEFINE k == <<d, e>>
           a == Told(k)
           b == <<Tells(d), Tells(e)>>
<1>2. a \in Seq(Readings) /\ Len(a) = 2 /\ a[1] = Tells(d) /\ a[2] = Tells(e)
    <2>1. k \in Seq(EventTypes) /\ Len(k) = 2 /\ k[1] = d /\ k[2] = e
        BY <1>1
    <2> HIDE DEF k
    <2> QED
        BY <2>1, ToldIs
<1>3. b \in Seq(Readings) /\ Len(b) = 2 /\ b[1] = Tells(d) /\ b[2] = Tells(e)
    BY TellsOutcome
<1> HIDE DEF a, b
<1>4. a = b
    BY <1>2, <1>3, SeqEqual
<1> QED
    BY <1>1, <1>4 DEF a, b

\* A step of one run as its readers see it, or none.
RunStep(r) == UNCHANGED <<status[r], log[r]>> \/ RunOf(r)!Next

LEMMA RunCreated ==
    ASSUME NEW r \in Runs, status[r] = "absent", status'[r] = "queued",
           log'[r] = <<"run.queued">>
    PROVE  RunStep(r)
<1>1. "run.queued" \in EventTypes
    BY DEF EventTypes
<1>2. Told(log'[r]) = <<"queued">>
    BY <1>1, ToldOne, TellsFacts
<1>3. RunOf(r)!Create
    BY <1>2 DEF RunOf!Create, Told
<1> QED
    BY <1>3 DEF RunStep, RunOf!Next

LEMMA RunClaimed ==
    ASSUME NEW r \in Runs, status[r] = "queued", status'[r] = "running", log'[r] = log[r]
    PROVE  RunStep(r)
<1>1. RunOf(r)!Claim
    BY DEF RunOf!Claim
<1> QED
    BY <1>1 DEF RunStep, RunOf!Next

LEMMA RunEmits ==
    ASSUME NEW r \in Runs, log[r] \in Seq(EventTypes), NEW e \in EventTypes,
           status[r] = "running", status'[r] = status[r], log'[r] = log[r] \o <<e>>,
           Tells(e) = IF Len(log[r]) = 1 THEN "started" ELSE "progress"
    PROVE  RunStep(r)
<1>1. /\ <<e>> \in Seq(EventTypes) /\ Told(<<e>>) = <<Tells(e)>>
      /\ Len(Told(log[r])) = Len(log[r])
    BY ToldOne, ToldIs
<1>2. Told(log'[r]) = Told(log[r]) \o <<IF Len(Told(log[r])) = 1 THEN "started" ELSE "progress">>
    BY <1>1, ToldMore
<1>3. RunOf(r)!Emit
    BY <1>2 DEF RunOf!Emit, Told
<1> QED
    BY <1>3 DEF RunStep, RunOf!Next

LEMMA RunSucceeds ==
    ASSUME NEW r \in Runs, log[r] \in Seq(EventTypes), NEW e \in Later, Len(log[r]) > 1,
           status[r] = "running", status'[r] = "succeeded",
           log'[r] = log[r] \o <<e, "run.succeeded">>
    PROVE  RunStep(r)
<1>1. e \in EventTypes /\ "run.succeeded" \in EventTypes
    BY DEF Later, Progress, EventTypes, TerminalEvents
<1>2. /\ <<e, "run.succeeded">> \in Seq(EventTypes)
      /\ Told(<<e, "run.succeeded">>) = <<"progress", "succeeded">>
      /\ Len(Told(log[r])) = Len(log[r])
    BY <1>1, ToldTwo, ToldIs, TellsFacts, TellsLater
<1>3. Told(log'[r]) = Told(log[r]) \o <<"progress", "succeeded">> /\ Len(Told(log[r])) > 1
    BY <1>2, ToldMore
<1>4. RunOf(r)!Succeed
    BY <1>3 DEF RunOf!Succeed, Told
<1> QED
    BY <1>4 DEF RunStep, RunOf!Next

LEMMA RunSettles ==
    ASSUME NEW r \in Runs, log[r] \in Seq(EventTypes), Len(log[r]) > 1,
           status[r] = "running", status'[r] \in {"failed", "cancelled"}, log'[r] = log[r]
    PROVE  RunStep(r)
<1>1. Len(Told(log[r])) > 1
    BY ToldIs
<1>2. RunOf(r)!Settle
    BY <1>1 DEF RunOf!Settle, Told
<1> QED
    BY <1>2 DEF RunStep, RunOf!Next

LEMMA RunAnnounced ==
    ASSUME NEW r \in Runs, log[r] \in Seq(EventTypes), Len(log[r]) > 1, OpenLog(r),
           status[r] \in {"failed", "cancelled"}, status'[r] = status[r],
           log'[r] = log[r] \o <<EventOf(status[r])>>
    PROVE  RunStep(r)
<1>1. /\ EventOf(status[r]) \in EventTypes
      /\ Tells(EventOf(status[r])) = status[r]
    BY EventOfFacts, TellsFacts, EventOfType
<1>2. Told(log'[r]) = Told(log[r]) \o <<status[r]>>
    BY <1>1, ToldOne, ToldMore
<1>3. Told(log[r])[Len(Told(log[r]))] \notin {"succeeded", "failed", "cancelled"}
    <2>1. Len(log[r]) \in 1..Len(log[r]) /\ log[r][Len(log[r])] \in EventTypes
        OBVIOUS
    <2>2. log[r][Len(log[r])] \notin TerminalEvents
        BY <2>1 DEF OpenLog
    <2>3. Told(log[r])[Len(Told(log[r]))] = Tells(log[r][Len(log[r])])
        BY <2>1, ToldIs
    <2> QED
        BY <2>1, <2>2, <2>3, TellsOutcome
<1>4. RunOf(r)!Announce
    BY <1>2, <1>3 DEF RunOf!Announce, RunOf!Closed, Told
<1> QED
    BY <1>4 DEF RunStep, RunOf!Next

\* Once the start is told, an execution adds at most one later event a step.
Started == Executing \ {"claimed"}

Pushes(w) ==
    /\ pc[w] \in Started
    /\ \E to \in Started : Goto(w, to)
    /\ UNCHANGED log \/ \E e \in Later : Append_(cur[w], <<e>>)
    /\ UNCHANGED <<status, cur>>

LEMMA StepPushes ==
    ASSUME NEW w, NEW from \in Started, NEW to \in Started,
           Step(w, from, to) \/ \E e \in Later : Emit(w, from, e, to)
    PROVE  Pushes(w)
BY DEF Step, Emit, Pushes, rowVars

LEMMA CheckPushes ==
    ASSUME NEW w, NEW from \in Started, NEW to \in Started, CheckCancelled(w, from, to)
    PROVE  Pushes(w)
<1>1. "cancelling" \in Started
    BY DEF Started, Executing
<1> QED
    BY <1>1, StepPushes DEF CheckCancelled

LEMMA TurnPushes ==
    ASSUME NEW w, NEW from \in Started, NEW to \in Started, Turn(w, from, to),
           UNCHANGED log \/ \E e \in Later : Append_(cur[w], <<e>>)
    PROVE  Pushes(w)
BY DEF Turn, TurnWithin, Pushes, rowVars

LEMMA StartedNames ==
    /\ {"reading", "planStart", "planCheck", "planStream", "planRefused", "planLimit",
        "planSaving", "lookup", "genStart", "genCheck", "genCall", "generated", "sandboxing",
        "validating", "validated", "bundled", "uploadStart", "uploading", "saving", "failing",
        "cancelling"} \subseteq Started
    /\ {"agent.started", "assistant.delta", "agent.refused", "agent.limit_exceeded",
        "assistant.completed", "artifact.generating", "sandbox.created", "sandbox.validated",
        "artifact.uploading", "artifact.ready"} \subseteq Later
BY DEF Started, Executing, Later, Progress, EventTypes, TerminalEvents

LEMMA ReadPushes ==
    ASSUME NEW w, ReadRequest(w) \/ ReadRequestFails(w) PROVE Pushes(w)
<1>1. CASE ReadRequest(w)
    <2> DEFINE to == IF kind[cur[w]] = "execution" THEN "lookup" ELSE "planStart"
    <2>1. pc[w] \in Started /\ Goto(w, to) /\ UNCHANGED <<log, status, cur>>
        BY <1>1, StartedNames DEF ReadRequest, rowVars
    <2>2. to \in Started
        BY StartedNames
    <2> HIDE DEF to
    <2> QED
        BY <2>1, <2>2 DEF Pushes
<1>2. CASE ReadRequestFails(w)
    BY <1>2, StepPushes, StartedNames DEF ReadRequestFails
<1> QED
    BY <1>1, <1>2

LEMMA PlanningPushes ==
    ASSUME NEW w, PlanningStep(w), ~SavePlan(w) PROVE Pushes(w)
<1>1. CASE EmitAgentStarted(w)
    BY <1>1, StepPushes, StartedNames DEF EmitAgentStarted
<1>2. CASE PlanningCheck(w)
    BY <1>2, CheckPushes, StartedNames DEF PlanningCheck
<1>3. CASE PlanningDelta(w)
    <2>1. PICK next \in {"planStream", "planCheck"} :
              Turn(w, "planStream", next) /\ Append_(cur[w], <<"assistant.delta">>)
        BY <1>3 DEF PlanningDelta
    <2> QED
        BY <2>1, TurnPushes, StartedNames
<1>4. CASE PlanningRetry(w)
    BY <1>4, TurnPushes, StartedNames DEF PlanningRetry
<1>5. CASE PlanningResult(w)
    BY <1>5, StepPushes, StartedNames DEF PlanningResult
<1>6. CASE EmitAgentStopped(w)
    BY <1>6, StepPushes, StartedNames DEF EmitAgentStopped
<1> QED
    BY <1>1, <1>2, <1>3, <1>4, <1>5, <1>6 DEF PlanningStep

LEMMA ExecutionPushes ==
    ASSUME NEW w, ExecutionStep(w), ~SaveArtifact(w) PROVE Pushes(w)
<1>1. CASE LookupPlan(w)
    <2>1. Step(w, "lookup", "genStart") \/ Step(w, "lookup", "failing")
        BY <1>1 DEF LookupPlan
    <2> QED
        BY <2>1, StepPushes, StartedNames
<1>2. CASE EmitGenerating(w) \/ EmitSandboxCreated(w) \/ EmitSandboxValidated(w) \/ EmitUploading(w)
    BY <1>2, StepPushes, StartedNames
    DEF EmitGenerating, EmitSandboxCreated, EmitSandboxValidated, EmitUploading
<1>3. CASE GenerationCheck(w)
    BY <1>3, StepPushes, CheckPushes, StartedNames DEF GenerationCheck
<1>4. CASE GenerationTurn(w)
    BY <1>4, TurnPushes, StartedNames DEF GenerationTurn
<1>5. CASE GenerationResult(w) \/ SandboxFails(w) \/ SandboxReports(w) \/ UploadFails(w)
    BY <1>5, StepPushes, StartedNames
    DEF GenerationResult, SandboxFails, SandboxReports, UploadFails
<1>6. CASE CheckGenerated(w)
    <2>1. \/ CheckCancelled(w, "generated", "uploadStart")
          \/ CheckCancelled(w, "generated", "sandboxing")
        BY <1>6 DEF CheckGenerated
    <2> QED
        BY <2>1, CheckPushes, StartedNames
<1>7. CASE CheckBundle(w)
    BY <1>7, StepPushes, CheckPushes, StartedNames DEF CheckBundle
<1>8. CASE Upload(w)
    BY <1>8, StartedNames DEF Upload, Pushes, rowVars
<1> QED
    BY <1>1, <1>2, <1>3, <1>4, <1>5, <1>6, <1>7, <1>8 DEF ExecutionStep

\* What a step must show: logs still start well, and each run makes a step or none.
Traced == LogsStart' /\ \A r \in Runs : RunStep(r)

Owning == Executing \cup {"announcing"}

\* A step that leaves rows, logs and the slots at work alone.
LEMMA QuietTraced ==
    ASSUME LogsStart, UNCHANGED <<status, log>>,
           \A w \in Workers : pc'[w] \in Owning => pc'[w] = pc[w] /\ cur'[w] = cur[w]
    PROVE  Traced
<1>1. \A w \in Workers : pc'[w] \in Owning =>
          /\ pc'[w] = pc[w]
          /\ log'[cur'[w]] = log[cur[w]]
    OBVIOUS
<1>2. "claimed" \in Owning
    BY DEF Owning, Executing
<1>3. LogsStart'
    BY <1>1, <1>2 DEF LogsStart, Owning
<1>4. \A r \in Runs : RunStep(r)
    BY DEF RunStep
<1> QED
    BY <1>3, <1>4 DEF Traced

LEMMA InsertTraced ==
    ASSUME IInv, LogsStart, NEW p \in Projects, NEW k \in {"planning", "execution"},
           NEW q \in Runs \cup {NoRun}, InsertRun(p, k, q)
    PROVE  Traced
<1>1. PICK n \in Runs : n = nextRun
    BY InsertRunTypeOK DEF IInv
<1>2. /\ status' = [status EXCEPT ![n] = "queued"]
      /\ log' = [log EXCEPT ![n] = <<"run.queued">>]
      /\ UNCHANGED <<pc, cur>>
    BY <1>1 DEF InsertRun, slotVars
<1>3. status[n] = "absent"
    BY <1>1 DEF IInv, RowsConsistent, Runs
<1>4. /\ status'[n] = "queued" /\ log'[n] = <<"run.queued">>
      /\ \A r \in Runs \ {n} : status'[r] = status[r] /\ log'[r] = log[r]
    BY <1>1, <1>2 DEF IInv, TypeOK
<1>5. \A w \in Workers : pc[w] \in Owning => cur[w] \in Runs \ {n}
    BY <1>3 DEF IInv, Custody, SlotsOwnTheirRuns, Owning, Executing
<1>6. LogsStart'
    BY <1>2, <1>4, <1>5 DEF LogsStart, Owning, Executing
<1>7. RunStep(n)
    BY <1>3, <1>4, RunCreated
<1>8. \A r \in Runs \ {n} : RunStep(r)
    BY <1>4 DEF RunStep
<1> QED
    BY <1>6, <1>7, <1>8 DEF Traced

\* A step of one slot on its run.
LEMMA OwnerTraced ==
    ASSUME LogsStart, NEW w \in Workers, NEW r \in Runs, cur[w] = r, UNCHANGED cur,
           \A v \in Workers \ {w} : pc'[v] = pc[v] /\ (pc[v] \in Owning => cur[v] \in Runs \ {r}),
           \A q \in Runs \ {r} : status'[q] = status[q] /\ log'[q] = log[q],
           status'[r] \notin {"absent", "queued"},
           pc'[w] = "claimed" => log'[r] = <<"run.queued">>,
           pc'[w] \in Owning \ {"claimed"} => Len(log'[r]) > 1,
           RunStep(r)
    PROVE  Traced
<1>1. LogsStart'
    BY DEF LogsStart, Owning, Executing
<1>2. \A q \in Runs \ {r} : RunStep(q)
    BY DEF RunStep
<1> QED
    BY <1>1, <1>2 DEF Traced

LEMMA OthersApart ==
    ASSUME IInv, NEW w \in Workers, pc[w] \in Owning
    PROVE  /\ cur[w] \in Runs
           /\ \A v \in Workers \ {w} : pc[v] \in Owning => cur[v] \in Runs \ {cur[w]}
<1>1. \A v \in Workers : pc[v] \in Owning => pc[v] # "idle"
    BY DEF Owning, Executing
<1>2. \A v \in Workers : pc[v] \in Owning => cur[v] \in Runs
    BY <1>1 DEF IInv, Custody
<1> QED
    BY <1>2 DEF IInv, SlotsOwnTheirRuns, Owning

LEMMA ClaimTraced ==
    ASSUME IInv, LogsStart, NEW w \in Workers, ClaimRun(w)
    PROVE  Traced
<1>1. /\ pc[w] = "delivered" /\ cur[w] \in Runs /\ UNCHANGED <<cur, log>>
    BY DEF ClaimRun, ClaimIf, IInv, Custody
<1> PICK r \in Runs : cur[w] = r
    BY <1>1
<1>2. CASE status[r] = "queued"
    <2>1. status' = [status EXCEPT ![r] = "running"] /\ pc' = [pc EXCEPT ![w] = "claimed"]
        BY <1>2 DEF ClaimRun, ClaimIf, Goto
    <2>2. /\ status'[r] = "running" /\ pc'[w] = "claimed"
          /\ \A v \in Workers \ {w} : pc'[v] = pc[v]
          /\ \A q \in Runs \ {r} : status'[q] = status[q]
        BY <1>1, <2>1 DEF IInv, TypeOK
    <2>3. \A v \in Workers \ {w} : pc[v] \in Owning => cur[v] \in Runs \ {r}
        BY <1>2 DEF IInv, SlotsOwnTheirRuns, Custody, Owning, Executing
    <2>4. log'[r] = <<"run.queued">>
        BY <1>1, <1>2 DEF LogsStart
    <2>5. RunStep(r)
        BY <1>1, <1>2, <2>2, RunClaimed
    <2> QED
        BY <1>1, <2>2, <2>3, <2>4, <2>5, OwnerTraced
<1>3. CASE status[r] # "queued"
    <2>1. pc' = [pc EXCEPT ![w] = "finishing"] /\ UNCHANGED status
        BY <1>3 DEF ClaimRun, ClaimIf, Goto
    <2>2. \A v \in Workers : pc'[v] \in Owning => pc'[v] = pc[v]
        BY <2>1 DEF IInv, TypeOK, Owning, Executing
    <2> QED
        BY <1>1, <2>1, <2>2, QuietTraced
<1> QED
    BY <1>2, <1>3

LEMMA StartTraced ==
    ASSUME IInv, LogsStart, NEW w \in Workers, EmitStarted(w)
    PROVE  Traced
<1>1. /\ pc[w] = "claimed" /\ pc' = [pc EXCEPT ![w] = "reading"]
      /\ Append_(cur[w], <<"run.started">>) /\ UNCHANGED <<status, cur>>
    BY DEF EmitStarted, Emit, Goto, rowVars
<1>2. pc[w] \in Owning /\ pc[w] \in Executing
    BY <1>1 DEF Owning, Executing
<1> PICK r \in Runs : cur[w] = r
    BY <1>2, OthersApart
<1>3. /\ r \in Runs /\ status[r] = "running"
      /\ log[r] = <<"run.queued">>
    BY <1>1, <1>2, OthersApart DEF IInv, SlotsOwnTheirRuns, LogsStart
<1>4. /\ log'[r] = log[r] \o <<"run.started">>
      /\ \A q \in Runs \ {r} : log'[q] = log[q]
      /\ \A v \in Workers \ {w} : pc'[v] = pc[v]
      /\ pc'[w] = "reading"
    BY <1>1, <1>3 DEF Append_, IInv, TypeOK
<1>5. RunStep(r)
    <2>1. "run.started" \in EventTypes /\ log[r] \in Seq(EventTypes) /\ Len(log[r]) = 1
        BY <1>3 DEF EventTypes, IInv, TypeOK
    <2> QED
        BY <1>1, <1>3, <1>4, <2>1, TellsFacts, RunEmits
<1>6. Len(log'[r]) > 1
    <2>1. log'[r] = <<"run.queued">> \o <<"run.started">>
        BY <1>3, <1>4
    <2> QED
        BY <2>1
<1> QED
    BY <1>1, <1>2, <1>3, <1>4, <1>5, <1>6, OthersApart, OwnerTraced

LEMMA PushTraced ==
    ASSUME IInv, LogsStart, NEW w \in Workers, Pushes(w)
    PROVE  Traced
<1>1. /\ pc[w] \in Owning \ {"claimed"} /\ pc[w] \in Executing /\ UNCHANGED <<status, cur>>
    BY DEF Pushes, Started, Owning
<1> PICK r \in Runs : cur[w] = r
    BY <1>1, OthersApart
<1>2. PICK to \in Started : pc' = [pc EXCEPT ![w] = to]
    BY DEF Pushes, Goto
<1>3. /\ r \in Runs /\ status[r] = "running"
      /\ log[r] \in Seq(EventTypes)
      /\ Len(log[r]) > 1
    BY <1>1, OthersApart DEF IInv, TypeOK, SlotsOwnTheirRuns, LogsStart, Owning
<1>4. /\ \A v \in Workers \ {w} : pc'[v] = pc[v]
      /\ pc'[w] # "claimed"
    BY <1>2 DEF IInv, TypeOK, Started
<1>5. /\ RunStep(r) /\ Len(log'[r]) > 1
      /\ \A q \in Runs \ {r} : log'[q] = log[q]
    <2>1. CASE UNCHANGED log
        BY <1>1, <1>3, <2>1 DEF RunStep
    <2>2. CASE \E e \in Later : Append_(cur[w], <<e>>)
        <3>1. PICK e \in Later : Append_(cur[w], <<e>>)
            BY <2>2
        <3>2. /\ log'[r] = log[r] \o <<e>>
              /\ \A q \in Runs \ {r} : log'[q] = log[q]
            BY <1>3, <3>1 DEF Append_, IInv, TypeOK
        <3>3. e \in EventTypes
            BY DEF Later, Progress
        <3>4. Tells(e) = "progress"
            BY TellsLater
        <3>5. Len(log[r]) # 1
            <4> DEFINE n == Len(log[r])
            <4>1. n \in Nat /\ n > 1
                BY <1>3
            <4> HIDE DEF n
            <4>2. n # 1
                BY <4>1
            <4> QED
                BY <4>2 DEF n
        <3>6. Len(log'[r]) > 1
            BY <1>3, <3>2, <3>3
        <3>7. RunStep(r)
            BY <1>1, <1>3, <3>2, <3>3, <3>4, <3>5, RunEmits
        <3> QED
            BY <3>2, <3>6, <3>7
    <2> QED
        BY <2>1, <2>2 DEF Pushes
<1> QED
    BY <1>1, <1>3, <1>4, <1>5, OthersApart, OwnerTraced

LEMMA SaveTraced ==
    ASSUME IInv, LogsStart, NEW w \in Workers, SavePlan(w) \/ SaveArtifact(w)
    PROVE  Traced
<1>1. PICK first \in Later : /\ status' = [status EXCEPT ![cur[w]] = "succeeded"]
                             /\ Append_(cur[w], <<first, "run.succeeded">>)
    BY StartedNames DEF SavePlan, SaveArtifact, SaveSuccess
<1>2. /\ pc[w] \in Owning \ {"claimed"} /\ pc[w] \in Executing
      /\ pc' = [pc EXCEPT ![w] = "finishing"] /\ UNCHANGED cur
    BY DEF SavePlan, SaveArtifact, SaveSuccess, Goto, Owning, Executing
<1> PICK r \in Runs : cur[w] = r
    BY <1>2, OthersApart
<1>3. /\ status[r] = "running" /\ log[r] \in Seq(EventTypes) /\ Len(log[r]) > 1
    BY <1>2 DEF IInv, TypeOK, SlotsOwnTheirRuns, LogsStart, Owning
<1>4. /\ log'[r] = log[r] \o <<first, "run.succeeded">> /\ status'[r] = "succeeded"
      /\ \A q \in Runs \ {r} : status'[q] = status[q] /\ log'[q] = log[q]
      /\ \A v \in Workers \ {w} : pc'[v] = pc[v]
      /\ pc'[w] \notin Owning
    BY <1>1, <1>2 DEF Append_, IInv, TypeOK, Owning, Executing
<1>5. RunStep(r)
    BY <1>3, <1>4, RunSucceeds
<1>6. pc'[w] # "claimed"
    BY <1>4 DEF Owning, Executing
<1> QED
    BY <1>2, <1>4, <1>5, <1>6, OthersApart, OwnerTraced

LEMMA FinalizeStatusTraced ==
    ASSUME IInv, LogsStart, NEW w \in Workers, FinalizeStatus(w)
    PROVE  Traced
<1>1. /\ pc[w] \in Owning \ {"claimed"} /\ pc[w] \in Executing
      /\ pc' = [pc EXCEPT ![w] = "announcing"] /\ UNCHANGED <<cur, log>>
    BY DEF FinalizeStatus, FinalizeThen, Goto, Owning, Executing
<1>2. PICK s \in {"failed", "cancelled"} : status' = [status EXCEPT ![cur[w]] = s]
    BY DEF FinalizeStatus, FinalizeThen
<1> PICK r \in Runs : cur[w] = r
    BY <1>1, OthersApart
<1>3. /\ status[r] = "running" /\ log[r] \in Seq(EventTypes) /\ Len(log[r]) > 1
    BY <1>1 DEF IInv, TypeOK, SlotsOwnTheirRuns, LogsStart, Owning
<1>4. /\ status'[r] = s
      /\ \A q \in Runs \ {r} : status'[q] = status[q]
      /\ \A v \in Workers \ {w} : pc'[v] = pc[v]
      /\ pc'[w] # "claimed"
    BY <1>1, <1>2 DEF IInv, TypeOK
<1>5. RunStep(r)
    BY <1>1, <1>3, <1>4, RunSettles
<1> QED
    BY <1>1, <1>3, <1>4, <1>5, OthersApart, OwnerTraced

LEMMA FinalizeEmitTraced ==
    ASSUME IInv, LogsStart, NEW w \in Workers, FinalizeEmit(w)
    PROVE  Traced
<1>1. /\ pc[w] = "announcing" /\ Append_(cur[w], <<EventOf(status[cur[w]])>>)
      /\ pc' = [pc EXCEPT ![w] = "finishing"] /\ UNCHANGED <<cur, status>>
    BY DEF FinalizeEmit, Emit, Goto, rowVars
<1>2. pc[w] \in Owning
    BY <1>1 DEF Owning
<1> PICK r \in Runs : cur[w] = r
    BY <1>2, OthersApart
<1>3. /\ status[r] \in {"failed", "cancelled"} /\ OpenLog(r)
      /\ log[r] \in Seq(EventTypes) /\ Len(log[r]) > 1
    BY <1>1 DEF IInv, TypeOK, SlotsOwnTheirRuns, LogsStart
<1>4. /\ log'[r] = log[r] \o <<EventOf(status[r])>>
      /\ \A q \in Runs \ {r} : log'[q] = log[q]
      /\ \A v \in Workers \ {w} : pc'[v] = pc[v]
      /\ pc'[w] \notin Owning /\ pc'[w] # "claimed"
    BY <1>1 DEF Append_, IInv, TypeOK, Owning, Executing
<1>5. RunStep(r)
    BY <1>1, <1>3, <1>4, RunAnnounced
<1>6. status'[r] \notin {"absent", "queued"}
    BY <1>1, <1>3
<1> QED
    BY <1>1, <1>2, <1>4, <1>5, <1>6, OthersApart, OwnerTraced

LEMMA WebTraced == ASSUME IInv, LogsStart, WebStep PROVE Traced
<1>1. ASSUME NEW p \in Projects, StartPlanning(p) PROVE Traced
    BY <1>1, InsertTraced DEF StartPlanning
<1>2. ASSUME NEW p \in Projects, StartExecution(p) PROVE Traced
    BY <1>2, InsertTraced DEF StartExecution, PlansOf
<1>3. ASSUME NEW r \in Runs, RetryRunAdmin(r) PROVE Traced
    <2>1. /\ project[r] \in Projects /\ kind[r] \in {"planning", "execution"}
          /\ parent[r] \in Runs \cup {NoRun}
        BY DEF IInv, TypeOK
    <2> QED
        BY <1>3, <2>1, InsertTraced DEF RetryRunAdmin
<1>4. ASSUME NEW p \in Projects, AppendRequirement(p) PROVE Traced
    BY <1>4, QuietTraced DEF AppendRequirement, slotVars
<1>5. ASSUME NEW r \in Runs,
             ReplayStart(r) \/ CancelRun(r) \/ EnqueueRun(r) \/ EnqueueFails(r)
      PROVE  Traced
    BY <1>5, QuietTraced
    DEF ReplayStart, CancelRun, EnqueueRun, EnqueueFails, rowVars, slotVars
<1> QED
    BY <1>1, <1>2, <1>3, <1>4, <1>5 DEF WebStep

\* The queue, a delivery and a leaving slot touch no run.
LEMMA OtherTraced ==
    ASSUME IInv, LogsStart,
           \/ QueueStep
           \/ \E w \in Workers : CompleteJob(w) \/ ProcessRunThrows(w) \/ Crash(w)
           \/ \E w \in Workers, r \in Runs : Deliver(w, r)
    PROVE  Traced
<1>1. CASE QueueStep
    <2>1. UNCHANGED <<status, log, pc, cur>>
        BY <1>1 DEF QueueStep, ReconcileQueuedRuns, ReconcileRuns, LoseLock, StalledJob,
            ExpireFailedJob, rowVars, slotVars
    <2> QED
        BY <2>1, QuietTraced
<1>2. ASSUME NEW w \in Workers, CompleteJob(w) \/ ProcessRunThrows(w) \/ Crash(w) PROVE Traced
    <2>1. FreeSlot(w) /\ UNCHANGED <<status, log>>
        BY <1>2 DEF CompleteJob, ProcessRunThrows, Crash, rowVars
    <2>2. \A v \in Workers : pc'[v] \in Owning => pc'[v] = pc[v] /\ cur'[v] = cur[v]
        BY <2>1 DEF FreeSlot, IInv, TypeOK, Owning, Executing
    <2> QED
        BY <2>1, <2>2, QuietTraced
<1>3. ASSUME NEW w \in Workers, NEW r \in Runs, Deliver(w, r) PROVE Traced
    <2>1. UNCHANGED <<status, log>>
        BY <1>3 DEF Deliver, rowVars
    <2>2. \A v \in Workers : pc'[v] \in Owning => pc'[v] = pc[v] /\ cur'[v] = cur[v]
        BY <1>3 DEF Deliver, IInv, TypeOK, Owning, Executing
    <2> QED
        BY <2>1, <2>2, QuietTraced
<1> QED
    BY <1>1, <1>2, <1>3

LEMMA NextTraced == ASSUME IInv, LogsStart, Next PROVE Traced
<1>1. ASSUME NEW w \in Workers, SlotStep(w) PROVE Traced
    <2>1. CASE ClaimRun(w) \/ EmitStarted(w)
        BY <2>1, ClaimTraced, StartTraced
    <2>2. CASE \/ ReadRequest(w) \/ ReadRequestFails(w)
               \/ PlanningStep(w) /\ ~SavePlan(w)
               \/ ExecutionStep(w) /\ ~SaveArtifact(w)
        BY <2>2, ReadPushes, PlanningPushes, ExecutionPushes, PushTraced
    <2>3. CASE SavePlan(w) \/ SaveArtifact(w)
        BY <2>3, SaveTraced
    <2>4. CASE FinalizeStatus(w) \/ FinalizeEmit(w)
        BY <2>4, FinalizeStatusTraced, FinalizeEmitTraced
    <2>5. CASE CompleteJob(w)
        BY <2>5, OtherTraced
    <2> QED
        BY <1>1, <2>1, <2>2, <2>3, <2>4, <2>5 DEF SlotStep
<1> QED
    BY <1>1, WebTraced, OtherTraced DEF Next

LEMMA InitLogsStart == Init => LogsStart
BY DEF Init, LogsStart, Executing

\* For each run, what the web tier, the queue and the worker do together is one run that
\* is created, claimed, told of and settled in that order.
THEOREM BackboneImplementsRunLog == Spec => ImplementsRunLog
<1>1. Init => \A r \in Runs : RunOf(r)!Init
    <2> SUFFICES ASSUME Init, NEW r \in Runs PROVE RunOf(r)!Init
        OBVIOUS
    <2>1. status[r] = "absent" /\ log[r] = <<>>
        BY DEF Init
    <2>2. Told(<<>>) = <<>>
        BY DEF Told
    <2> QED
        BY <2>1, <2>2 DEF RunOf!Init, Told
<1>2. IInv /\ LogsStart /\ [Next]_vars => LogsStart'
    BY NextTraced, QuietTraced DEF Traced, vars, slotVars, rowVars
<1>3. IInv /\ LogsStart /\ [Next]_vars
          => [\A r \in Runs : UNCHANGED <<status[r], log[r]>> \/ RunOf(r)!Next]_<<status, log>>
    BY NextTraced DEF Traced, RunStep, vars, rowVars
<1> QED
    BY <1>1, <1>2, <1>3, InitLogsStart, SpecIInv, PTL DEF Spec, ImplementsRunLog

\* A run of the backbone is both what RunLifecycle allows its operators to rely on and what
\* RunLog allows its readers to.
THEOREM BackboneImplementsAbstractions == Spec => ImplementsAbstractions
BY BackboneImplementsLifecycle, BackboneImplementsRunLog, PTL DEF ImplementsAbstractions

-----------------------------------------------------------------------------
(* Runs are tended: no run is left running or unannounced by workers that    *)
(* stay intact.                                                              *)

Executed(r) == \E w \in Workers : cur[w] = r /\ pc[w] \in Executing

Announced(r) ==
    \/ log[r][Len(log[r])] = EventOf(status[r])
    \/ \E w \in Workers : cur[w] = r /\ pc[w] = "announcing"

Tended(r) ==
    /\ status[r] = "running" => Executed(r)
    /\ status[r] \in Terminal => Announced(r)

\* While the workers are intact, every run that runs or has settled is tended.
AllTended == WorkersIntact => \A r \in Runs : Tended(r)

\* Faults are only ever added.
LEMMA IntactBefore == ASSUME IInv, [Next]_vars, WorkersIntact' PROVE WorkersIntact
<1>1. faults \in Seq(FaultKinds)
    BY DEF IInv, TypeOK
<1>2. UNCHANGED faults \/ \E k \in FaultKinds : faults' = Append(faults, k)
    <2>1. CASE WebStep
        BY <2>1 DEF WebStep, StartPlanning, StartExecution, AppendRequirement, ReplayStart,
            RetryRunAdmin, CancelRun, EnqueueRun, EnqueueFails, InsertRun, Fault
    <2>2. CASE QueueStep
        BY <2>2 DEF QueueStep, ReconcileQueuedRuns, ReconcileRuns, LoseLock, StalledJob,
            ExpireFailedJob, Fault
    <2>3. ASSUME NEW w \in Workers, SlotStep(w) PROVE UNCHANGED faults
        <3>1. ASSUME NEW to, Advances(w, to) PROVE UNCHANGED faults
            BY <3>1 DEF Advances
        <3>2. CASE \/ EmitStarted(w) \/ ReadRequest(w) \/ ReadRequestFails(w)
                   \/ PlanningStep(w) /\ ~SavePlan(w)
                   \/ ExecutionStep(w) /\ ~SaveArtifact(w)
            BY <3>1, <3>2, RequestStepAdvances, PlanningStepAdvances, ExecutionStepAdvances
        <3>3. CASE \/ ClaimRun(w) \/ SavePlan(w) \/ SaveArtifact(w) \/ FinalizeStatus(w)
                   \/ FinalizeEmit(w) \/ CompleteJob(w)
            BY <3>3 DEF ClaimRun, ClaimIf, SavePlan, SaveArtifact, SaveSuccess, FinalizeStatus,
                FinalizeThen, FinalizeEmit, Emit, CompleteJob
        <3> QED
            BY <2>3, <3>2, <3>3 DEF SlotStep
    <2>4. ASSUME NEW w \in Workers, ProcessRunThrows(w) \/ Crash(w)
          PROVE  \E k \in FaultKinds : faults' = Append(faults, k)
        BY <2>4 DEF ProcessRunThrows, Crash, Fault
    <2>5. ASSUME NEW w \in Workers, NEW r \in Runs, Deliver(w, r) PROVE UNCHANGED faults
        BY <2>5 DEF Deliver
    <2> QED
        BY <2>1, <2>2, <2>3, <2>4, <2>5 DEF Next, vars
<1>3. ASSUME NEW k \in FaultKinds, faults' = Append(faults, k) PROVE WorkersIntact
    <2>1. /\ Len(faults') = Len(faults) + 1
          /\ \A i \in 1..Len(faults) : faults'[i] = faults[i]
        BY <1>1, <1>3
    <2>2. \A i \in 1..Len(faults) : i \in 1..Len(faults')
        BY <1>1, <2>1
    <2> QED
        BY <2>1, <2>2 DEF WorkersIntact
<1> QED
    BY <1>2, <1>3 DEF WorkersIntact

\* A fault of a worker shows.
LEMMA FaultShows ==
    ASSUME IInv, NEW w \in Workers, ProcessRunThrows(w) \/ Crash(w)
    PROVE  ~WorkersIntact'
<1>1. PICK k \in {"throw", "crash"} : k \in FaultKinds /\ faults' = Append(faults, k)
    BY DEF ProcessRunThrows, Crash, Fault
<1>2. faults \in Seq(FaultKinds)
    BY DEF IInv, TypeOK
<1>3. Len(faults') = Len(faults) + 1 /\ Len(faults) \in Nat /\ faults'[Len(faults) + 1] = k
    BY <1>1, <1>2
<1> QED
    BY <1>1, <1>3 DEF WorkersIntact

\* A step that leaves the rows, the logs and the slots at work alone, but for new rows.
LEMMA QuietTended ==
    ASSUME NEW r \in Runs, Tended(r),
           \/ status'[r] = status[r] /\ log'[r] = log[r]
           \/ status'[r] = "queued",
           \A w \in Workers : pc[w] \in Executing \cup {"announcing"} =>
                pc'[w] = pc[w] /\ cur'[w] = cur[w]
    PROVE  Tended(r)'
BY DEF Tended, Executed, Announced, Terminal

LEMMA WebTended == ASSUME IInv, WebStep, NEW r \in Runs, Tended(r) PROVE Tended(r)'
<1>1. UNCHANGED slotVars
    BY DEF WebStep, StartPlanning, StartExecution, AppendRequirement, ReplayStart,
        RetryRunAdmin, CancelRun, EnqueueRun, EnqueueFails, InsertRun
<1>2. \/ UNCHANGED <<status, log>>
      \/ \E p, k, q : InsertRun(p, k, q)
    BY DEF WebStep, StartPlanning, StartExecution, AppendRequirement, ReplayStart,
        RetryRunAdmin, CancelRun, EnqueueRun, EnqueueFails, rowVars
<1>3. \/ status'[r] = status[r] /\ log'[r] = log[r]
      \/ status'[r] = "queued"
    BY <1>2 DEF InsertRun, IInv, TypeOK
<1> QED
    BY <1>1, <1>3, QuietTended DEF slotVars

LEMMA AdvanceTended ==
    ASSUME IInv, NEW w \in Workers, NEW to, Advances(w, to), NEW r \in Runs, Tended(r)
    PROVE  Tended(r)'
<1>1. /\ pc'[w] = to /\ to \in Executing /\ cur' = cur /\ status' = status
      /\ \A v \in Workers \ {w} : pc'[v] = pc[v]
    BY DEF Advances, Goto, rowVars, IInv, TypeOK
<1>2. /\ status[cur[w]] = "running"
      /\ \A q \in Runs \ {cur[w]} : log'[q] = log[q]
    BY AdvanceLogs
<1>3. status[r] = "running" => Executed(r)'
    BY <1>1 DEF Tended, Executed
<1>4. ASSUME status[r] \in Terminal PROVE Announced(r)'
    <2>1. r # cur[w] /\ pc[w] # "announcing"
        BY <1>2, <1>4 DEF Terminal, Advances, Executing
    <2> QED
        BY <1>1, <1>2, <1>4, <2>1 DEF Tended, Announced
<1> QED
    BY <1>1, <1>3, <1>4 DEF Tended

LEMMA ClaimTended ==
    ASSUME IInv, NEW w \in Workers, ClaimRun(w), NEW r \in Runs, Tended(r)
    PROVE  Tended(r)'
<1>1. /\ pc[w] = "delivered" /\ cur[w] \in Runs /\ UNCHANGED <<cur, log>>
      /\ \A v \in Workers \ {w} : pc'[v] = pc[v]
    BY DEF ClaimRun, ClaimIf, Goto, IInv, TypeOK, Custody
<1>2. pc[w] \notin Executing \cup {"announcing"}
    BY <1>1 DEF Executing
<1>3. CASE status[cur[w]] = "queued" /\ r = cur[w]
    <2>1. status'[r] = "running" /\ pc'[w] = "claimed"
        BY <1>1, <1>3 DEF ClaimRun, ClaimIf, Goto, IInv, TypeOK
    <2> QED
        BY <1>1, <1>3, <2>1 DEF Tended, Executed, Executing, Terminal
<1>4. CASE status[cur[w]] # "queued" \/ r # cur[w]
    <2>1. status'[r] = status[r]
        BY <1>1, <1>4 DEF ClaimRun, ClaimIf, IInv, TypeOK
    <2> QED
        BY <1>1, <1>2, <2>1, QuietTended
<1> QED
    BY <1>3, <1>4

\* A slot that settles its run, or announces it, tends the others as before.
LEMMA OthersTended ==
    ASSUME IInv, NEW w \in Workers, NEW r \in Runs \ {cur[w]}, Tended(r),
           status'[r] = status[r], log'[r] = log[r], UNCHANGED cur,
           \A v \in Workers \ {w} : pc'[v] = pc[v]
    PROVE  Tended(r)'
BY DEF Tended, Executed, Announced, Terminal

LEMMA SaveTended ==
    ASSUME IInv, NEW w \in Workers, SavePlan(w) \/ SaveArtifact(w), NEW r \in Runs, Tended(r)
    PROVE  Tended(r)'
<1>1. PICK first \in Progress : /\ status' = [status EXCEPT ![cur[w]] = "succeeded"]
                                /\ Append_(cur[w], <<first, "run.succeeded">>)
    BY DEF SavePlan, SaveArtifact, SaveSuccess, Progress, EventTypes, TerminalEvents
<1>2. /\ UNCHANGED cur /\ cur[w] \in Runs
      /\ \A v \in Workers \ {w} : pc'[v] = pc[v]
    BY DEF SavePlan, SaveArtifact, SaveSuccess, Goto, IInv, TypeOK, Custody
<1>3. CASE r = cur[w]
    <2>1. status'[r] = "succeeded"
        BY <1>1, <1>3 DEF IInv, TypeOK
    <2>2. log[r] \in Seq(EventTypes) /\ log'[r] = log[r] \o <<first, "run.succeeded">>
        BY <1>1, <1>3 DEF Append_, IInv, TypeOK
    <2>3. log'[r][Len(log'[r])] = "run.succeeded"
        BY <2>2
    <2> QED
        BY <2>1, <2>3, EventOfFacts DEF Tended, Announced
<1>4. CASE r # cur[w]
    <2>1. status'[r] = status[r] /\ log'[r] = log[r]
        BY <1>1, <1>4 DEF Append_, IInv, TypeOK
    <2> QED
        BY <1>2, <1>4, <2>1, OthersTended
<1> QED
    BY <1>3, <1>4

LEMMA FinalizeStatusTended ==
    ASSUME IInv, NEW w \in Workers, FinalizeStatus(w), NEW r \in Runs, Tended(r)
    PROVE  Tended(r)'
<1>1. /\ UNCHANGED <<cur, log>> /\ cur[w] \in Runs
      /\ pc'[w] = "announcing"
      /\ \A v \in Workers \ {w} : pc'[v] = pc[v]
      /\ \E s \in {"failed", "cancelled"} : status' = [status EXCEPT ![cur[w]] = s]
    BY DEF FinalizeStatus, FinalizeThen, Goto, IInv, TypeOK, Custody
<1>2. CASE r = cur[w]
    <2>1. status'[r] # "running" /\ Announced(r)'
        BY <1>1, <1>2 DEF Announced, IInv, TypeOK
    <2> QED
        BY <2>1 DEF Tended
<1>3. CASE r # cur[w]
    <2>1. status'[r] = status[r] /\ log'[r] = log[r]
        BY <1>1, <1>3
    <2> QED
        BY <1>1, <1>3, <2>1, OthersTended
<1> QED
    BY <1>2, <1>3

LEMMA FinalizeEmitTended ==
    ASSUME IInv, NEW w \in Workers, FinalizeEmit(w), NEW r \in Runs, Tended(r)
    PROVE  Tended(r)'
<1> DEFINE e == EventOf(status[cur[w]])
<1>1. /\ UNCHANGED <<cur, status>> /\ cur[w] \in Runs
      /\ pc[w] = "announcing" /\ Append_(cur[w], <<e>>)
      /\ \A v \in Workers \ {w} : pc'[v] = pc[v]
    BY DEF FinalizeEmit, Emit, Goto, rowVars, IInv, TypeOK, Custody
<1>2. status[cur[w]] \in {"failed", "cancelled"} /\ e \in EventTypes
    BY <1>1, EventOfType DEF IInv, SlotsOwnTheirRuns
<1> HIDE DEF e
<1>3. CASE r = cur[w]
    <2>1. log[r] \in Seq(EventTypes) /\ log'[r] = log[r] \o <<e>>
        BY <1>1, <1>3 DEF Append_, IInv, TypeOK
    <2>2. log'[r][Len(log'[r])] = e
        BY <1>2, <2>1
    <2> QED
        BY <1>1, <1>2, <1>3, <2>2 DEF Tended, Announced, e
<1>4. CASE r # cur[w]
    <2>1. log'[r] = log[r]
        BY <1>1, <1>4 DEF Append_, IInv, TypeOK
    <2> QED
        BY <1>1, <1>4, <2>1, OthersTended
<1> QED
    BY <1>3, <1>4

LEMMA SlotTended ==
    ASSUME IInv, NEW w \in Workers, SlotStep(w), NEW r \in Runs, Tended(r)
    PROVE  Tended(r)'
<1>1. CASE \/ EmitStarted(w) \/ ReadRequest(w) \/ ReadRequestFails(w)
           \/ PlanningStep(w) /\ ~SavePlan(w)
           \/ ExecutionStep(w) /\ ~SaveArtifact(w)
    BY <1>1, RequestStepAdvances, PlanningStepAdvances, ExecutionStepAdvances, AdvanceTended
<1>2. CASE CompleteJob(w)
    <2>1. pc[w] = "finishing" /\ FreeSlot(w) /\ UNCHANGED <<status, log>>
        BY <1>2 DEF CompleteJob, rowVars
    <2>2. \A v \in Workers : pc[v] \in Executing \cup {"announcing"} =>
                pc'[v] = pc[v] /\ cur'[v] = cur[v]
        BY <2>1 DEF FreeSlot, IInv, TypeOK, Executing
    <2> QED
        BY <2>1, <2>2, QuietTended
<1> QED
    BY <1>1, <1>2, ClaimTended, SaveTended, FinalizeStatusTended, FinalizeEmitTended
    DEF SlotStep

LEMMA NextTended == IInv /\ AllTended /\ [Next]_vars => AllTended'
<1> SUFFICES ASSUME IInv, AllTended, [Next]_vars, WorkersIntact', NEW r \in Runs
             PROVE  Tended(r)'
    BY DEF AllTended
<1>1. Tended(r)
    BY IntactBefore DEF AllTended
<1>2. CASE WebStep
    BY <1>1, <1>2, WebTended
<1>3. CASE QueueStep \/ UNCHANGED vars
    <2>1. UNCHANGED <<status, log, pc, cur>>
        BY <1>3 DEF QueueStep, ReconcileQueuedRuns, ReconcileRuns, LoseLock, StalledJob,
            ExpireFailedJob, rowVars, slotVars, vars
    <2> QED
        BY <1>1, <2>1, QuietTended
<1>4. ASSUME NEW w \in Workers, SlotStep(w) PROVE Tended(r)'
    BY <1>1, <1>4, SlotTended
<1>5. ASSUME NEW w \in Workers, ProcessRunThrows(w) \/ Crash(w) PROVE FALSE
    BY <1>5, FaultShows
<1>6. ASSUME NEW w \in Workers, NEW q \in Runs, Deliver(w, q) PROVE Tended(r)'
    <2>1. /\ UNCHANGED <<status, log>> /\ pc[w] = "idle"
          /\ \A v \in Workers \ {w} : pc'[v] = pc[v] /\ cur'[v] = cur[v]
        BY <1>6 DEF Deliver, rowVars, IInv, TypeOK
    <2>2. pc[w] \notin Executing \cup {"announcing"}
        BY <2>1 DEF Executing
    <2> QED
        BY <1>1, <2>1, <2>2, QuietTended
<1> QED
    BY <1>2, <1>3, <1>4, <1>5, <1>6 DEF Next

LEMMA SpecAllTended == Spec => []AllTended
<1>1. Init => AllTended
    BY DEF Init, AllTended, Tended, Terminal
<1> QED
    BY <1>1, NextTended, SpecIInv, PTL DEF Spec

\* Lost enqueues and locks, double deliveries and every caught failure strand no run:
\* what is running is executed, for as long as no process dies and no rejection escapes
\* processRun.
THEOREM RunningRunsAreExecuted == Spec => []RunningIsExecuted
<1>1. AllTended => RunningIsExecuted
    BY DEF AllTended, Tended, Executed, RunningIsExecuted
<1> QED
    BY <1>1, SpecAllTended, PTL

\* Between the status that finalizeFailure writes and its terminal event a slot stands
\* ready to append it: no settled run stays unannounced, under the same condition.
THEOREM OutcomesAreAnnounced == Spec => []OutcomeIsAnnounced
<1>1. AllTended => OutcomeIsAnnounced
    BY DEF AllTended, Tended, Announced, OutcomeIsAnnounced
<1> QED
    BY <1>1, SpecAllTended, PTL
=============================================================================
