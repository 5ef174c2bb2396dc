---------------------------- MODULE RunEventStream ----------------------------
(***************************************************************************)
(* How the events of one run reach the run panel: the worker persists each *)
(* event and then publishes it to Redis, the event-stream route subscribes,*)
(* replays what PostgreSQL holds and forwards what is published, and the   *)
(* panel applies what its EventSource receives.  The run itself is RunLog, *)
(* which RunBackbone implements.  A publication may be rejected, repeated  *)
(* or never made, and Redis may be interrupted: what an open stream misses *)
(* that way it never asks for again.                                       *)
(*                                                                         *)
(* An event is its sequence number; the panel is loaded or started once.   *)
(***************************************************************************)
EXTENDS Naturals, Sequences, FiniteSets

CONSTANTS
    MaxProgress,    \* bound: events before the outcome of the run
    MaxDrops,       \* bound: broken HTTP connections
    MaxFaults       \* bound: faults of Redis connections and of the worker

ASSUME ConstantsAssumption == MaxProgress \in Nat \ {0} /\ MaxDrops \in Nat /\ MaxFaults \in Nat

VARIABLES
    \* the row's status and its log: event types by sequence number
    row, events,
    \* the job that executes the run, persisted events it has still to publish
    worker, unpublished,
    \* the route: phase, cursor (lastSentSeq), liveBuffer, what the replay read
    server, cursor, buffer, replay,
    \* Redis: the stream's subscription (none, up, down while interrupted), messages on
    \* the way to it
    link, wire,
    \* written to the response, not yet received
    outbox,
    \* the panel: page load, status, events, EventSource, its Last-Event-ID
    page, panel, shown, source, lastEventId,
    \* faults so far
    drops, faults,
    \* history: events the open stream missed, or an earlier one before its last cursor
    lost

workerVars == <<row, events, worker, unpublished>>
serverVars == <<server, cursor, buffer, replay>>
redisVars == <<link, wire>>
panelVars == <<page, panel, shown, source, lastEventId>>
faultVars == <<drops, faults, lost>>
vars == <<workerVars, serverVars, redisVars, outbox, panelVars, faultVars>>

Active == {"queued", "running"}
Terminal == {"succeeded", "failed", "cancelled"}
EventTypes == {"queued", "started", "progress"} \cup Terminal

\* Every event type taken for a status.
StatusOfAnyType == [type \in EventTypes |-> IF type = "started" THEN "running" ELSE type]

\* The status an event gives the panel, if any (statusByType).
StatusByType == [type \in Terminal \cup {"started"} |->
                    IF type = "started" THEN "running" ELSE type]

IsTerminal(seq) == events[seq] \in Terminal

Init ==
    /\ row = "queued"
    /\ events = <<"queued">>
    /\ worker = "working" /\ unpublished = <<>>
    /\ server = "none" /\ cursor = 0 /\ buffer = <<>> /\ replay = <<>>
    /\ link = "none" /\ wire = <<>>
    /\ outbox = <<>>
    /\ page = "none" /\ panel = "queued" /\ shown = <<>>
    /\ source = "none" /\ lastEventId = 0
    /\ drops = 0 /\ faults = 0 /\ lost = {}

-----------------------------------------------------------------------------
(* The worker. *)

\* What the row and the log do is RunLog's.
Run == INSTANCE RunLog

\* Persisted events are published afterwards in the same order, before the next step.
Persist(n) ==
    /\ unpublished = <<>>
    /\ unpublished' = [i \in 1..n |-> Len(events) + i]
    /\ UNCHANGED worker

ClaimRun ==
    /\ Run!Claim
    /\ UNCHANGED <<worker, unpublished, serverVars, redisVars, outbox, panelVars, faultVars>>

EmitProgress ==
    /\ worker = "working"
    /\ Len(events) <= MaxProgress
    /\ Run!Emit /\ Persist(1)
    /\ UNCHANGED <<serverVars, redisVars, outbox, panelVars, faultVars>>

SaveSuccess ==
    /\ worker = "working"
    /\ Run!Succeed /\ Persist(2)
    /\ UNCHANGED <<serverVars, redisVars, outbox, panelVars, faultVars>>

FinalizeStatus ==
    /\ worker # "stopped"
    /\ unpublished = <<>>
    /\ Run!Settle
    /\ worker = "failing" => row' = "failed"
    /\ UNCHANGED <<worker, unpublished, serverVars, redisVars, outbox, panelVars, faultVars>>

\* The terminal event appended while the row still says running.
FinalizeEmitEarly ==
    /\ row \in {"running", "failed"}
    /\ ~IsTerminal(Len(events))
    /\ events' = events \o <<"failed">> /\ Persist(1)
    /\ UNCHANGED <<row, serverVars, redisVars, outbox, panelVars, faultVars>>

FinalizeEmit ==
    /\ worker # "stopped"
    /\ Run!Announce /\ Persist(1)
    /\ UNCHANGED <<serverVars, redisVars, outbox, panelVars, faultVars>>

Fault ==
    /\ faults < MaxFaults
    /\ faults' = faults + 1

Elements(s) == {s[i] : i \in 1..Len(s)}

\* What a stream that has read its replay is not sent, and has not read, it misses.
Miss(seqs) ==
    lost' = lost \cup {seq \in seqs : /\ server \in {"replaying", "live"}
                                      /\ seq > cursor + Len(replay)}

\* A message without a subscriber is gone.
Publish ==
    /\ unpublished # <<>>
    /\ unpublished' = Tail(unpublished)
    /\ wire' = IF link = "up" THEN Append(wire, Head(unpublished)) ELSE wire
    /\ Miss(IF link = "down" THEN {Head(unpublished)} ELSE {})
    /\ UNCHANGED <<row, events, worker, serverVars, link, outbox, panelVars, drops, faults>>

\* PUBLISH is executed and its answer lost: it is sent again, or rejected.
PublishUnanswered ==
    /\ unpublished # <<>>
    /\ link = "up"
    /\ Fault
    /\ wire' = Append(wire, Head(unpublished))
    /\ UNCHANGED <<workerVars, serverVars, link, outbox, panelVars, drops, lost>>

\* The job ends, or goes on, without the publications it still owed.
AbandonPublications ==
    /\ Fault
    /\ unpublished' = <<>>
    /\ Miss(Elements(unpublished) \ (Elements(wire) \cup Elements(buffer)))
    /\ UNCHANGED <<row, events, serverVars, redisVars, outbox, panelVars, drops>>

\* publish rejects: caught by the planner or around the sandbox, where the run then
\* fails, and by nobody elsewhere.
PublishFails ==
    /\ unpublished # <<>>
    /\ worker' \in {"stopped"} \cup
          IF row = "running" /\ events[Head(unpublished)] = "progress" THEN {"failing"} ELSE {}
    /\ AbandonPublications

\* The process dies, or a statement rejects: the claim refuses whoever comes next.
WorkerStops ==
    /\ worker # "stopped"
    /\ row = "running" \/ (row \in Terminal /\ (unpublished # <<>> \/ ~IsTerminal(Len(events))))
    /\ worker' = "stopped"
    /\ AbandonPublications

-----------------------------------------------------------------------------
(* The route: GET and the start callback of its stream. *)

Disconnect == link' = "none" /\ wire' = <<>>

\* The sequence numbers of a finite set in ascending order.
Ascending(S) ==
    CHOOSE s \in [1..Cardinality(S) -> S] :
        /\ Elements(s) = S
        /\ \A i, j \in DOMAIN s : i < j => s[i] < s[j]

\* send() of events above the cursor, in ascending order; a terminal one, always the
\* last of its run, closes the stream and its Redis connection.
Send(fresh) ==
    LET ended == \E i \in 1..Len(fresh) : IsTerminal(fresh[i])
    IN /\ outbox' = outbox \o fresh
       /\ cursor' = IF fresh = <<>> THEN cursor ELSE fresh[Len(fresh)]
       /\ server' = IF ended THEN "closed" ELSE "live"
       /\ IF ended THEN Disconnect ELSE UNCHANGED link

\* 404, 500 or a redirect to the sign-in page: an EventSource does not try again.
RefuseStream ==
    /\ source = "connecting"
    /\ server = "none"
    /\ source' = "refused"
    /\ UNCHANGED <<workerVars, serverVars, redisVars, outbox, page, panel, shown, lastEventId,
                   faultVars>>

\* The request is authorised; the cursor starts at Last-Event-ID.
OpenStream ==
    /\ source = "connecting"
    /\ server = "none"
    /\ server' = "subscribing"
    /\ cursor' = lastEventId
    /\ buffer' = <<>>
    /\ replay' = <<>>
    /\ UNCHANGED <<workerVars, redisVars, outbox, panelVars, faultVars>>

Subscribe ==
    /\ server = "subscribing"
    /\ server' = "reading"
    /\ link' = "up"
    /\ UNCHANGED <<workerVars, cursor, buffer, replay, wire, outbox, panelVars, faultVars>>

\* getRunEventsAfter, issued at phase from.
ReadAt(from, to) ==
    /\ server = from
    /\ server' = to
    /\ replay' = [i \in 1..(Len(events) - cursor) |-> cursor + i]
    /\ lost' = lost \cap 1..cursor
    /\ UNCHANGED <<workerVars, cursor, buffer, redisVars, outbox, panelVars, drops, faults>>

\* A read that does not wait for the subscription.
ReadEventsEarly ==
    \/ ReadAt("subscribing", "replaying") \/ ReadAt("reading", "replaying")
    \/ /\ server \in {"replaying", "live"} /\ link = "none"
       /\ link' = "up"
       /\ UNCHANGED <<workerVars, serverVars, wire, outbox, panelVars, faultVars>>

ReadEvents == ReadAt("reading", "replaying")

\* What is in the buffer above a cursor.
BufferedAfter(last) == {buffer[i] : i \in {j \in 1..Len(buffer) : buffer[j] > last}}

\* The read returned: forward it, then what was buffered meanwhile, sorted.
ReplayEvents ==
    /\ server = "replaying"
    /\ Send(replay \o Ascending(BufferedAfter(cursor + Len(replay))))
    /\ buffer' = <<>>
    /\ replay' = <<>>
    /\ IF server' = "closed" THEN TRUE ELSE UNCHANGED wire
    /\ UNCHANGED <<workerVars, panelVars, faultVars>>

\* send() of one event, skipped when it is not above the cursor.
Forward(seq) == Send(IF seq > cursor THEN <<seq>> ELSE <<>>)

\* Messages that arrive before the replay is through are not kept.
OnMessageUnbuffered ==
    /\ wire # <<>>
    /\ \/ /\ server \in {"reading", "replaying"}
          /\ wire' = Tail(wire)
          /\ UNCHANGED <<server, cursor, link, outbox>>
       \/ /\ server = "live"
          /\ Forward(Head(wire))
          /\ IF server' = "closed" THEN TRUE ELSE wire' = Tail(wire)
    /\ UNCHANGED <<workerVars, buffer, replay, panelVars, faultVars>>

\* onMessage: buffered until the replay is through, then forwarded.
OnMessage ==
    /\ wire # <<>>
    /\ \/ /\ server \in {"reading", "replaying"}
          /\ buffer' = Append(buffer, Head(wire))
          /\ wire' = Tail(wire)
          /\ UNCHANGED <<server, cursor, link, outbox>>
       \/ /\ server = "live"
          /\ Forward(Head(wire))
          /\ IF server' = "closed" THEN TRUE ELSE wire' = Tail(wire)
          /\ UNCHANGED buffer
    /\ UNCHANGED <<workerVars, replay, panelVars, faultVars>>

\* ioredis loses its connection to Redis and resubscribes by itself: what is
\* published in between never arrives, and the HTTP stream goes on.
LoseSubscription ==
    /\ link = "up"
    /\ Fault
    /\ Miss(Elements(wire))
    /\ link' = "down" /\ wire' = <<>>
    /\ UNCHANGED <<workerVars, serverVars, outbox, panelVars, drops>>

Resubscribe ==
    /\ link = "down"
    /\ link' = "up"
    /\ UNCHANGED <<workerVars, serverVars, wire, outbox, panelVars, faultVars>>

\* The connection breaks, or the read fails and errors the stream: the browser
\* connects again with the id of the last event it received.
DropConnection ==
    /\ source = "connecting"
    /\ server # "none"
    /\ drops < MaxDrops
    /\ drops' = drops + 1
    /\ server' = "none"
    /\ outbox' = <<>>
    /\ buffer' = <<>>
    /\ replay' = <<>>
    /\ Disconnect
    /\ UNCHANGED <<workerVars, cursor, panelVars, faults, lost>>

-----------------------------------------------------------------------------
(* The page and its panel. *)

\* The project page reads the latest run, then its events: two statements.
LoadRun ==
    /\ page = "none"
    /\ page' = "loading"
    /\ panel' = row
    /\ UNCHANGED <<workerVars, serverVars, redisVars, outbox, shown, source, lastEventId,
                   faultVars>>

LoadEvents ==
    /\ page = "loading"
    /\ page' = "mounted"
    /\ shown' = [i \in 1..Len(events) |-> i]
    /\ UNCHANGED <<workerVars, serverVars, redisVars, outbox, panel, source, lastEventId,
                   faultVars>>

\* start(): the panel resets itself to the queued run startRun returned.
StartFromPanel ==
    /\ page = "none"
    /\ page' = "mounted"
    /\ panel' = "queued"
    /\ shown' = <<>>
    /\ UNCHANGED <<workerVars, serverVars, redisVars, outbox, source, lastEventId, faultVars>>

\* The effect that opens an EventSource while the run is active.
Connect ==
    /\ page = "mounted"
    /\ panel \in Active
    /\ source = "none"
    /\ source' = "connecting"
    /\ UNCHANGED <<workerVars, serverVars, redisVars, outbox, page, panel, shown, lastEventId,
                   faultVars>>

\* An event sorted into those that are shown: after the older ones, before the others.
Sorted(seq) ==
    [i \in 1..(Len(shown) + 1) |->
        IF i <= Len(shown) /\ shown[i] < seq THEN shown[i]
        ELSE IF i = 1 \/ shown[i - 1] < seq THEN seq
        ELSE shown[i - 1]]

\* Every event received is added.
ApplyAnyEvent(seq) ==
    /\ shown' = Sorted(seq)
    /\ panel' = IF events[seq] \in DOMAIN StatusByType THEN StatusByType[events[seq]] ELSE panel

\* applyEvent: an event already seen is ignored, others are sorted in.
ApplyEvent(seq) ==
    IF \E i \in 1..Len(shown) : shown[i] = seq
    THEN UNCHANGED <<shown, panel>>
    ELSE /\ shown' = Sorted(seq)
         /\ panel' = IF events[seq] \in DOMAIN StatusByType THEN StatusByType[events[seq]]
                                                            ELSE panel

\* onmessage: apply, and close the EventSource at a terminal event.
ReceiveEvent ==
    /\ source = "connecting"
    /\ outbox # <<>>
    /\ LET seq == Head(outbox) IN
       /\ ApplyEvent(seq)
       /\ lastEventId' = seq
       /\ source' = IF IsTerminal(seq) THEN "closed" ELSE source
    /\ outbox' = Tail(outbox)
    /\ UNCHANGED <<workerVars, serverVars, redisVars, page, faultVars>>

-----------------------------------------------------------------------------
WorkerStep ==
    ClaimRun \/ EmitProgress \/ SaveSuccess \/ FinalizeStatus \/ FinalizeEmit \/ Publish

RouteStep == OpenStream \/ Subscribe \/ ReadEvents \/ ReplayEvents \/ OnMessage \/ Resubscribe

PanelStep == LoadEvents \/ Connect \/ ReceiveEvent

Next ==
    \/ WorkerStep \/ RouteStep \/ PanelStep
    \/ LoadRun \/ StartFromPanel
    \/ PublishUnanswered \/ PublishFails \/ WorkerStops
    \/ LoseSubscription \/ RefuseStream \/ DropConnection

Spec == Init /\ [][Next]_vars

\* A job that has not stopped goes on, each await of the route settles, and the
\* browser delivers what it receives and reconnects a broken EventSource.
Fairness ==
    /\ WF_vars(FinalizeEmit)
    /\ WF_vars(Publish)
    /\ WF_vars(OpenStream)
    /\ WF_vars(Subscribe)
    /\ WF_vars(ReadEvents)
    /\ WF_vars(ReplayEvents)
    /\ WF_vars(OnMessage)
    /\ WF_vars(Resubscribe)
    /\ WF_vars(PanelStep)

FairSpec == Spec /\ Fairness

-----------------------------------------------------------------------------
(* Properties *)

Seqs == 1..(MaxProgress + 3)

\* Every variable stays in its type.
TypeOK ==
    /\ row \in Active \cup Terminal
    /\ events \in Seq(EventTypes)
    /\ worker \in {"working", "failing", "stopped"}
    /\ server \in {"none", "subscribing", "reading", "replaying", "live", "closed"}
    /\ {unpublished, buffer, replay, wire, outbox, shown} \subseteq Seq(Seqs)
    /\ {cursor, lastEventId} \subseteq Seqs \cup {0}
    /\ link \in {"none", "up", "down"}
    /\ page \in {"none", "loading", "mounted"}
    /\ panel \in Active \cup Terminal
    /\ source \in {"none", "connecting", "closed", "refused"}
    /\ drops \in 0..MaxDrops
    /\ faults \in 0..MaxFaults
    /\ lost \subseteq Seqs

\* The panel skips no event of the log, whenever the page loads and wherever the
\* connection breaks, but those that Redis or the worker kept from a stream that had
\* already read its replay: subscribing before the replay, buffering during it and the
\* cursors at both ends leave no gap of their own.
OnlyLostIsSkipped ==
    \A i \in 1..Len(shown) : \A seq \in 1..shown[i] : seq \in Elements(shown) \cup lost

\* Even when Redis loses events, the panel shows events of its run only, each
\* once and in order: replays and reconnections add nothing twice.
ShownInOrder ==
    /\ \A i \in 1..Len(shown) : shown[i] \in 1..Len(events)
    /\ \A i \in 1..(Len(shown) - 1) : shown[i] < shown[i + 1]

\* The panel never announces an outcome the row does not hold, nor a start
\* before the claim.
PanelNeverAhead ==
    page = "mounted" =>
        /\ panel \in Terminal => panel = row
        /\ panel = "running" => row # "queued"

\* A run that settles while its panel follows it reaches the panel, unless its worker
\* stopped before it announced the outcome, the open stream was kept from the
\* announcement (a stream opened later is not, and then it must arrive), or the route
\* refused the EventSource; and provided the page was not loaded with the terminal event
\* and an older status.
OutcomeReachesPanel ==
    (/\ page = "mounted" /\ panel \in Active /\ row \in Terminal
     /\ \A i \in 1..Len(shown) : ~IsTerminal(shown[i]))
        ~> \/ panel = row
           \/ ~IsTerminal(Len(events)) /\ worker = "stopped"
           \/ IsTerminal(Len(events)) /\ Len(events) \in lost
           \/ source = "refused"

-----------------------------------------------------------------------------
(* The inductive invariant behind the safety properties. *)

\* The events published, or given up, are the first of the log, up to this one.
Published == Len(events) - Len(unpublished)

\* The log: its terminal event is the last and names the row's status.
LogTellsRow ==
    /\ Len(events) \in Seqs
    /\ row \in Active \/ ~IsTerminal(Len(events)) => Len(events) <= MaxProgress + 1
    /\ \A i \in 1..Len(events) :
        /\ events[i] \in Terminal => i = Len(events) /\ events[i] = row
        /\ events[i] = "started" => row # "queued"

\* What is on its way from the worker to the route is of this log.
MessagesAreOfLog ==
    /\ Published \in 1..Len(events)
    /\ unpublished = [i \in 1..Len(unpublished) |-> Published + i]
    /\ \A i \in 1..Len(wire) : wire[i] \in 1..Len(events) /\ wire[i] <= Published + 1
    /\ \A i, j \in 1..Len(wire) : i < j => wire[i] <= wire[j]
    /\ \A i \in 1..Len(buffer) : buffer[i] \in 1..Len(events) /\ buffer[i] <= Published + 1
    /\ \A i \in 1..Len(buffer) : \A j \in 1..Len(wire) : buffer[i] <= wire[j]

\* What each phase of the route has not begun yet, or has put away.
PhasesOfRoute ==
    /\ link # "up" => wire = <<>>
    /\ server \in {"none", "subscribing", "closed"} <=> link = "none"
    /\ server \notin {"reading", "replaying"} => buffer = <<>>
    /\ server \notin {"live", "closed"} => outbox = <<>>
    /\ server \in {"subscribing", "reading", "replaying"} => cursor = lastEventId
    /\ IF server = "replaying"
       THEN replay = [i \in 1..Len(replay) |-> cursor + i] /\ cursor + Len(replay) <= Len(events)
       ELSE replay = <<>>

\* The browser's cursor, the response and the route's cursor are in order.
CursorsInOrder ==
    /\ lastEventId \in 0..Len(events) /\ cursor \in 0..Len(events)
    /\ server # "none" => lastEventId <= cursor
    /\ \A i \in 1..Len(outbox) : outbox[i] \in (lastEventId + 1)..cursor
    /\ \A i, j \in 1..Len(outbox) : i < j => outbox[i] < outbox[j]

\* The page: nothing is received before it is mounted and connected, and what it shows
\* is of this log and in order.
PageInOrder ==
    /\ page # "mounted" => source = "none"
    /\ source = "none" => lastEventId = 0
    /\ \A i \in 1..Len(shown) : shown[i] \in 1..Len(events)
    /\ \A i, j \in 1..Len(shown) : i < j => shown[i] < shown[j]
    /\ panel \in Terminal => panel = row
    /\ panel = "running" => row # "queued"

\* No event is skipped anywhere but those lost: what the panel received, what is in the
\* response and what is on its way from Redis reach up to each other.
NothingSkipped ==
    /\ \A seq \in 1..lastEventId : seq \in Elements(shown) \cup lost
    /\ \A i \in 1..Len(shown) :
        shown[i] > lastEventId => \A seq \in 1..shown[i] : seq \in Elements(shown)
    /\ server \in {"live", "closed"} =>
        \A seq \in (lastEventId + 1)..cursor : seq \in Elements(outbox) \cup lost
    /\ server \in {"replaying", "live"} =>
        \A seq \in (cursor + Len(replay) + 1)..Published :
            seq \in Elements(wire) \cup Elements(buffer) \cup lost

IInv ==
    /\ TypeOK
    /\ LogTellsRow
    /\ MessagesAreOfLog
    /\ PhasesOfRoute
    /\ CursorsInOrder
    /\ PageInOrder
    /\ NothingSkipped
=============================================================================
