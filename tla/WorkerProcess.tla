----------------------------- MODULE WorkerProcess -----------------------------
(***************************************************************************)
(* The worker process: it checks its dependencies, opens what it needs,    *)
(* takes jobs, sweeps the queued runs, answers health probes and, on a     *)
(* signal, stops taking jobs, waits for those it has and closes the rest.  *)
(* The process exits when nothing keeps its event loop alive.  What a job  *)
(* does is RunBackbone's.                                                  *)
(***************************************************************************)
EXTENDS Naturals, FiniteSets

CONSTANTS
    Concurrency,    \* WORKER_CONCURRENCY, at least 1
    MaxSignals,
    MaxOutages      \* changes of the dependencies

ASSUME ProcessAssumption == Concurrency \in Nat \ {0}

Signals == {"SIGINT", "SIGTERM"}

VARIABLES
    step,           \* where main() stands
    exitCode,
    up,             \* the dependencies reachable: a subset of {"database", "redis"}
    open,           \* what main has open
    healthReady,    \* healthState.ready
    timer,          \* the reconciliation timer runs
    handlers,       \* signals with a handler still installed
    jobs,           \* jobs being processed
    sweeps,         \* reconciliations in flight
    reconciling,    \* the flag that keeps them apart
    signals, outages

processVars == <<step, exitCode, up, open, healthReady, timer, handlers, jobs, sweeps,
                 reconciling, signals, outages>>
idleVars == <<up, jobs, sweeps, reconciling, signals, outages>>

ProcessInit ==
    /\ step = "off" /\ exitCode = 0
    /\ up = {"database", "redis"}
    /\ open = {} /\ healthReady = FALSE /\ timer = FALSE /\ handlers = {}
    /\ jobs = 0 /\ sweeps = 0 /\ reconciling = FALSE
    /\ signals = 0 /\ outages = 0

\* The database client and the first Redis client are made.
Boot ==
    /\ step = "off"
    /\ step' = "checking"
    /\ open' = {"database", "redis"}
    /\ UNCHANGED <<exitCode, healthReady, timer, handlers, idleVars>>

\* The timer is left running.
LeaveTicking(code) ==
    /\ step' = "closing worker"
    /\ exitCode' = code
    /\ healthReady' = FALSE
    /\ UNCHANGED timer

\* The finally block is entered, from wherever main returns or throws.
Leave(code) ==
    /\ step' = "closing worker"
    /\ exitCode' = code
    /\ healthReady' = FALSE
    /\ timer' = FALSE

\* checkReadiness; with --check that is all.
CheckReadiness ==
    /\ step = "checking"
    /\ \/ up # {"database", "redis"} /\ Leave(1)
       \/ up = {"database", "redis"} /\ Leave(0)
       \/ /\ up = {"database", "redis"}
          /\ step' = "listening" /\ UNCHANGED <<exitCode, healthReady, timer>>
    /\ UNCHANGED <<open, handlers, idleVars>>

\* listenForWorkerHealth; then the connections, the queue and the worker.
Listen ==
    /\ step = "listening"
    /\ \/ /\ open' = open \cup {"server", "queue", "connections", "worker"}
          /\ step' = "starting" /\ UNCHANGED <<exitCode, healthReady, timer>>
       \/ Leave(1) /\ UNCHANGED open
    /\ UNCHANGED <<handlers, idleVars>>

MaySweep == ~reconciling

StartSweep ==
    /\ MaySweep
    /\ sweeps' = sweeps + 1 /\ reconciling' = TRUE

\* waitUntilReady, then the first reconciliation, which main waits for.
WaitUntilReady ==
    /\ step = "starting" /\ "redis" \in up
    /\ step' = "first sweep"
    /\ StartSweep
    /\ UNCHANGED <<exitCode, open, healthReady, timer, handlers, up, jobs, signals, outages>>

Consume ==
    /\ step = "first sweep" /\ sweeps = 0
    /\ step' = "consuming"
    /\ timer' = TRUE /\ healthReady' = TRUE
    /\ handlers' = Signals
    /\ UNCHANGED <<exitCode, open, idleVars>>

Tick ==
    /\ timer /\ step \in {"consuming", "closing worker", "closing"}
    /\ StartSweep
    /\ UNCHANGED <<step, exitCode, open, healthReady, timer, handlers, up, jobs, signals,
                   outages>>

\* A sweep ends, by an error too: the flag is reset in a finally block.
SweepEnds ==
    /\ sweeps > 0
    /\ sweeps' = sweeps - 1 /\ reconciling' = FALSE
    /\ UNCHANGED <<step, exitCode, open, healthReady, timer, handlers, up, jobs, signals,
                   outages>>

\* A BullMQ worker takes jobs from the moment it is made until it is closing.
TakeJob ==
    /\ "worker" \in open /\ step \in {"starting", "first sweep", "consuming"}
    /\ "redis" \in up /\ jobs < Concurrency
    /\ jobs' = jobs + 1
    /\ UNCHANGED <<step, exitCode, open, healthReady, timer, handlers, up, sweeps,
                   reconciling, signals, outages>>

\* A job is done when Redis has been told, on a connection that retries for ever.
JobEnds ==
    /\ jobs > 0 /\ "redis" \in up
    /\ jobs' = jobs - 1
    /\ UNCHANGED <<step, exitCode, open, healthReady, timer, handlers, up, sweeps,
                   reconciling, signals, outages>>

Killed ==
    /\ step' = "ended" /\ exitCode' = 143
    /\ open' = {} /\ healthReady' = FALSE /\ timer' = FALSE /\ handlers' = {}
    /\ jobs' = 0 /\ sweeps' = 0 /\ reconciling' = FALSE

\* A signal without a handler kills the process: before the handlers are installed, and
\* the second of its kind.
Signal(s) ==
    /\ step \notin {"off", "ended"} /\ signals < MaxSignals
    /\ signals' = signals + 1
    /\ IF s \notin handlers THEN Killed
       ELSE /\ handlers' = handlers \ {s}
            /\ IF step = "consuming" THEN Leave(exitCode)
               ELSE UNCHANGED <<step, exitCode, healthReady, timer>>
            /\ UNCHANGED <<open, jobs, sweeps, reconciling>>
    /\ UNCHANGED <<up, outages>>

\* The worker is closed without waiting for its jobs.
WorkerMayCloseAtOnce == TRUE

\* runWorker.close() waits for the jobs in progress.
WorkerMayClose == jobs = 0

CloseWorker ==
    /\ step = "closing worker" /\ WorkerMayClose
    /\ step' = "closing"
    /\ open' = open \ {"worker"}
    /\ UNCHANGED <<exitCode, healthReady, timer, handlers, idleVars>>

\* The rest, all at once and each settled.  The client without an offline queue cannot
\* send QUIT while Redis is away and goes on reconnecting.
CloseRest ==
    /\ step = "closing"
    /\ step' = "closed"
    /\ open' = IF "redis" \in up THEN {} ELSE {"redis"}
    /\ UNCHANGED <<exitCode, healthReady, timer, handlers, idleVars>>

\* Nothing keeps the event loop alive.
ExitWhenIdle ==
    /\ step = "closed"
    /\ open = {} /\ ~timer /\ jobs = 0 /\ sweeps = 0
    /\ step' = "ended"
    /\ UNCHANGED <<exitCode, open, healthReady, timer, handlers, idleVars>>

DependencyChanges(d) ==
    /\ step # "ended" /\ outages < MaxOutages
    /\ up' = IF d \in up THEN up \ {d} ELSE up \cup {d}
    /\ outages' = outages + 1
    /\ UNCHANGED <<step, exitCode, open, healthReady, timer, handlers, jobs, sweeps,
                   reconciling, signals>>

MainStep ==
    \/ CheckReadiness \/ Listen \/ WaitUntilReady \/ Consume
    \/ CloseWorker \/ CloseRest \/ ExitWhenIdle
ProcessNext ==
    \/ Boot \/ MainStep \/ Tick \/ SweepEnds \/ TakeJob \/ JobEnds
    \/ \E s \in Signals : Signal(s)
    \/ \E d \in {"database", "redis"} : DependencyChanges(d)

ProcessSpec == ProcessInit /\ [][ProcessNext]_processVars

-----------------------------------------------------------------------------
(* Properties *)

ProcessTypeOK ==
    /\ step \in {"off", "checking", "listening", "starting", "first sweep", "consuming",
                 "closing worker", "closing", "closed", "ended"}
    /\ open \subseteq {"database", "redis", "server", "queue", "connections", "worker"}
    /\ handlers \subseteq Signals
    /\ jobs \in 0..Concurrency /\ sweeps \in Nat

\* /ready answers 200 only while the worker takes jobs, with its database client, its
\* dispatch queue and the sweep all in place: not before the first sweep, not from the
\* signal on.
ReadyIsConsuming ==
    healthReady => step = "consuming" /\ timer
                   /\ {"database", "queue", "connections", "worker"} \subseteq open

\* A job in progress never loses the database, the publisher or the queue under it.
JobsKeepTheirClients == jobs > 0 => {"database", "connections", "worker"} \subseteq open

\* Two sweeps of the queued runs never overlap.
SweepsDoNotOverlap == sweeps <= 1

\* However it was started and whenever it was told to stop, main releases all that keeps
\* the process alive, and the process exits.  It does not when Redis is away at the very
\* moment the clients quit, and a worker waits for as long as Redis stays away; that Redis
\* was away before and came back is no excuse.
AwayAtQuit == step = "closed" /\ open = {"redis"}
Quitting == step \in {"closing worker", "closing", "closed"} /\ ~AwayAtQuit
ProcessExits ==
    /\ []<>~(Quitting /\ "worker" \notin open)
    /\ <>[]("redis" \notin up) \/ []<>~Quitting

\* While the worker reports itself ready or has jobs, everything they need is in place.
WorkerIsInPlace ==
    /\ ProcessTypeOK
    /\ ReadyIsConsuming /\ JobsKeepTheirClients /\ SweepsDoNotOverlap
-----------------------------------------------------------------------------
(* The inductive invariant *)

\* The flag is up while, and only while, a sweep is in flight.
FlagTellsSweep == reconciling \in BOOLEAN /\ sweeps = IF reconciling THEN 1 ELSE 0

\* What main has opened stays open until it closes it, and it closes nothing under a job.
OpenWhileWorking ==
    /\ healthReady \in BOOLEAN /\ timer \in BOOLEAN
    /\ step \in {"checking", "listening"} => open = {"database", "redis"}
    /\ step \in {"starting", "first sweep", "consuming"} =>
        open = {"database", "redis", "server", "queue", "connections", "worker"}
    /\ jobs > 0 => step \in {"starting", "first sweep", "consuming", "closing worker"}

ProcessIInv == WorkerIsInPlace /\ FlagTellsSweep /\ OpenWhileWorking
=============================================================================
