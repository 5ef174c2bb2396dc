---------------------------- MODULE ServicesProofs ----------------------------
(***************************************************************************)
(* The rate limiter, sign-in, the worker's process and the administration  *)
(* pages keep their promises, for any number of callers and browsers, any  *)
(* limit and any tables: an inductive invariant each, and a step for each  *)
(* action.                                                                 *)
(***************************************************************************)
EXTENDS RateLimit, SignIn, WorkerProcess, AdminReports, TLAPS, FiniteSetTheorems

-----------------------------------------------------------------------------
(* The rate limiter *)

CallRecord ==
    [pc : {"idle", "waiting", "incr", "expire", "admitted", "refused"}, seen : 0..MaxCalls]

LEMMA LimiterStarts == LimiterInit => LimiterIInv
<1> SUFFICES ASSUME LimiterInit PROVE LimiterIInv
    OBVIOUS
<1>1. call \in [Callers -> CallRecord] /\ \A c \in Callers : call[c].pc = "idle"
    <2>1. [pc |-> "idle", seen |-> 0] \in CallRecord
        BY RateLimitAssumption DEF CallRecord
    <2>2. call = [c \in Callers |-> [pc |-> "idle", seen |-> 0]]
        BY DEF LimiterInit
    <2> QED
        BY <2>1, <2>2
<1>2. link \in BOOLEAN /\ expiring \in BOOLEAN /\ expireLost \in BOOLEAN
    BY Zenon DEF LimiterInit
<1>3. LimiterTypeOK
    BY <1>1, <1>2, RateLimitAssumption DEF LimiterInit, LimiterTypeOK, CallRecord
<1>4. admitted <= Limit /\ admitted <= count
    BY RateLimitAssumption DEF LimiterInit
<1>5. KeyExpires
    BY DEF LimiterInit, KeyExpires
<1>6. \A c \in Callers : ~Starting(c)
    BY <1>1 DEF Starting
<1> QED
    BY <1>3, <1>4, <1>5, <1>6
    DEF LimiterIInv, AdmittedWithinLimit, OneStarts, AdmittedHaveCounted

\* A decision admits the call only within the limit, and no EXPIRE of it is pending then.
LEMMA DecideFacts ==
    ASSUME LimiterTypeOK, NEW c \in Callers, NEW seen \in Nat, NEW answered \in BOOLEAN,
           Decide(c, seen, answered)
    PROVE  /\ call' \in [Callers -> CallRecord]
           /\ \A d \in Callers : Starting(d)' => d # c /\ Starting(d) /\ call'[d] = call[d]
           /\ admitted' \in Nat
           /\ admitted' = admitted \/ (admitted' = admitted + 1 /\ seen <= Limit)
BY DEF LimiterTypeOK, Decide, Answer, Starting, CallRecord

\* The same of a call that goes where no EXPIRE of it is pending.
LEMMA AnswerFacts ==
    ASSUME LimiterTypeOK, NEW c \in Callers,
           NEW pc \in {"waiting", "incr", "admitted", "refused"}, NEW n \in 0..MaxCalls,
           \/ call' = [call EXCEPT ![c] = [pc |-> pc, seen |-> n]]
           \/ Answer(c, pc)
    PROVE  /\ call' \in [Callers -> CallRecord]
           /\ \A d \in Callers : Starting(d)' => d # c /\ Starting(d) /\ call'[d] = call[d]
BY DEF LimiterTypeOK, Answer, Starting, CallRecord

\* What the key keeps when a call starts no window: nothing but the count and the calls
\* admitted change, and the count has grown by what was admitted.
LEMMA NoWindowStarts ==
    ASSUME LimiterIInv, NEW c \in Callers,
           call' \in [Callers -> CallRecord],
           \A d \in Callers : Starting(d)' => d # c /\ Starting(d) /\ call'[d] = call[d],
           link' \in BOOLEAN, expiring' = expiring, expireLost' \in BOOLEAN,
           count' \in 0..MaxCalls, count <= count',
           admitted' \in Nat,
           \/ admitted' = admitted
           \/ admitted' = admitted + 1 /\ count < count' /\ count' <= Limit
    PROVE  LimiterIInv'
<1>1. LimiterTypeOK /\ LimiterTypeOK'
    BY DEF LimiterIInv, AdmittedWithinLimit, LimiterTypeOK, CallRecord
<1>2. OneStarts'
    BY <1>1 DEF LimiterIInv, OneStarts, LimiterTypeOK
<1>3. admitted' <= Limit /\ admitted' <= count'
    BY <1>1, RateLimitAssumption
    DEF LimiterIInv, AdmittedWithinLimit, AdmittedHaveCounted, LimiterTypeOK
<1>4. ASSUME NEW d \in Callers, Starting(d)' PROVE admitted' < count' /\ admitted' < Limit
    BY <1>1, <1>4, RateLimitAssumption DEF LimiterIInv, AdmittedHaveCounted, LimiterTypeOK
<1>5. KeyExpires'
    BY <1>1 DEF LimiterIInv, KeyExpires, LimiterTypeOK
<1> QED
    BY <1>1, <1>2, <1>3, <1>4, <1>5 DEF LimiterIInv, AdmittedWithinLimit, AdmittedHaveCounted

LEMMA IncrKeepsLimiterIInv ==
    ASSUME LimiterIInv, NEW c \in Callers, Incr(c)
    PROVE  LimiterIInv'
<1>0. LimiterTypeOK /\ count \in Nat /\ MaxCalls \in Nat /\ Limit \in Nat
    BY RateLimitAssumption DEF LimiterIInv, AdmittedWithinLimit, LimiterTypeOK
<1>1. link' \in BOOLEAN /\ expiring' = expiring
    BY <1>0 DEF Incr, LimiterTypeOK
<1>2. CASE /\ count < MaxCalls /\ count' = count + 1 /\ StartsWindow(count + 1)
           /\ call' = [call EXCEPT ![c] = [pc |-> "expire", seen |-> count + 1]]
           /\ UNCHANGED <<admitted, expireLost>>
    <2>1. count = 0 /\ admitted = 0
        BY <1>0, <1>2 DEF StartsWindow, LimiterIInv, AdmittedHaveCounted, LimiterTypeOK
    <2>2. \A d \in Callers : ~Starting(d)
        BY <2>1 DEF LimiterIInv, OneStarts
    <2>3. ~expiring
        BY <2>1 DEF LimiterIInv, KeyExpires
    <2>4. call' \in [Callers -> CallRecord]
        BY <1>0, <1>2, <2>1 DEF LimiterTypeOK, CallRecord
    <2>5. LimiterTypeOK'
        BY <1>0, <1>1, <1>2, <2>4 DEF LimiterTypeOK, CallRecord
    <2>6. \A d \in Callers : Starting(d)' => d = c
        BY <1>0, <1>2, <2>2 DEF Starting, LimiterTypeOK
    <2>7. call'[c].seen = 1 /\ count' = 1 /\ admitted' = 0 /\ expiring' = FALSE
        BY <1>0, <1>1, <1>2, <2>1, <2>3 DEF LimiterTypeOK
    <2> QED
        BY <2>5, <2>6, <2>7, RateLimitAssumption
        DEF LimiterIInv, AdmittedWithinLimit, OneStarts, AdmittedHaveCounted, KeyExpires
<1>3. ASSUME NEW n \in 1..2, NEW answered \in BOOLEAN,
             count + n <= MaxCalls, count' = count + n, expireLost' \in BOOLEAN,
             Decide(c, count + n, answered)
      PROVE  LimiterIInv'
    BY <1>0, <1>1, <1>3, DecideFacts, NoWindowStarts
<1>4. CASE Decide(c, 1, FALSE) /\ UNCHANGED <<count, expireLost>>
    <2>1. admitted' = admitted
        BY <1>4 DEF Decide
    <2>2. /\ call' \in [Callers -> CallRecord] /\ admitted' \in Nat
          /\ \A d \in Callers : Starting(d)' => d # c /\ Starting(d) /\ call'[d] = call[d]
        BY <1>0, <1>4, DecideFacts
    <2>3. count' \in 0..MaxCalls /\ count <= count' /\ expireLost' \in BOOLEAN
        BY <1>0, <1>4 DEF LimiterTypeOK
    <2> QED
        BY <1>1, <2>1, <2>2, <2>3, NoWindowStarts
<1>5. expireLost' \in BOOLEAN
    BY <1>0 DEF Incr, LimiterTypeOK
<1>6. CASE /\ count < MaxCalls /\ count' = count + 1 /\ UNCHANGED expireLost
           /\ IF StartsWindow(count + 1)
              THEN call' = [call EXCEPT ![c] = [pc |-> "expire", seen |-> count + 1]]
                   /\ UNCHANGED admitted
              ELSE Decide(c, count + 1, TRUE)
    <2>1. CASE StartsWindow(count + 1)
        BY <1>2, <1>6, <2>1
    <2>2. CASE ~StartsWindow(count + 1)
        <3>1. 1 \in 1..2 /\ count + 1 <= MaxCalls
            BY <1>0, <1>6
        <3> QED
            BY <1>3, <1>5, <1>6, <2>2, <3>1, Zenon
    <2> QED
        BY <2>1, <2>2
<1>7. CASE count < MaxCalls /\ count' = count + 1 /\ Decide(c, count + 1, FALSE)
    <2>1. 1 \in 1..2 /\ count + 1 <= MaxCalls
        BY <1>0, <1>7
    <2> QED
        BY <1>3, <1>5, <1>7, <2>1, Zenon
<1>8. CASE count + 2 <= MaxCalls /\ count' = count + 2 /\ Decide(c, count + 2, TRUE)
    <2>1. 2 \in 1..2
        OBVIOUS
    <2> QED
        BY <1>3, <1>5, <1>8, <2>1, Zenon
<1> QED
    BY <1>4, <1>6, <1>7, <1>8 DEF Incr

LEMMA ExpireKeepsLimiterIInv ==
    ASSUME LimiterIInv, NEW c \in Callers, Expire(c)
    PROVE  LimiterIInv'
<1>0. LimiterTypeOK /\ count \in Nat /\ Limit \in Nat /\ admitted \in Nat
    BY RateLimitAssumption DEF LimiterIInv, AdmittedWithinLimit, LimiterTypeOK
<1>1. Starting(c) /\ call[c].seen = 1 /\ count > 0 /\ admitted < count /\ admitted < Limit
    BY DEF Expire, Starting, LimiterIInv, OneStarts, AdmittedHaveCounted
<1>2. PICK answered \in BOOLEAN : Decide(c, 1, answered)
    BY <1>1 DEF Expire
<1>3. /\ call' \in [Callers -> CallRecord] /\ admitted' \in Nat
      /\ admitted' = admitted \/ admitted' = admitted + 1
      /\ \A d \in Callers : Starting(d)' => d # c /\ Starting(d)
    BY <1>0, <1>2, DecideFacts
<1>4. \A d \in Callers : ~Starting(d)'
    BY <1>1, <1>3 DEF LimiterIInv, OneStarts
<1>5. link' \in BOOLEAN /\ expireLost' \in BOOLEAN /\ expiring' \in BOOLEAN /\ count' = count
    <2>1. expiring \in BOOLEAN /\ expireLost \in BOOLEAN /\ link \in BOOLEAN
        BY <1>0 DEF LimiterTypeOK
    <2>2. (count > 0) \in BOOLEAN
        BY <1>1
    <2> QED
        BY <2>1, <2>2, Zenon DEF Expire
<1>6. LimiterTypeOK'
    BY <1>0, <1>3, <1>5 DEF LimiterTypeOK, CallRecord
<1> QED
    BY <1>0, <1>1, <1>3, <1>4, <1>5, <1>6
    DEF LimiterIInv, AdmittedWithinLimit, OneStarts, AdmittedHaveCounted, KeyExpires

LEMMA LimiterKeepsIInv ==
    ASSUME LimiterIInv, [LimiterNext]_limiterVars
    PROVE  LimiterIInv'
<1>0. LimiterTypeOK /\ count \in Nat /\ MaxCalls \in Nat /\ Limit \in Nat
    BY RateLimitAssumption DEF LimiterIInv, AdmittedWithinLimit, LimiterTypeOK
<1>1. ASSUME NEW c \in Callers, EnforceRateLimit(c) PROVE LimiterIInv'
    <2>1. 0 \in 0..MaxCalls
        BY <1>0
    <2>2. /\ call' \in [Callers -> CallRecord]
          /\ \A d \in Callers : Starting(d)' => d # c /\ Starting(d) /\ call'[d] = call[d]
        BY <1>0, <1>1, <2>1, AnswerFacts DEF EnforceRateLimit
    <2> QED
        BY <1>0, <1>1, <2>2, NoWindowStarts DEF EnforceRateLimit, LimiterTypeOK
<1>2. ASSUME NEW c \in Callers, EnsureReady(c) PROVE LimiterIInv'
    <2>1. 0 \in 0..MaxCalls
        BY <1>0
    <2>2. /\ call' \in [Callers -> CallRecord]
          /\ \A d \in Callers : Starting(d)' => d # c /\ Starting(d) /\ call'[d] = call[d]
        BY <1>0, <1>2, <2>1, AnswerFacts DEF EnsureReady
    <2> QED
        BY <1>0, <1>2, <2>2, NoWindowStarts DEF EnsureReady, LimiterTypeOK
<1>3. CASE WindowEnds
    <2>1. \A c \in Callers : ~Starting(c)
        BY <1>3 DEF WindowEnds, LimiterIInv, OneStarts
    <2>2. \A c \in Callers : ~Starting(c)'
        BY <1>3, <2>1 DEF WindowEnds, Starting
    <2>3. expiring' \in BOOLEAN /\ ~expiring'
        BY <1>3, Zenon DEF WindowEnds
    <2>4. LimiterTypeOK'
        BY <1>0, <1>3, <2>3 DEF WindowEnds, LimiterTypeOK
    <2> QED
        BY <1>0, <1>3, <2>2, <2>3, <2>4
        DEF WindowEnds, LimiterIInv, AdmittedWithinLimit, OneStarts, AdmittedHaveCounted,
            KeyExpires
<1>4. CASE LinkChanges \/ UNCHANGED limiterVars
    <2>1. link' \in BOOLEAN /\ UNCHANGED <<count, expiring, call, admitted, expireLost>>
        BY <1>0, <1>4 DEF LinkChanges, limiterVars, LimiterTypeOK
    <2> QED
        BY <1>0, <2>1
        DEF LimiterTypeOK, LimiterIInv, AdmittedWithinLimit, OneStarts, AdmittedHaveCounted,
            KeyExpires, Starting
<1> QED
    BY <1>1, <1>2, <1>3, <1>4, IncrKeepsLimiterIInv, ExpireKeepsLimiterIInv
    DEF LimiterNext, CallStep

\* However many callers overlap, and whatever commands and answers are lost, no more calls
\* are admitted in one life of the key than RATE_LIMITS allows.
THEOREM AdmissionsAreLimited == LimiterSpec => []AdmittedWithinLimit
<1>1. LimiterIInv => AdmittedWithinLimit
    BY DEF LimiterIInv
<1> QED
    BY LimiterStarts, LimiterKeepsIInv, <1>1, PTL DEF LimiterSpec

-----------------------------------------------------------------------------
(* The worker's process *)

Everything == {"database", "redis", "server", "queue", "connections", "worker"}
Steps == {"off", "checking", "listening", "starting", "first sweep", "consuming",
          "closing worker", "closing", "closed", "ended"}

\* The invariant in parts that different actions disturb: where main stands and what it
\* has open, what it says of itself, the jobs, and the sweeps.
MainPart ==
    /\ step \in Steps /\ open \subseteq Everything /\ handlers \subseteq Signals
    /\ step \in {"checking", "listening"} => open = {"database", "redis"}
    /\ step \in {"starting", "first sweep", "consuming"} => open = Everything

ReadyPart ==
    /\ healthReady \in BOOLEAN /\ timer \in BOOLEAN
    /\ healthReady => step = "consuming" /\ timer

JobsPart ==
    /\ jobs \in 0..Concurrency
    /\ jobs > 0 => /\ step \in {"starting", "first sweep", "consuming", "closing worker"}
                   /\ {"database", "connections", "worker"} \subseteq open

SweepsPart == FlagTellsSweep /\ sweeps \in Nat

Parts == MainPart /\ ReadyPart /\ JobsPart /\ SweepsPart

LEMMA ProcessParts == ProcessIInv <=> Parts
<1>1. ASSUME ProcessIInv PROVE Parts
    <2>1. MainPart
        BY <1>1 DEF ProcessIInv, WorkerIsInPlace, ProcessTypeOK, OpenWhileWorking, MainPart,
            Steps, Everything
    <2>2. ReadyPart
        BY <1>1, Zenon DEF ProcessIInv, WorkerIsInPlace, ReadyIsConsuming, OpenWhileWorking,
            ReadyPart
    <2>3. JobsPart /\ SweepsPart
        BY <1>1 DEF ProcessIInv, WorkerIsInPlace, ProcessTypeOK, JobsKeepTheirClients,
            OpenWhileWorking, JobsPart, SweepsPart
    <2> QED
        BY <2>1, <2>2, <2>3 DEF Parts
<1>2. ASSUME Parts PROVE ProcessIInv
    <2>1. SweepsDoNotOverlap
        BY <1>2 DEF Parts, SweepsPart, FlagTellsSweep, SweepsDoNotOverlap
    <2>2. ProcessTypeOK /\ JobsKeepTheirClients
        BY <1>2 DEF Parts, MainPart, JobsPart, SweepsPart, ProcessTypeOK, JobsKeepTheirClients,
            Steps, Everything
    <2>3. healthReady => step = "consuming" /\ timer
        BY <1>2 DEF Parts, ReadyPart
    <2>4. step = "consuming" => {"database", "queue", "connections", "worker"} \subseteq open
        BY <1>2 DEF Parts, MainPart, Everything
    <2>5. ReadyIsConsuming
        BY <2>3, <2>4, Zenon DEF ReadyIsConsuming
    <2>6. OpenWhileWorking
        BY <1>2 DEF Parts, MainPart, ReadyPart, JobsPart, OpenWhileWorking, Everything
    <2>7. FlagTellsSweep
        BY <1>2 DEF Parts, SweepsPart
    <2> QED
        BY <2>1, <2>2, <2>5, <2>6, <2>7 DEF ProcessIInv, WorkerIsInPlace
<1> QED
    BY <1>1, <1>2

LEMMA ProcessStarts == ProcessInit => Parts
<1> SUFFICES ASSUME ProcessInit PROVE Parts
    OBVIOUS
<1>1. MainPart
    BY DEF ProcessInit, MainPart, Steps, Everything
<1>2. ReadyPart
    BY Zenon DEF ProcessInit, ReadyPart
<1>3. JobsPart
    BY ProcessAssumption DEF ProcessInit, JobsPart
<1>4. SweepsPart
    BY DEF ProcessInit, SweepsPart, FlagTellsSweep
<1> QED
    BY <1>1, <1>2, <1>3, <1>4 DEF Parts

LEMMA MainUndisturbed == MainPart /\ UNCHANGED <<step, open, handlers>> => MainPart'
BY DEF MainPart

LEMMA ReadyUndisturbed ==
    ASSUME ReadyPart, step' = step, healthReady' = healthReady, timer' = timer
    PROVE  ReadyPart'
BY Zenon DEF ReadyPart

\* A process that is not consuming, and one that is leaving, is not ready.
LEMMA NotReady ==
    ASSUME ReadyPart, step # "consuming", UNCHANGED <<healthReady, timer>>
    PROVE  ReadyPart'
BY Zenon DEF ReadyPart

LEMMA JobsUndisturbed == JobsPart /\ UNCHANGED <<step, open, jobs>> => JobsPart'
BY DEF JobsPart

LEMMA SweepsUndisturbed == SweepsPart /\ UNCHANGED <<sweeps, reconciling>> => SweepsPart'
BY DEF SweepsPart, FlagTellsSweep

LEMMA SweepStarts == SweepsPart /\ StartSweep => SweepsPart'
BY DEF SweepsPart, StartSweep, MaySweep, FlagTellsSweep

\* The finally block is entered with everything still open, so no job loses anything.
LEMMA Leaving ==
    ASSUME MainPart, ReadyPart, JobsPart, NEW code, Leave(code),
           step \in {"checking", "listening", "consuming"},
           UNCHANGED <<open, jobs>>, handlers' \subseteq Signals
    PROVE  MainPart' /\ ReadyPart' /\ JobsPart'
<1>1. ReadyPart'
    BY Zenon DEF Leave, ReadyPart
<1>2. MainPart'
    BY DEF Leave, MainPart, Steps
<1>3. JobsPart'
    BY DEF Leave, JobsPart
<1> QED
    BY <1>1, <1>2, <1>3

LEMMA BootKeeps == Parts /\ Boot => Parts'
<1> SUFFICES ASSUME Parts, Boot PROVE Parts'
    OBVIOUS
<1>1. MainPart'
    BY DEF Parts, Boot, MainPart, Steps, Everything
<1>2. ReadyPart'
    BY NotReady DEF Parts, Boot
<1>3. JobsPart'
    BY DEF Parts, Boot, idleVars, JobsPart
<1>4. SweepsPart'
    BY SweepsUndisturbed DEF Parts, Boot, idleVars
<1> QED
    BY <1>1, <1>2, <1>3, <1>4 DEF Parts

LEMMA StartUpKeeps == Parts /\ (CheckReadiness \/ Listen) => Parts'
<1> SUFFICES ASSUME Parts, CheckReadiness \/ Listen PROVE Parts'
    OBVIOUS
<1>1. SweepsPart' /\ jobs' = jobs /\ handlers' = handlers /\ handlers' \subseteq Signals
    BY SweepsUndisturbed DEF Parts, MainPart, CheckReadiness, Listen, idleVars
<1>2. ASSUME NEW code, Leave(code), open' = open PROVE MainPart' /\ ReadyPart' /\ JobsPart'
    BY <1>1, <1>2, Leaving DEF Parts, CheckReadiness, Listen
<1>3. ASSUME step = "checking", step' = "listening", UNCHANGED <<open, healthReady, timer>>
      PROVE  MainPart' /\ ReadyPart' /\ JobsPart'
    BY <1>1, <1>3, NotReady DEF Parts, MainPart, JobsPart, Steps
<1>4. ASSUME step = "listening", step' = "starting", UNCHANGED <<healthReady, timer>>,
             open' = open \cup {"server", "queue", "connections", "worker"}
      PROVE  MainPart' /\ ReadyPart' /\ JobsPart'
    <2>1. MainPart'
        BY <1>1, <1>4 DEF Parts, MainPart, Steps, Everything
    <2> QED
        BY <1>1, <1>4, <2>1, NotReady DEF Parts, JobsPart
<1> QED
    BY <1>1, <1>2, <1>3, <1>4 DEF Parts, CheckReadiness, Listen

LEMMA WaitUntilReadyKeeps == Parts /\ WaitUntilReady => Parts'
<1> SUFFICES ASSUME Parts, WaitUntilReady PROVE Parts'
    OBVIOUS
<1>1. MainPart'
    BY DEF Parts, WaitUntilReady, MainPart, Steps
<1>2. ReadyPart'
    BY NotReady DEF Parts, WaitUntilReady
<1>3. JobsPart'
    BY DEF Parts, WaitUntilReady, JobsPart
<1>4. SweepsPart'
    BY SweepStarts DEF Parts, WaitUntilReady
<1> QED
    BY <1>1, <1>2, <1>3, <1>4 DEF Parts

LEMMA ConsumeKeeps == Parts /\ Consume => Parts'
<1> SUFFICES ASSUME Parts, Consume PROVE Parts'
    OBVIOUS
<1>1. MainPart'
    BY DEF Parts, Consume, MainPart, Steps
<1>2. ReadyPart'
    BY Zenon DEF Consume, ReadyPart
<1>3. JobsPart'
    BY DEF Parts, Consume, JobsPart, idleVars
<1>4. SweepsPart'
    BY SweepsUndisturbed DEF Parts, Consume, idleVars
<1> QED
    BY <1>1, <1>2, <1>3, <1>4 DEF Parts

\* The timer starts a sweep only when none is in flight.
LEMMA SweepStepsKeep == Parts /\ (Tick \/ SweepEnds) => Parts'
<1> SUFFICES ASSUME Parts, Tick \/ SweepEnds PROVE Parts'
    OBVIOUS
<1>1. UNCHANGED <<step, open, healthReady, timer, handlers, jobs>>
    BY DEF Tick, SweepEnds
<1>2. MainPart' /\ ReadyPart' /\ JobsPart'
    BY <1>1, MainUndisturbed, ReadyUndisturbed, JobsUndisturbed DEF Parts
<1>3. CASE Tick
    BY <1>2, <1>3, SweepStarts DEF Parts, Tick
<1>4. CASE SweepEnds
    <2>1. sweeps' = 0 /\ reconciling' = FALSE
        BY <1>4 DEF Parts, SweepsPart, SweepEnds, FlagTellsSweep
    <2> QED
        BY <1>2, <2>1 DEF Parts, SweepsPart, FlagTellsSweep
<1> QED
    BY <1>3, <1>4

LEMMA JobStepsKeep == Parts /\ (TakeJob \/ JobEnds) => Parts'
<1> SUFFICES ASSUME Parts, TakeJob \/ JobEnds PROVE Parts'
    OBVIOUS
<1>0. jobs \in 0..Concurrency /\ jobs \in Nat /\ Concurrency \in Nat
    <2>1. Concurrency \in Nat
        BY ProcessAssumption
    <2>2. jobs \in 0..Concurrency
        BY Zenon DEF Parts, JobsPart
    <2> QED
        BY <2>1, <2>2
<1>1. UNCHANGED <<step, open, healthReady, timer, handlers, sweeps, reconciling>>
    BY DEF TakeJob, JobEnds
<1>2. MainPart' /\ ReadyPart' /\ SweepsPart'
    BY <1>1, MainUndisturbed, ReadyUndisturbed, SweepsUndisturbed DEF Parts
<1>3. CASE TakeJob
    <2>1. jobs' \in 0..Concurrency
        <3>1. jobs < Concurrency /\ jobs' = jobs + 1
            BY <1>3 DEF TakeJob
        <3> QED
            BY <1>0, <3>1
    <2>2. open' = Everything /\ step' \in {"starting", "first sweep", "consuming"}
        BY <1>3 DEF Parts, MainPart, TakeJob
    <2> QED
        BY <1>2, <2>1, <2>2 DEF Parts, JobsPart, Everything
<1>4. CASE JobEnds
    <2>1. jobs' \in 0..Concurrency /\ jobs > 0
        BY <1>0, <1>4 DEF JobEnds
    <2> QED
        BY <1>1, <1>2, <2>1 DEF Parts, JobsPart
<1> QED
    BY <1>3, <1>4

\* A handled signal makes main leave; any other takes the whole process with it.
LEMMA SignalKeeps == ASSUME Parts, NEW s \in Signals, Signal(s) PROVE Parts'
<1>1. CASE Killed
    <2>1. MainPart'
        BY <1>1 DEF Killed, MainPart, Steps
    <2>2. ReadyPart'
        BY <1>1, Zenon DEF Killed, ReadyPart
    <2>3. JobsPart'
        BY <1>1, ProcessAssumption DEF Killed, JobsPart
    <2>4. SweepsPart'
        BY <1>1 DEF Killed, SweepsPart, FlagTellsSweep
    <2> QED
        BY <2>1, <2>2, <2>3, <2>4 DEF Parts
<1>2. CASE ~Killed
    <2>1. /\ handlers' = handlers \ {s} /\ UNCHANGED <<open, jobs, sweeps, reconciling>>
          /\ IF step = "consuming" THEN Leave(exitCode)
             ELSE UNCHANGED <<step, exitCode, healthReady, timer>>
        BY <1>2 DEF Signal
    <2>2. SweepsPart' /\ handlers' \subseteq Signals
        BY <2>1, SweepsUndisturbed DEF Parts, MainPart
    <2>3. CASE step = "consuming"
        BY <2>1, <2>2, <2>3, Leaving DEF Parts
    <2>4. CASE step # "consuming"
        <3>1. MainPart' /\ JobsPart'
            BY <2>1, <2>2, <2>4, JobsUndisturbed DEF Parts, MainPart
        <3>2. ReadyPart'
            BY <2>1, <2>4, NotReady DEF Parts
        <3> QED
            BY <2>2, <3>1, <3>2 DEF Parts
    <2> QED
        BY <2>3, <2>4
<1> QED
    BY <1>1, <1>2

\* Once jobs are done main closes the worker, then the rest.
LEMMA ClosingKeeps == Parts /\ (CloseWorker \/ CloseRest \/ ExitWhenIdle) => Parts'
<1> SUFFICES ASSUME Parts, CloseWorker \/ CloseRest \/ ExitWhenIdle PROVE Parts'
    OBVIOUS
<1>1. /\ step # "consuming" /\ step' \in {"closing", "closed", "ended"}
      /\ UNCHANGED <<healthReady, timer, handlers, jobs, sweeps, reconciling>>
    BY DEF CloseWorker, CloseRest, ExitWhenIdle, idleVars
<1>2. ReadyPart' /\ SweepsPart'
    BY <1>1, NotReady, SweepsUndisturbed DEF Parts
<1>3. open' \subseteq Everything
    BY DEF CloseWorker, CloseRest, ExitWhenIdle, Parts, MainPart, Everything
<1>0. jobs \in 0..Concurrency /\ jobs \in Nat /\ Concurrency \in Nat
    <2>1. Concurrency \in Nat
        BY ProcessAssumption
    <2>2. jobs \in 0..Concurrency
        BY Zenon DEF Parts, JobsPart
    <2> QED
        BY <2>1, <2>2
<1>4. jobs = 0
    <2>1. CASE CloseWorker
        BY <2>1 DEF CloseWorker, WorkerMayClose
    <2>2. CASE step \in {"closing", "closed"}
        <3>1. ~(jobs > 0)
            BY <2>2 DEF Parts, JobsPart
        <3> QED
            BY <1>0, <3>1
    <2> QED
        BY <2>1, <2>2 DEF CloseRest, ExitWhenIdle
<1>5. MainPart' /\ JobsPart'
    <2>1. jobs' = 0 /\ jobs' \in 0..Concurrency
        BY <1>0, <1>1, <1>4
    <2>2. MainPart'
        BY <1>1, <1>3 DEF Parts, MainPart, Steps
    <2> QED
        BY <2>1, <2>2 DEF JobsPart
<1> QED
    BY <1>2, <1>5 DEF Parts

LEMMA ProcessKeepsParts == Parts /\ [ProcessNext]_processVars => Parts'
<1> SUFFICES ASSUME Parts, [ProcessNext]_processVars PROVE Parts'
    OBVIOUS
<1>1. CASE (\E d \in {"database", "redis"} : DependencyChanges(d)) \/ UNCHANGED processVars
    <2>1. UNCHANGED <<step, open, healthReady, timer, handlers, jobs, sweeps, reconciling>>
        BY <1>1 DEF DependencyChanges, processVars
    <2> QED
        BY <2>1, MainUndisturbed, ReadyUndisturbed, JobsUndisturbed, SweepsUndisturbed DEF Parts
<1> QED
    BY <1>1, BootKeeps, StartUpKeeps, WaitUntilReadyKeeps, ConsumeKeeps, SweepStepsKeep,
       JobStepsKeep, SignalKeeps, ClosingKeeps
    DEF ProcessNext, MainStep

\* While the worker says it is ready it consumes, with all it needs; no job ever loses its
\* clients; and no two sweeps overlap: for any concurrency, signals and outages.
THEOREM WorkerStaysInPlace == ProcessSpec => []WorkerIsInPlace
<1>1. Parts => WorkerIsInPlace
    BY ProcessParts DEF ProcessIInv
<1> QED
    BY ProcessStarts, ProcessKeepsParts, <1>1, PTL DEF ProcessSpec

-----------------------------------------------------------------------------
(* Sign-in *)

\* Accounts are only added, and keep their e-mail, their password and, but for the
\* administrator's decision, their status.
UsersGrow(us, vs) ==
    /\ Len(us) <= Len(vs)
    /\ \A i \in DOMAIN us : /\ vs[i].email = us[i].email /\ vs[i].hash = us[i].hash
                            /\ vs[i].status = us[i].status

\* What is linked stays so.
LinksGrow(links, moreLinks) ==
    \A email \in Emails : links[email] # 0 => moreLinks[email] = links[email]

WorkspacesGrow(ws, xs) == \A w \in DOMAIN ws : w \in DOMAIN xs /\ xs[w] = ws[w]

LEMMA SignInIsSafe == SignInIInv => AccessIsOnesOwn
<1> SUFFICES ASSUME SignInIInv PROVE AccessIsOnesOwn
    OBVIOUS
<1>1. SignInTypeOK
    <2>1. \A i \in DOMAIN users : users[i] \in UserRecord
        BY DEF SignInIInv, TablesOK
    <2>2. ASSUME NEW b \in Browsers
          PROVE  access[b] \in [user : 0..Len(users), workspace : 0..Len(workspaces)]
        <3>1. CASE access[b] = NoContext
            BY <3>1 DEF NoContext, SignInIInv, TablesOK
        <3>2. CASE access[b] # NoContext
            BY <3>2 DEF SignInIInv, TablesOK, OnesOwn
        <3> QED
            BY <3>1, <3>2
    <2>3. \A b \in Browsers : browser[b].token \in 0..Len(users)
        BY DEF SignInIInv, InSession
    <2>4. \A w \in DOMAIN workspaces : workspaces[w] \in DOMAIN users
        BY DEF SignInIInv, TablesOK
    <2>5. access \in [Browsers -> [user : 0..Len(users), workspace : 0..Len(workspaces)]]
        BY <2>2 DEF SignInIInv, TablesOK
    <2>6. accounts \in [Emails -> 0..Len(users)]
        <3>1. /\ accounts \in [Emails -> Nat] /\ users \in Seq(UserRecord)
              /\ \A email \in Emails : accounts[email] # 0 => accounts[email] \in DOMAIN users
            BY DEF SignInIInv, TablesOK, LinksOK
        <3>2. \A email \in Emails : accounts[email] \in 0..Len(users)
            BY <3>1
        <3> QED
            BY <3>1, <3>2
    <2> QED
        BY <2>1, <2>3, <2>4, <2>5, <2>6 DEF SignInTypeOK, UserRecord
<1>2. SignsInToOneself
    BY DEF SignInIInv, Genuine, SignsInToOneself
<1>5. GoogleOpensOnesOwn
    BY DEF SignInIInv, TablesOK, LinksOK, GoogleOpensOnesOwn
<1>3. OneWorkspaceEach
    BY DEF SignInIInv, TablesOK, OnesOwn, OneWorkspaceEach
<1>4. SuspendedIsTurnedAway
    BY DEF SignInIInv, InSession, SuspendedIsTurnedAway
<1> QED
    BY <1>1, <1>2, <1>3, <1>4, <1>5 DEF AccessIsOnesOwn

LEMMA SignInStarts == SignInInit => SignInIInv
<1> SUFFICES ASSUME SignInInit PROVE SignInIInv
    OBVIOUS
<1> DEFINE first == [email |-> OtherEmail, hash |-> NoHash, status |-> "suspended"]
           away == [pc |-> "turned away", email |-> BadInput, password |-> BadInput,
                    token |-> 0, found |-> 0, how |-> "none"]
<1>1. first \in UserRecord /\ first.email = OtherEmail /\ first.hash = NoHash
    BY DEF UserRecord
<1> HIDE DEF first, away
<1>2. users = <<first>> /\ users \in Seq(UserRecord) /\ Len(users) = 1 /\ DOMAIN users = {1}
    <2>1. users = <<first>>
        BY Zenon DEF SignInInit, first
    <2> QED
        BY <1>1, <2>1
<1>3. workspaces \in Seq(Nat) /\ DOMAIN workspaces = {1} /\ workspaces[1] = 1
    <2>1. workspaces = <<1>>
        BY Zenon DEF SignInInit
    <2> QED
        BY <2>1
<1>4. \A m \in members : m.workspace = 1 /\ m.user = 1
    <2>1. members = {[user |-> 1, workspace |-> 1]}
        BY Zenon DEF SignInInit
    <2> QED
        BY <2>1
<1>5. away \in BrowserRecord
    BY DEF BrowserRecord, Idle, away
<1>6. browser = [b \in Browsers |-> away] /\ access = [b \in Browsers |-> NoContext]
    BY Zenon DEF SignInInit, away
<1>7. wasActive \in [Browsers -> BOOLEAN]
    BY Zenon DEF SignInInit
<1>8. NoContext \in [user : Nat, workspace : Nat]
    BY DEF NoContext
<1>9. browser \in [Browsers -> BrowserRecord] /\ access \in [Browsers -> [user : Nat, workspace : Nat]]
    BY <1>5, <1>6, <1>8, Zenon
<1>14. LinksOK
    <2>1. accounts = [email \in Emails |-> IF email = OtherEmail THEN 1 ELSE 0]
        BY Zenon DEF SignInInit
    <2>2. ASSUME NEW email \in Emails, accounts[email] # 0
          PROVE  accounts[email] \in DOMAIN users /\ Entitled(email, accounts[email], users, asked)
        <3>1. accounts[email] = 1 /\ email = OtherEmail
            BY <2>1, <2>2
        <3>2. users[1] = first
            BY <1>2
        <3> QED
            BY <1>1, <1>2, <3>1, <3>2 DEF Entitled
    <2> QED
        BY <2>1, <2>2 DEF LinksOK
<1>10. TablesOK
    BY <1>2, <1>3, <1>4, <1>7, <1>9, <1>14 DEF TablesOK
<1>11. \A b \in Browsers : browser[b].pc = "turned away" /\ browser[b].token = 0
    BY <1>6 DEF away
<1>12. \A b \in Browsers : access[b] = NoContext
    BY <1>6
<1>13. ASSUME NEW b \in Browsers
       PROVE  /\ Genuine(browser[b], users, accounts, asked) /\ InSession(browser[b], users, wasActive[b])
              /\ OnesOwn(access[b], workspaces)
    <2>1. browser[b].pc = "turned away" /\ browser[b].token \in 0..Len(users)
        <3>1. 0 \in 0..1
            OBVIOUS
        <3> QED
            BY <1>2, <1>11, <3>1, Zenon
    <2>2. OnesOwn(access[b], workspaces)
        BY <1>12 DEF OnesOwn
    <2> QED
        BY <2>1, <2>2 DEF Genuine, InSession
<1> QED
    BY <1>10, <1>13 DEF SignInIInv

\* Nothing that is added takes anything from what a browser holds.
LEMMA StaysGenuine ==
    ASSUME NEW r \in BrowserRecord, NEW us \in Seq(UserRecord), NEW vs \in Seq(UserRecord),
           NEW links, NEW moreLinks, NEW asks,
           NEW moreAsks, UsersGrow(us, vs), NEW active \in BOOLEAN, LinksGrow(links, moreLinks), asks \subseteq moreAsks,
           Genuine(r, us, links, asks), InSession(r, us, active)
    PROVE  Genuine(r, vs, moreLinks, moreAsks) /\ InSession(r, vs, active)
<1>1. r.token \in 0..Len(us) /\ Len(us) \in Nat /\ Len(vs) \in Nat /\ Len(us) <= Len(vs)
    BY DEF InSession, UsersGrow
<1>2. r.token # 0 => r.token \in DOMAIN us
    BY <1>1
<1>3. DOMAIN us \subseteq DOMAIN vs
    BY <1>1
<1>4. Genuine(r, vs, moreLinks, moreAsks)
    BY <1>2, <1>3 DEF Genuine, UsersGrow, LinksGrow, Entitled
<1>5. InSession(r, vs, active)
    <2>1. r.token \in 0..Len(vs)
        BY <1>1
    <2>2. r.pc = "account" => us[r.token].status = vs[r.token].status
        BY <1>2 DEF InSession, UsersGrow
    <2> QED
        BY <2>1, <2>2 DEF InSession
<1> QED
    BY <1>4, <1>5

LEMMA StaysOnesOwn ==
    ASSUME NEW context, NEW ws, NEW xs, WorkspacesGrow(ws, xs), OnesOwn(context, ws)
    PROVE  OnesOwn(context, xs)
BY DEF OnesOwn, WorkspacesGrow

\* A step of one browser: the others' records, contexts and flags stay.
Moves(b) ==
    /\ browser' \in [Browsers -> BrowserRecord]
    /\ \A d \in Browsers : d # b => browser'[d] = browser[d]

Begins(b) ==
    /\ access' \in [Browsers -> [user : Nat, workspace : Nat]]
    /\ wasActive' \in [Browsers -> BOOLEAN]
    /\ \A d \in Browsers : d # b => access'[d] = access[d] /\ wasActive'[d] = wasActive[d]

\* Links that are added are their users' own.
LEMMA LinksStayOK ==
    ASSUME LinksOK, users \in Seq(UserRecord), users' \in Seq(UserRecord),
           UsersGrow(users, users'), asked \subseteq asked', UNCHANGED accounts
    PROVE  LinksOK'
<1>1. DOMAIN users \subseteq DOMAIN users'
    BY DEF UsersGrow
<1> QED
    BY <1>1 DEF LinksOK, UsersGrow, Entitled

LEMMA AnyBrowserStep ==
    ASSUME SignInIInv, NEW b \in Browsers, Moves(b), Begins(b), UNCHANGED <<workspaces, members>>,
           users' \in Seq(UserRecord), UsersGrow(users, users'),
           LinksOK', LinksGrow(accounts, accounts'), asked \subseteq asked',
           Genuine(browser'[b], users', accounts', asked'),
           InSession(browser'[b], users', wasActive'[b]), OnesOwn(access'[b], workspaces)
    PROVE  SignInIInv'
<1>1. TablesOK'
    <2>1. DOMAIN users \subseteq DOMAIN users'
        BY DEF SignInIInv, TablesOK, UsersGrow
    <2> QED
        BY <2>1 DEF SignInIInv, TablesOK, Moves, Begins
<1>2. ASSUME NEW d \in Browsers
      PROVE  /\ Genuine(browser'[d], users', accounts', asked')
             /\ InSession(browser'[d], users', wasActive'[d]) /\ OnesOwn(access'[d], workspaces')
    <2>1. CASE d = b
        BY <2>1
    <2>2. CASE d # b
        <3>1. browser'[d] = browser[d] /\ wasActive'[d] = wasActive[d] /\ access'[d] = access[d]
            BY <2>2 DEF Moves, Begins
        <3>2. /\ browser[d] \in BrowserRecord /\ wasActive[d] \in BOOLEAN
              /\ users \in Seq(UserRecord)
              /\ Genuine(browser[d], users, accounts, asked)
              /\ InSession(browser[d], users, wasActive[d]) /\ OnesOwn(access[d], workspaces)
            BY DEF SignInIInv, TablesOK
        <3>3. /\ Genuine(browser[d], users', accounts', asked')
              /\ InSession(browser[d], users', wasActive[d])
            BY <3>2, StaysGenuine
        <3> QED
            BY <3>1, <3>2, <3>3
    <2> QED
        BY <2>1, <2>2
<1> QED
    BY <1>1, <1>2 DEF SignInIInv

\* A step that links nothing.
LEMMA BrowserStep ==
    ASSUME SignInIInv, NEW b \in Browsers, Moves(b), Begins(b),
           UNCHANGED <<workspaces, members, accounts, asked>>,
           users' \in Seq(UserRecord), UsersGrow(users, users'),
           Genuine(browser'[b], users', accounts, asked),
           InSession(browser'[b], users', wasActive'[b]), OnesOwn(access'[b], workspaces)
    PROVE  SignInIInv'
<1>1. accounts' = accounts /\ asked' = asked /\ asked \subseteq asked'
      /\ LinksGrow(accounts, accounts')
    BY DEF LinksGrow
<1>2. LinksOK'
    BY <1>1, LinksStayOK DEF SignInIInv, TablesOK
<1>3. Genuine(browser'[b], users', accounts', asked')
    BY <1>1
<1> QED
    BY <1>1, <1>2, <1>3, AnyBrowserStep

LEMMA Undisturbed ==
    ASSUME SignInIInv, NEW b \in Browsers
    PROVE  /\ users \in Seq(UserRecord) /\ Len(users) \in Nat /\ UsersGrow(users, users)
           /\ browser \in [Browsers -> BrowserRecord] /\ browser[b] \in BrowserRecord
           /\ Genuine(browser[b], users, accounts, asked) /\ InSession(browser[b], users, wasActive[b])
           /\ OnesOwn(access[b], workspaces)
           /\ access' = access /\ wasActive' = wasActive => Begins(b)
<1>1. users \in Seq(UserRecord) /\ Len(users) \in Nat /\ browser \in [Browsers -> BrowserRecord]
    BY DEF SignInIInv, TablesOK
<1> QED
    BY <1>1 DEF SignInIInv, TablesOK, UsersGrow, Begins

\* A step that gives one browser a record of the type.
LEMMA BrowserMoves ==
    ASSUME browser \in [Browsers -> BrowserRecord], NEW b \in Browsers, NEW r \in BrowserRecord,
           browser' = [browser EXCEPT ![b] = r]
    PROVE  Moves(b) /\ browser'[b] = r
BY DEF Moves

LEMMA TurnedAway ==
    ASSUME SignInIInv, NEW b \in Browsers, TurnAway(b)
    PROVE  /\ Moves(b)
           /\ browser'[b].pc = "turned away" /\ browser'[b].token = browser[b].token
<1>1. browser \in [Browsers -> BrowserRecord]
    BY DEF SignInIInv, TablesOK
<1> DEFINE r == [browser[b] EXCEPT !.pc = "turned away", !.email = BadInput,
                                   !.password = BadInput, !.found = 0, !.how = "none"]
<1>2. r \in BrowserRecord /\ r.pc = "turned away" /\ r.token = browser[b].token
    BY <1>1 DEF BrowserRecord, Idle
<1>3. browser' = [browser EXCEPT ![b] = r]
    BY DEF TurnAway
<1> HIDE DEF r
<1> QED
    BY <1>1, <1>2, <1>3, BrowserMoves

LEMMA Goes ==
    ASSUME SignInIInv, NEW b \in Browsers,
           NEW pc \in {"create", "verify", "membership", "provision", "served"}, Go(b, pc)
    PROVE  /\ Moves(b)
           /\ browser'[b].pc = pc /\ browser'[b].token = browser[b].token
           /\ browser'[b].email = browser[b].email /\ browser'[b].password = browser[b].password
<1>1. browser \in [Browsers -> BrowserRecord]
    BY DEF SignInIInv, TablesOK
<1> DEFINE r == [browser[b] EXCEPT !.pc = pc]
<1>2. /\ r \in BrowserRecord /\ r.pc = pc /\ r.token = browser[b].token
      /\ r.email = browser[b].email /\ r.password = browser[b].password
    BY <1>1 DEF BrowserRecord, Idle
<1>3. browser' = [browser EXCEPT ![b] = r]
    BY DEF Go
<1> HIDE DEF r
<1> QED
    BY <1>1, <1>2, <1>3, BrowserMoves

LEMMA SignedInFacts ==
    ASSUME browser \in [Browsers -> BrowserRecord], NEW b \in Browsers, NEW user \in Nat,
           NEW email \in Emails \cup {BadInput}, NEW how \in {"password", "google"},
           SignedIn(b, user, email, how)
    PROVE  /\ Moves(b)
           /\ browser'[b].pc = "signed in" /\ browser'[b].token = user
           /\ browser'[b].email = email /\ browser'[b].how = how
           /\ how = "password" => browser'[b].password = browser[b].password
<1> DEFINE password == IF how = "password" THEN browser[b].password ELSE BadInput
           r == [pc |-> "signed in", email |-> email, token |-> user, found |-> 0, how |-> how,
                 password |-> password]
<1>1. password \in Passwords \cup {BadInput}
    BY DEF BrowserRecord
<1>2. browser' = [browser EXCEPT ![b] = r]
    BY DEF SignedIn
<1>3. how = "password" => password = browser[b].password
    OBVIOUS
<1> HIDE DEF password
<1>4. /\ r \in BrowserRecord /\ r.pc = "signed in" /\ r.token = user /\ r.email = email
      /\ r.how = how /\ r.password = password
    BY <1>1 DEF BrowserRecord, Idle
<1> HIDE DEF r
<1>5. Moves(b) /\ browser'[b] = r
    BY <1>2, <1>4, BrowserMoves
<1> QED
    BY <1>3, <1>4, <1>5

\* What Auth.js has yet to do, for the user found.
LEMMA GoesOn ==
    ASSUME browser \in [Browsers -> BrowserRecord], NEW b \in Browsers,
           NEW pc \in {"google create", "google link"}, NEW email \in Emails, NEW found \in Nat,
           GoOn(b, pc, email, found)
    PROVE  /\ Moves(b)
           /\ browser'[b].pc = pc /\ browser'[b].email = email /\ browser'[b].found = found
           /\ browser'[b].token = browser[b].token
<1> DEFINE r == [pc |-> pc, email |-> email, password |-> BadInput, token |-> browser[b].token,
                 found |-> found, how |-> "none"]
<1>1. browser' = [browser EXCEPT ![b] = r]
    BY DEF GoOn
<1>2. /\ r \in BrowserRecord /\ r.pc = pc /\ r.email = email /\ r.found = found
      /\ r.token = browser[b].token
    BY DEF BrowserRecord
<1> HIDE DEF r
<1> QED
    BY <1>1, <1>2, BrowserMoves

LEMMA NothingToAnswerFor ==
    ASSUME NEW r \in BrowserRecord, NEW us, NEW links, NEW asks, NEW active, r.pc = "turned away",
           r.token \in 0..Len(us)
    PROVE  Genuine(r, us, links, asks) /\ InSession(r, us, active)
BY DEF Genuine, InSession

\* Whoever is turned away, at whatever step.
LEMMA TurnAwayKeeps ==
    ASSUME SignInIInv, NEW b \in Browsers, TurnAway(b), UNCHANGED <<tables, asked>>, Begins(b),
           OnesOwn(access'[b], workspaces)
    PROVE  SignInIInv'
<1>1. Moves(b) /\ browser'[b].pc = "turned away" /\ browser'[b].token = browser[b].token
    BY TurnedAway
<1>2. users' \in Seq(UserRecord) /\ UsersGrow(users, users') /\ browser'[b].token \in 0..Len(users')
    BY <1>1, Undisturbed DEF tables, InSession
<1>3. browser'[b] \in BrowserRecord
    BY <1>1 DEF Moves
<1>4. Genuine(browser'[b], users', accounts', asked') /\ InSession(browser'[b], users', wasActive'[b])
    BY <1>1, <1>2, <1>3, NothingToAnswerFor
<1> QED
    BY <1>1, <1>2, <1>4, BrowserStep DEF tables

LEMMA BeginFacts ==
    ASSUME SignInIInv, NEW b \in Browsers, NEW active \in BOOLEAN, Begin(b, active)
    PROVE  Begins(b) /\ OnesOwn(access'[b], workspaces) /\ wasActive'[b] = active
<1>1. /\ access \in [Browsers -> [user : Nat, workspace : Nat]]
      /\ wasActive \in [Browsers -> BOOLEAN]
    BY DEF SignInIInv, TablesOK
<1>2. NoContext \in [user : Nat, workspace : Nat]
    BY DEF NoContext
<1>3. wasActive' \in [Browsers -> BOOLEAN] /\ wasActive'[b] = active
      /\ \A d \in Browsers : d # b => wasActive'[d] = wasActive[d]
    BY <1>1, Zenon DEF Begin
<1>4. /\ access' \in [Browsers -> [user : Nat, workspace : Nat]] /\ access'[b] = NoContext
      /\ \A d \in Browsers : d # b => access'[d] = access[d]
    BY <1>1, <1>2 DEF Begin
<1> QED
    BY <1>3, <1>4 DEF Begins, OnesOwn

\* A step that writes no table and begins no request.
LEMMA QuietStep ==
    ASSUME SignInIInv, NEW b \in Browsers, Moves(b), UNCHANGED <<tables, access, wasActive, asked>>,
           Genuine(browser'[b], users, accounts, asked), InSession(browser'[b], users, wasActive[b])
    PROVE  SignInIInv'
<1>1. UNCHANGED <<workspaces, members, accounts, asked>> /\ users' = users
      /\ access' = access /\ wasActive' = wasActive
    BY DEF tables
<1>2. Begins(b) /\ OnesOwn(access'[b], workspaces) /\ UsersGrow(users, users')
      /\ users' \in Seq(UserRecord)
    BY <1>1, Undisturbed
<1> QED
    BY <1>1, <1>2, BrowserStep

LEMMA QuietTurnAway ==
    ASSUME SignInIInv, NEW b \in Browsers, TurnAway(b), UNCHANGED <<tables, access, wasActive, asked>>
    PROVE  SignInIInv'
<1>1. UNCHANGED <<tables, asked>> /\ access' = access /\ wasActive' = wasActive
    OBVIOUS
<1> QED
    BY <1>1, Undisturbed, TurnAwayKeeps

\* The row of an e-mail is one with that e-mail.
LEMMA RowOfEmail ==
    ASSUME users \in Seq(UserRecord), NEW email, GetUserByEmail(email) # 0
    PROVE  /\ GetUserByEmail(email) \in DOMAIN users
           /\ users[GetUserByEmail(email)].email = email
BY DEF GetUserByEmail

LEMMA AccountIsAdded ==
    ASSUME users \in Seq(UserRecord), NEW email \in Emails, NEW hash \in Passwords \cup {NoHash},
           NewUser(email, hash)
    PROVE  /\ users' \in Seq(UserRecord) /\ UsersGrow(users, users')
           /\ Len(users) + 1 \in DOMAIN users' /\ Len(users') = Len(users) + 1
           /\ users'[Len(users) + 1].email = email /\ users'[Len(users) + 1].hash = hash
<1> DEFINE row == [email |-> email, hash |-> hash, status |-> "active"]
<1>1. row \in UserRecord
    BY DEF UserRecord
<1>2. users' = Append(users, row)
    BY DEF NewUser
<1>3. row.email = email /\ row.hash = hash
    OBVIOUS
<1> HIDE DEF row
<1> QED
    BY <1>1, <1>2, <1>3 DEF UsersGrow

LEMMA RowChanges ==
    ASSUME users \in Seq(UserRecord), NEW i \in DOMAIN users, NEW row \in UserRecord,
           users' = [users EXCEPT ![i] = row]
    PROVE  users' \in Seq(UserRecord) /\ Len(users') = Len(users) /\ DOMAIN users' = DOMAIN users
<1> DEFINE q == users'
<1>0. DOMAIN users = 1..Len(users) /\ Len(users) \in Nat
    OBVIOUS
<1>1. [users EXCEPT ![i] = row] = [k \in DOMAIN users |-> IF k = i THEN row ELSE users[k]]
    OBVIOUS
<1>2. q = [k \in 1..Len(users) |-> IF k = i THEN row ELSE users[k]]
    BY <1>0, <1>1, Zenon DEF q
<1>3. \A k \in 1..Len(users) : users[k] \in UserRecord
    OBVIOUS
<1> HIDE DEF q
<1>4. q = [k \in 1..Len(users) |-> q[k]] /\ \A k \in 1..Len(users) : q[k] \in UserRecord
    BY <1>2, <1>3
<1>5. q \in Seq(UserRecord) /\ Len(q) = Len(users) /\ DOMAIN q = DOMAIN users
    BY <1>0, <1>4
<1> QED
    BY <1>5 DEF q

LEMMA SubmitCredentialsKeeps ==
    ASSUME SignInIInv, NEW b \in Browsers, SubmitCredentials(b)
    PROVE  SignInIInv'
<1>1. Begins(b) /\ OnesOwn(access'[b], workspaces) /\ UNCHANGED <<tables, asked>>
    BY BeginFacts DEF SubmitCredentials
<1>2. CASE TurnAway(b)
    BY <1>1, <1>2, TurnAwayKeeps
<1>3. ASSUME NEW email \in Emails, NEW password \in Passwords,
             browser' = [browser EXCEPT ![b] =
                [pc |-> "lookup", email |-> email, password |-> password,
                 token |-> @.token, found |-> 0, how |-> "none"]]
      PROVE  SignInIInv'
    <2>1. browser \in [Browsers -> BrowserRecord] /\ users \in Seq(UserRecord)
          /\ UsersGrow(users, users) /\ browser[b].token \in 0..Len(users)
        BY Undisturbed DEF InSession
    <2>2. Moves(b) /\ browser'[b].pc = "lookup" /\ browser'[b].email = email
          /\ browser'[b].password = password /\ browser'[b].token = browser[b].token
        <3> DEFINE r == [pc |-> "lookup", email |-> email, password |-> password,
                         token |-> browser[b].token, found |-> 0, how |-> "none"]
        <3>1. /\ r \in BrowserRecord /\ r.pc = "lookup" /\ r.email = email
              /\ r.password = password /\ r.token = browser[b].token
            BY <2>1 DEF BrowserRecord
        <3>2. browser' = [browser EXCEPT ![b] = r]
            BY <1>3
        <3> HIDE DEF r
        <3> QED
            BY <2>1, <3>1, <3>2, BrowserMoves
    <2>3. Genuine(browser'[b], users', accounts', asked') /\ InSession(browser'[b], users', wasActive'[b])
        BY <1>1, <2>1, <2>2 DEF Genuine, InSession, tables
    <2> QED
        BY <1>1, <2>1, <2>2, <2>3, BrowserStep DEF tables
<1> QED
    BY <1>2, <1>3 DEF SubmitCredentials

LEMMA LookUpKeeps == ASSUME SignInIInv, NEW b \in Browsers, LookUp(b) PROVE SignInIInv'
<1>1. UNCHANGED <<tables, access, wasActive, asked>>
    BY DEF LookUp
<1>2. CASE TurnAway(b)
    BY <1>1, <1>2, QuietTurnAway
<1>3. ASSUME NEW pc \in {"create", "verify"}, Go(b, pc) PROVE SignInIInv'
    <2>1. Genuine(browser[b], users, accounts, asked) /\ InSession(browser[b], users, wasActive[b])
        BY Undisturbed
    <2>2. Moves(b) /\ browser'[b].pc = pc /\ browser'[b].token = browser[b].token
          /\ browser'[b].email = browser[b].email /\ browser'[b].password = browser[b].password
        BY <1>3, Goes
    <2>3. Genuine(browser'[b], users, accounts, asked) /\ InSession(browser'[b], users, wasActive[b])
        BY <2>1, <2>2 DEF LookUp, Genuine, InSession
    <2> QED
        BY <1>1, <2>2, <2>3, QuietStep
<1> QED
    BY <1>2, <1>3 DEF LookUp

LEMMA CreateCredentialsUserKeeps ==
    ASSUME SignInIInv, NEW b \in Browsers, CreateCredentialsUser(b)
    PROVE  SignInIInv'
<1>0. UNCHANGED <<accounts, workspaces, members, access, wasActive, asked>>
    BY DEF CreateCredentialsUser
<1>1. CASE UNCHANGED users /\ TurnAway(b)
    BY <1>0, <1>1, QuietTurnAway DEF tables
<1>2. CASE InsertCredentials(browser[b].email, browser[b].password) /\ Go(b, "verify")
    <2>1. /\ users \in Seq(UserRecord) /\ UsersGrow(users, users)
          /\ Genuine(browser[b], users, accounts, asked) /\ InSession(browser[b], users, wasActive[b])
          /\ browser[b] \in BrowserRecord
        BY Undisturbed
    <2>2. browser[b].email \in Emails /\ browser[b].password \in Passwords
        BY <2>1 DEF CreateCredentialsUser, Genuine
    <2>3. users' \in Seq(UserRecord) /\ UsersGrow(users, users')
        <3>1. CASE users' = users
            BY <2>1, <3>1
        <3>2. CASE NewUser(browser[b].email, browser[b].password)
            BY <2>1, <2>2, <3>2, AccountIsAdded
        <3> QED
            BY <1>2, <3>1, <3>2 DEF InsertCredentials
    <2>4. Moves(b) /\ browser'[b].pc = "verify" /\ browser'[b].token = browser[b].token
          /\ browser'[b].email = browser[b].email /\ browser'[b].password = browser[b].password
        BY <1>2, Goes
    <2>5. wasActive[b] \in BOOLEAN
        BY DEF SignInIInv, TablesOK
    <2>6. InSession(browser[b], users', wasActive[b])
        <3>1. LinksGrow(accounts, accounts) /\ asked \subseteq asked
            BY DEF LinksGrow
        <3> QED
            BY <2>1, <2>3, <2>5, <3>1, StaysGenuine, Zenon
    <2>7. Genuine(browser'[b], users', accounts', asked') /\ InSession(browser'[b], users', wasActive'[b])
        BY <1>0, <2>2, <2>4, <2>6 DEF Genuine, InSession
    <2>8. Begins(b) /\ OnesOwn(access'[b], workspaces)
        BY <1>0, Undisturbed
    <2> QED
        BY <1>0, <2>3, <2>4, <2>7, <2>8, BrowserStep
<1> QED
    BY <1>1, <1>2 DEF CreateCredentialsUser

\* A password signs in to the row it is stored in.
LEMMA AuthorizeKeeps == ASSUME SignInIInv, NEW b \in Browsers, Authorize(b) PROVE SignInIInv'
<1> DEFINE user == VerifyCredentials(browser[b].email, browser[b].password)
<1>1. UNCHANGED <<tables, access, wasActive, asked>>
    BY DEF Authorize
<1>2. CASE TurnAway(b)
    BY <1>1, <1>2, QuietTurnAway
<1>3. CASE /\ user # 0
           /\ SignedIn(b, user, browser[b].email, "password")
    <2>1. /\ users \in Seq(UserRecord) /\ browser \in [Browsers -> BrowserRecord]
        BY Undisturbed
    <2>2. /\ user \in DOMAIN users /\ users[user].email = browser[b].email
          /\ users[user].hash = browser[b].password
        BY <1>3, <2>1, RowOfEmail DEF VerifyCredentials
    <2> HIDE DEF user
    <2>3. user \in Nat /\ user \in 0..Len(users)
        BY <2>1, <2>2
    <2>4. Moves(b) /\ browser'[b].pc = "signed in" /\ browser'[b].token = user
          /\ browser'[b].email = browser[b].email /\ browser'[b].how = "password"
          /\ browser'[b].password = browser[b].password
        <3> DEFINE email == browser[b].email
        <3>1. email \in Emails \cup {BadInput}
            BY <2>1 DEF BrowserRecord
        <3>2. SignedIn(b, user, email, "password") /\ "password" \in {"password", "google"}
            BY <1>3
        <3> HIDE DEF email
        <3>3. /\ Moves(b) /\ browser'[b].pc = "signed in" /\ browser'[b].token = user
              /\ browser'[b].email = email /\ browser'[b].how = "password"
              /\ "password" = "password" => browser'[b].password = browser[b].password
            BY <2>1, <2>3, <3>1, <3>2, SignedInFacts, ZenonT(60)
        <3> QED
            BY <3>3 DEF email
    <2>5. Genuine(browser'[b], users, accounts, asked) /\ InSession(browser'[b], users, wasActive[b])
        BY <1>3, <2>2, <2>3, <2>4 DEF Genuine, InSession
    <2> QED
        BY <1>1, <2>4, <2>5, QuietStep
<1> QED
    BY <1>2, <1>3 DEF Authorize

LEMMA GoogleReturnsKeeps ==
    ASSUME SignInIInv, NEW b \in Browsers, GoogleReturns(b)
    PROVE  SignInIInv'
<1>1. Begins(b) /\ OnesOwn(access'[b], workspaces) /\ UNCHANGED tables
    BY BeginFacts DEF GoogleReturns
<1>2. /\ browser \in [Browsers -> BrowserRecord] /\ users \in Seq(UserRecord)
      /\ UsersGrow(users, users) /\ Len(users) \in Nat /\ browser[b].token \in 0..Len(users)
    BY Undisturbed DEF InSession
<1>3. CASE TurnAway(b) /\ UNCHANGED asked
    BY <1>1, <1>3, TurnAwayKeeps
\* The account is linked, and the browser has no other user's session.
<1>4. ASSUME NEW email \in Emails, accounts[email] # 0, UNCHANGED asked,
             SignedIn(b, accounts[email], email, "google")
      PROVE  SignInIInv'
    <2> DEFINE owner == accounts[email]
    <2>1. owner \in DOMAIN users /\ owner # 0 /\ SignedIn(b, owner, email, "google")
        BY <1>4 DEF SignInIInv, TablesOK, LinksOK
    <2>2. accounts[email] = owner
        OBVIOUS
    <2> HIDE DEF owner
    <2>3. owner \in Nat /\ owner \in 0..Len(users)
        BY <1>2, <2>1
    <2>4. Moves(b) /\ browser'[b].pc = "signed in" /\ browser'[b].email = email
          /\ browser'[b].token = owner /\ browser'[b].how = "google"
        <3>1. email \in Emails \cup {BadInput} /\ "google" \in {"password", "google"}
            OBVIOUS
        <3> QED
            BY <1>2, <2>1, <2>3, <3>1, SignedInFacts, ZenonT(60)
    <2>5. UNCHANGED <<workspaces, members, accounts, asked>> /\ users' = users
        BY <1>1, <1>4 DEF tables
    <2>6. Genuine(browser'[b], users, accounts, asked) /\ InSession(browser'[b], users, wasActive'[b])
        BY <2>1, <2>2, <2>3, <2>4 DEF Genuine, InSession
    <2> QED
        BY <1>1, <1>2, <2>4, <2>5, <2>6, BrowserStep
\* It is not, and is to be linked to the session's user.
<1>5. ASSUME NEW email \in Emails, browser[b].token # 0,
             GoOn(b, "google link", email, browser[b].token),
             asked' = asked \cup {[email |-> email, user |-> browser[b].token]}
      PROVE  SignInIInv'
    <2> DEFINE session == browser[b].token
    <2>1. /\ session \in DOMAIN users /\ session \in Nat /\ session # 0
          /\ [email |-> email, user |-> session] \in asked' /\ asked \subseteq asked'
          /\ session \in 0..Len(users) /\ session = browser[b].token
        <3>1. session \in 0..Len(users) /\ session # 0 /\ session = browser[b].token
            BY <1>2, <1>5, Zenon
        <3>2. [email |-> email, user |-> session] \in asked' /\ asked \subseteq asked'
            BY <1>5, Zenon
        <3> HIDE DEF session
        <3> QED
            BY <1>2, <3>1, <3>2
    <2>6. GoOn(b, "google link", email, session)
        BY <1>5, Zenon
    <2> HIDE DEF session
    <2>2. Moves(b) /\ browser'[b].pc = "google link" /\ browser'[b].email = email
          /\ browser'[b].found = session /\ browser'[b].token = session
        BY <1>2, <2>1, <2>6, GoesOn
    <2>3. UNCHANGED <<workspaces, members>> /\ accounts' = accounts /\ users' = users
        BY <1>1 DEF tables
    <2>4. LinksOK' /\ LinksGrow(accounts, accounts')
        BY <1>2, <2>1, <2>3, LinksStayOK DEF SignInIInv, TablesOK, LinksGrow
    <2>5. Genuine(browser'[b], users, accounts, asked') /\ InSession(browser'[b], users, wasActive'[b])
        BY <2>1, <2>2 DEF Genuine, Entitled, InSession
    <2> QED
        BY <1>1, <1>2, <2>1, <2>2, <2>3, <2>4, <2>5, AnyBrowserStep
\* Nobody has it, nor the e-mail.
<1>6. ASSUME NEW email \in Emails, GoOn(b, "google create", email, 0), UNCHANGED asked
      PROVE  SignInIInv'
    <2>1. Moves(b) /\ browser'[b].pc = "google create" /\ browser'[b].email = email
          /\ browser'[b].token = browser[b].token
        BY <1>2, <1>6, GoesOn
    <2>2. UNCHANGED <<workspaces, members, accounts, asked>> /\ users' = users
        BY <1>1, <1>6 DEF tables
    <2>3. Genuine(browser'[b], users, accounts, asked) /\ InSession(browser'[b], users, wasActive'[b])
        BY <1>2, <2>1 DEF Genuine, InSession
    <2> QED
        BY <1>1, <1>2, <2>1, <2>2, <2>3, BrowserStep
<1> QED
    BY <1>3, <1>4, <1>5, <1>6 DEF GoogleReturns

LEMMA GoogleCreateUserKeeps ==
    ASSUME SignInIInv, NEW b \in Browsers, GoogleCreateUser(b)
    PROVE  SignInIInv'
<1>0. UNCHANGED <<accounts, workspaces, members, access, wasActive, asked>>
    BY DEF GoogleCreateUser
<1>1. CASE UNCHANGED users /\ TurnAway(b)
    BY <1>0, <1>1, QuietTurnAway DEF tables
<1>2. CASE /\ NewUser(browser[b].email, NoHash)
           /\ GoOn(b, "google link", browser[b].email, Len(users) + 1)
    <2> DEFINE n == Len(users) + 1
               email == browser[b].email
    <2>1. /\ users \in Seq(UserRecord) /\ Len(users) \in Nat
          /\ browser \in [Browsers -> BrowserRecord]
          /\ Genuine(browser[b], users, accounts, asked) /\ browser[b].token \in 0..Len(users)
        BY Undisturbed DEF InSession
    <2>2. email \in Emails /\ n \in Nat
        <3>1. n \in Nat
            BY <2>1
        <3> HIDE DEF n
        <3>2. browser[b].pc = "google create"
            BY Zenon DEF GoogleCreateUser
        <3> QED
            BY <2>1, <3>1, <3>2 DEF Genuine
    <2>3. /\ users' \in Seq(UserRecord) /\ UsersGrow(users, users')
          /\ n \in DOMAIN users' /\ Len(users') = n
          /\ users'[n].email = email /\ users'[n].hash = NoHash
        BY <1>2, <2>1, <2>2, AccountIsAdded
    <2>4. GoOn(b, "google link", email, n)
        BY <1>2
    <2>5. browser[b].token \in 0..Len(users')
        <3>1. 0..Len(users) \subseteq 0..n
            BY <2>1
        <3> QED
            BY <2>1, <2>3, <3>1, Zenon
    <2> HIDE DEF n, email
    <2>6. /\ Moves(b) /\ browser'[b].pc = "google link" /\ browser'[b].email = email
          /\ browser'[b].found = n /\ browser'[b].token = browser[b].token
        BY <2>1, <2>2, <2>4, GoesOn
    <2>7. Genuine(browser'[b], users', accounts, asked)
          /\ InSession(browser'[b], users', wasActive'[b])
        BY <2>2, <2>3, <2>5, <2>6 DEF Genuine, Entitled, InSession
    <2>8. Begins(b) /\ OnesOwn(access'[b], workspaces)
        BY <1>0, Undisturbed
    <2> QED
        BY <1>0, <2>3, <2>6, <2>7, <2>8, BrowserStep
<1> QED
    BY <1>1, <1>2 DEF GoogleCreateUser

LEMMA GoogleLinkAccountKeeps ==
    ASSUME SignInIInv, NEW b \in Browsers, GoogleLinkAccount(b)
    PROVE  SignInIInv'
<1>0. users' = users /\ UNCHANGED <<workspaces, members, access, wasActive, asked>>
    BY DEF GoogleLinkAccount
<1>1. CASE UNCHANGED accounts /\ TurnAway(b)
    BY <1>0, <1>1, QuietTurnAway DEF tables
<1>2. CASE /\ accounts[browser[b].email] = 0
           /\ accounts' = [accounts EXCEPT ![browser[b].email] = browser[b].found]
           /\ SignedIn(b, browser[b].found, browser[b].email, "google")
    <2> DEFINE found == browser[b].found
               email == browser[b].email
    <2>1. /\ users \in Seq(UserRecord) /\ Len(users) \in Nat
          /\ browser \in [Browsers -> BrowserRecord] /\ UsersGrow(users, users)
          /\ Genuine(browser[b], users, accounts, asked)
        BY Undisturbed
    <2>2. found \in DOMAIN users /\ email \in Emails /\ Entitled(email, found, users, asked)
        BY <2>1 DEF GoogleLinkAccount, Genuine
    <2>3. /\ accounts[email] = 0 /\ accounts' = [accounts EXCEPT ![email] = found]
          /\ SignedIn(b, found, email, "google")
        BY <1>2
    <2> HIDE DEF found, email
    <2>4. found \in Nat /\ found # 0 /\ found \in 0..Len(users)
        BY <2>1, <2>2
    <2>5. /\ Moves(b) /\ browser'[b].pc = "signed in" /\ browser'[b].token = found
          /\ browser'[b].email = email /\ browser'[b].how = "google"
        <3>1. email \in Emails \cup {BadInput} /\ "google" \in {"password", "google"}
            BY <2>2
        <3> QED
            BY <2>1, <2>3, <2>4, <3>1, SignedInFacts, ZenonT(60)
    <2>6. /\ accounts' \in [Emails -> Nat] /\ accounts'[email] = found
          /\ \A e \in Emails : e # email => accounts'[e] = accounts[e]
        BY <2>2, <2>3, <2>4 DEF SignInIInv, TablesOK, LinksOK
    <2>7. LinksGrow(accounts, accounts')
        BY <2>3, <2>6 DEF LinksGrow
    <2>8. LinksOK'
        <3>1. ASSUME NEW e \in Emails, accounts'[e] # 0
              PROVE  /\ accounts'[e] \in DOMAIN users
                     /\ Entitled(e, accounts'[e], users, asked)
            <4>1. CASE e = email
                BY <2>2, <2>6, <4>1
            <4>2. CASE e # email
                BY <2>6, <3>1, <4>2 DEF SignInIInv, TablesOK, LinksOK
            <4> QED
                BY <4>1, <4>2
        <3> QED
            BY <1>0, <2>6, <3>1 DEF LinksOK
    <2>9. Genuine(browser'[b], users, accounts', asked) /\ InSession(browser'[b], users, wasActive'[b])
        BY <2>2, <2>4, <2>5, <2>6 DEF Genuine, InSession
    <2>10. Begins(b) /\ OnesOwn(access'[b], workspaces)
        BY <1>0, Undisturbed
    <2> QED
        BY <1>0, <2>1, <2>5, <2>7, <2>8, <2>9, <2>10, AnyBrowserStep
<1> QED
    BY <1>1, <1>2 DEF GoogleLinkAccount

LEMMA SignOutKeeps == ASSUME SignInIInv, NEW b \in Browsers, SignOut(b) PROVE SignInIInv'
<1> DEFINE away == [pc |-> "turned away", email |-> BadInput, password |-> BadInput,
                    token |-> 0, found |-> 0, how |-> "none"]
<1>1. Begins(b) /\ OnesOwn(access'[b], workspaces) /\ UNCHANGED <<tables, asked>>
    BY BeginFacts DEF SignOut
<1>2. /\ browser \in [Browsers -> BrowserRecord] /\ users \in Seq(UserRecord)
      /\ UsersGrow(users, users) /\ Len(users) \in Nat
    BY Undisturbed
<1>3. away \in BrowserRecord /\ away.pc = "turned away" /\ away.token = 0
    BY DEF BrowserRecord, Idle
<1>4. browser' = [browser EXCEPT ![b] = away]
    BY Zenon DEF SignOut
<1> HIDE DEF away
<1>5. Moves(b) /\ browser'[b] = away
    BY <1>2, <1>3, <1>4 DEF Moves
<1>6. away.token \in 0..Len(users)
    <2>1. 0 \in 0..Len(users)
        BY <1>2
    <2> QED
        BY <1>3, <2>1, Zenon
<1>7. Genuine(browser'[b], users, accounts, asked) /\ InSession(browser'[b], users, wasActive'[b])
    BY <1>3, <1>5, <1>6, NothingToAnswerFor
<1>8. users' = users /\ UNCHANGED <<workspaces, members, accounts, asked>>
    BY <1>1 DEF tables
<1> QED
    BY <1>1, <1>2, <1>5, <1>7, <1>8, BrowserStep

\* A request begins with what the account is then.
LEMMA VisitKeeps == ASSUME SignInIInv, NEW b \in Browsers, Visit(b) PROVE SignInIInv'
<1>1. UNCHANGED <<tables, asked>>
    BY DEF Visit
<1>2. /\ browser \in [Browsers -> BrowserRecord] /\ users \in Seq(UserRecord)
      /\ UsersGrow(users, users) /\ browser[b].token \in 0..Len(users)
    BY Undisturbed DEF InSession
<1>3. CASE TurnAway(b) /\ Begin(b, FALSE)
    <2>1. Begins(b) /\ OnesOwn(access'[b], workspaces)
        BY <1>3, BeginFacts
    <2> QED
        BY <1>1, <1>3, <2>1, TurnAwayKeeps
<1>4. CASE /\ browser[b].token # 0
           /\ browser' = [browser EXCEPT ![b] =
                    [@ EXCEPT !.pc = "account", !.email = BadInput, !.password = BadInput,
                              !.found = 0, !.how = "none"]]
           /\ Begin(b, users[browser[b].token].status = "active")
    <2>1. (users[browser[b].token].status = "active") \in BOOLEAN
        OBVIOUS
    <2>2. /\ Begins(b) /\ OnesOwn(access'[b], workspaces)
          /\ wasActive'[b] = (users[browser[b].token].status = "active")
        BY <1>4, <2>1, BeginFacts
    <2>3. Moves(b) /\ browser'[b].pc = "account" /\ browser'[b].token = browser[b].token
        <3> DEFINE r == [browser[b] EXCEPT !.pc = "account", !.email = BadInput,
                                           !.password = BadInput, !.found = 0, !.how = "none"]
        <3>1. r \in BrowserRecord /\ r.pc = "account" /\ r.token = browser[b].token
            BY <1>2 DEF BrowserRecord
        <3>2. browser' = [browser EXCEPT ![b] = r]
            BY <1>4
        <3> HIDE DEF r
        <3> QED
            BY <1>2, <3>1, <3>2, BrowserMoves
    <2>4. users' = users /\ UNCHANGED <<workspaces, members, accounts, asked>>
        BY <1>1 DEF tables
    <2>5. Genuine(browser'[b], users, accounts, asked)
        BY <2>3 DEF Genuine
    <2>6. InSession(browser'[b], users, wasActive'[b])
        BY <1>2, <1>4, <2>2, <2>3 DEF InSession
    <2> QED
        BY <1>2, <2>2, <2>3, <2>4, <2>5, <2>6, BrowserStep
<1> QED
    BY <1>3, <1>4 DEF Visit

\* A row says suspended or active, and an active one was so while the request lasted.
LEMMA GetSessionAccountKeeps ==
    ASSUME SignInIInv, NEW b \in Browsers, GetSessionAccount(b)
    PROVE  SignInIInv'
<1>1. UNCHANGED <<tables, access, wasActive, asked>>
    BY DEF GetSessionAccount
<1>2. CASE TurnAway(b)
    BY <1>1, <1>2, QuietTurnAway
<1>3. CASE users[browser[b].token].status # "suspended" /\ Go(b, "membership")
    <2>1. users \in Seq(UserRecord) /\ Len(users) \in Nat
          /\ InSession(browser[b], users, wasActive[b])
        BY Undisturbed
    <2>2. browser[b].pc = "account" /\ browser[b].token \in DOMAIN users
        BY <2>1 DEF GetSessionAccount, InSession
    <2>3. users[browser[b].token] \in UserRecord
        BY <2>1, <2>2
    <2>4. users[browser[b].token].status = "active"
        BY <1>3, <2>3 DEF UserRecord
    <2>5. Moves(b) /\ browser'[b].pc = "membership" /\ browser'[b].token = browser[b].token
        BY <1>3, Goes
    <2>6. Genuine(browser'[b], users, accounts, asked) /\ InSession(browser'[b], users, wasActive[b])
        BY <2>1, <2>2, <2>4, <2>5 DEF Genuine, InSession
    <2> QED
        BY <1>1, <2>5, <2>6, QuietStep
<1> QED
    BY <1>2, <1>3 DEF GetSessionAccount, AccountDecides

\* Served in a workspace, of the user's own.
LEMMA ServeFacts ==
    ASSUME SignInIInv, NEW b \in Browsers, NEW w \in Nat, Serve(b, w), wasActive' = wasActive,
           browser[b].pc \in {"membership", "provision"}
    PROVE  /\ Moves(b) /\ Begins(b)
           /\ access'[b] = [user |-> browser[b].token, workspace |-> w]
           /\ Genuine(browser'[b], users, accounts, asked) /\ InSession(browser'[b], users, wasActive'[b])
<1>1. Moves(b) /\ browser'[b].pc = "served" /\ browser'[b].token = browser[b].token
    BY Goes DEF Serve
<1>2. Genuine(browser'[b], users, accounts, asked) /\ InSession(browser'[b], users, wasActive'[b])
    BY <1>1, Undisturbed DEF Genuine, InSession
<1>3. /\ access \in [Browsers -> [user : Nat, workspace : Nat]]
      /\ wasActive \in [Browsers -> BOOLEAN] /\ browser[b].token \in Nat
    BY DEF SignInIInv, TablesOK, BrowserRecord
<1>4. [user |-> browser[b].token, workspace |-> w] \in [user : Nat, workspace : Nat]
    BY <1>3
<1> QED
    BY <1>1, <1>2, <1>3, <1>4 DEF Serve, Begins

LEMMA ReadMembershipKeeps ==
    ASSUME SignInIInv, NEW b \in Browsers, ReadMembership(b)
    PROVE  SignInIInv'
<1>1. users' = users /\ UNCHANGED <<workspaces, members, accounts, asked, wasActive>>
    BY DEF ReadMembership, tables
<1>2. ASSUME NEW m \in members, m.user = browser[b].token, Serve(b, m.workspace)
      PROVE  SignInIInv'
    <2>1. m.workspace \in DOMAIN workspaces /\ workspaces[m.workspace] = browser[b].token
          /\ m.workspace \in Nat
        BY <1>2 DEF SignInIInv, TablesOK
    <2>2. /\ Moves(b) /\ Begins(b)
          /\ access'[b] = [user |-> browser[b].token, workspace |-> m.workspace]
          /\ Genuine(browser'[b], users, accounts, asked) /\ InSession(browser'[b], users, wasActive'[b])
        BY <1>1, <1>2, <2>1, ServeFacts DEF ReadMembership
    <2>3. OnesOwn(access'[b], workspaces)
        BY <2>1, <2>2 DEF OnesOwn
    <2>4. users' \in Seq(UserRecord) /\ UsersGrow(users, users')
        BY <1>1, Undisturbed
    <2> QED
        BY <1>1, <2>2, <2>3, <2>4, BrowserStep
<1>3. CASE Go(b, "provision") /\ UNCHANGED access
    <2>1. Moves(b) /\ browser'[b].pc = "provision" /\ browser'[b].token = browser[b].token
        BY <1>3, Goes
    <2>2. Genuine(browser'[b], users, accounts, asked) /\ InSession(browser'[b], users, wasActive[b])
        BY <2>1, Undisturbed DEF ReadMembership, Genuine, InSession
    <2> QED
        BY <1>1, <1>3, <2>1, <2>2, QuietStep DEF tables
<1> QED
    BY <1>2, <1>3 DEF ReadMembership

LEMMA ProvisionWorkspaceKeeps ==
    ASSUME SignInIInv, NEW b \in Browsers, ProvisionWorkspace(b)
    PROVE  SignInIInv'
<1>0. users' = users /\ wasActive' = wasActive /\ accounts' = accounts /\ asked' = asked
    BY DEF ProvisionWorkspace
<1>1. CASE UNCHANGED <<workspaces, members, access>> /\ TurnAway(b)
    BY <1>0, <1>1, QuietTurnAway DEF tables
<1>2. ASSUME workspaces' = InsertWorkspace(browser[b].token), NEW w \in DOMAIN workspaces',
             workspaces'[w] = browser[b].token,
             members' = members \cup {[user |-> browser[b].token, workspace |-> w]},
             Serve(b, w)
      PROVE  SignInIInv'
    <2> DEFINE user == browser[b].token
    <2>1. /\ workspaces \in Seq(Nat) /\ users \in Seq(UserRecord)
          /\ browser[b].pc = "provision" /\ user \in DOMAIN users /\ user \in Nat
        BY Undisturbed DEF SignInIInv, TablesOK, ProvisionWorkspace, InSession
    <2>2. workspaces' = InsertWorkspace(user) /\ workspaces'[w] = user
          /\ members' = members \cup {[user |-> user, workspace |-> w]}
        BY <1>2
    <2>3. \A v \in DOMAIN workspaces : workspaces[v] \in DOMAIN users
        BY DEF SignInIInv, TablesOK
    <2>4. \A u, v \in DOMAIN workspaces : workspaces[u] = workspaces[v] => u = v
        BY DEF SignInIInv, TablesOK
    <2>5. \A m \in members : m.workspace \in DOMAIN workspaces /\ workspaces[m.workspace] = m.user
        BY DEF SignInIInv, TablesOK
    <2>6. /\ Moves(b) /\ Begins(b) /\ access'[b] = [user |-> user, workspace |-> w]
          /\ Genuine(browser'[b], users, accounts, asked) /\ InSession(browser'[b], users, wasActive'[b])
        <3>1. w \in Nat
            BY <2>1, <2>2 DEF InsertWorkspace
        <3> QED
            BY <1>0, <1>2, <2>1, <3>1, ServeFacts
    <2> HIDE DEF user
    <2>7. /\ workspaces' \in Seq(Nat) /\ WorkspacesGrow(workspaces, workspaces')
          /\ \A v \in DOMAIN workspaces' : workspaces'[v] \in DOMAIN users
          /\ \A u, v \in DOMAIN workspaces' : workspaces'[u] = workspaces'[v] => u = v
        <3>1. CASE workspaces' = workspaces
            BY <2>1, <2>3, <2>4, <3>1 DEF WorkspacesGrow
        <3>2. CASE /\ ~\E v \in DOMAIN workspaces : workspaces[v] = user
                   /\ workspaces' = Append(workspaces, user)
            BY <2>1, <2>3, <2>4, <3>2 DEF WorkspacesGrow
        <3> QED
            BY <2>2, <3>1, <3>2 DEF InsertWorkspace
    <2>8. \A m \in members' : m.workspace \in DOMAIN workspaces' /\ workspaces'[m.workspace] = m.user
        BY <2>2, <2>5, <2>7 DEF WorkspacesGrow
    <2>9. TablesOK'
        BY <1>0, <2>1, <2>6, <2>7, <2>8 DEF SignInIInv, TablesOK, LinksOK, Moves, Begins
    <2>10. ASSUME NEW d \in Browsers
           PROVE  /\ Genuine(browser'[d], users', accounts', asked') /\ InSession(browser'[d], users', wasActive'[d])
                  /\ OnesOwn(access'[d], workspaces')
        <3>1. CASE d = b
            BY <1>0, <2>2, <2>6, <3>1 DEF OnesOwn
        <3>2. CASE d # b
            <4>1. /\ browser'[d] = browser[d] /\ access'[d] = access[d]
                  /\ Genuine(browser[d], users, accounts, asked) /\ InSession(browser[d], users, wasActive[d])
                  /\ OnesOwn(access[d], workspaces)
                BY <2>6, <3>2 DEF Moves, Begins, SignInIInv
            <4>2. OnesOwn(access[d], workspaces')
                BY <2>7, <4>1, StaysOnesOwn
            <4> QED
                BY <1>0, <4>1, <4>2
        <3> QED
            BY <3>1, <3>2
    <2> QED
        BY <2>9, <2>10 DEF SignInIInv
<1> QED
    BY <1>1, <1>2 DEF ProvisionWorkspace

\* The administrator's decision: a request under way of an account made active again has
\* been active, and one whose account is suspended is told so when it reads the row.
LEMMA SetStatusKeeps ==
    ASSUME SignInIInv, NEW user \in DOMAIN users, SetStatus(user)
    PROVE  SignInIInv'
<1> DEFINE status == IF users[user].status = "active" THEN "suspended" ELSE "active"
           row == [users[user] EXCEPT !.status = status]
<1>1. UNCHANGED <<accounts, workspaces, members, browser, access, asked>>
    BY DEF SetStatus
<1>2. users \in Seq(UserRecord) /\ DOMAIN users = 1..Len(users) /\ Len(users) \in Nat
    BY DEF SignInIInv, TablesOK
<1>3. users[user] \in UserRecord /\ status \in {"active", "suspended"}
    BY <1>2
<1>4. /\ row \in UserRecord /\ row.email = users[user].email /\ row.hash = users[user].hash
      /\ row.status = status
    BY <1>3 DEF UserRecord
<1>5. users' = [users EXCEPT ![user] = row]
    BY DEF SetStatus
<1>6. status = "active" => users[user].status = "suspended"
    BY <1>3 DEF UserRecord
<1> HIDE DEF row, status
<1>7. users' \in Seq(UserRecord) /\ Len(users') = Len(users) /\ DOMAIN users' = DOMAIN users
    BY <1>2, <1>4, <1>5, RowChanges
<1>8. \A i \in DOMAIN users : /\ users'[i].email = users[i].email /\ users'[i].hash = users[i].hash
                              /\ i # user => users'[i].status = users[i].status
    BY <1>2, <1>4, <1>5
<1>9. users'[user].status = status
    BY <1>2, <1>4, <1>5
<1>10. wasActive' \in [Browsers -> BOOLEAN]
    BY Zenon DEF SetStatus
<1>11. ASSUME NEW b \in Browsers
       PROVE  /\ wasActive[b] => wasActive'[b]
              /\ /\ browser[b].pc = "account" /\ browser[b].token = user
                 /\ users[user].status = "suspended"
                 => wasActive'[b]
    BY <1>11 DEF SetStatus
<1>12. TablesOK'
    <2>1. LinksOK'
        BY <1>1, <1>7, <1>8 DEF SignInIInv, TablesOK, LinksOK, Entitled
    <2> QED
        BY <1>1, <1>7, <1>10, <2>1 DEF SignInIInv, TablesOK
<1>13. ASSUME NEW b \in Browsers
       PROVE  /\ Genuine(browser[b], users', accounts, asked)
              /\ InSession(browser[b], users', wasActive'[b])
              /\ OnesOwn(access[b], workspaces)
    <2>1. /\ Genuine(browser[b], users, accounts, asked) /\ InSession(browser[b], users, wasActive[b])
          /\ OnesOwn(access[b], workspaces) /\ browser[b].token \in 0..Len(users)
        BY <1>13 DEF SignInIInv, InSession
    <2>2. browser[b].token # 0 => browser[b].token \in DOMAIN users
        BY <1>2, <2>1
    <2>3. Genuine(browser[b], users', accounts, asked)
        BY <1>7, <1>8, <2>1, <2>2 DEF Genuine, Entitled
    <2>4. ASSUME browser[b].pc = "account", users'[browser[b].token].status = "active"
          PROVE  wasActive'[b]
        <3>1. browser[b].token \in DOMAIN users
            BY <2>1, <2>2, <2>4 DEF InSession
        <3>2. CASE browser[b].token = user
            BY <1>6, <1>9, <1>11, <2>4, <3>2
        <3>3. CASE browser[b].token # user
            BY <1>8, <1>11, <2>1, <2>4, <3>1, <3>3 DEF InSession
        <3> QED
            BY <3>2, <3>3
    <2>5. browser[b].pc \in {"membership", "provision", "served"} => wasActive'[b]
        BY <1>11, <2>1 DEF InSession
    <2>6. browser[b].token \in 0..Len(users')
        BY <1>7, <2>1
    <2>7. browser[b].pc \in {"account", "membership", "provision"} => browser[b].token # 0
        BY <2>1 DEF InSession
    <2> QED
        BY <2>1, <2>3, <2>4, <2>5, <2>6, <2>7 DEF InSession
<1> QED
    BY <1>1, <1>12, <1>13 DEF SignInIInv

LEMMA SignInKeepsIInv == SignInIInv /\ [SignInNext]_signInVars => SignInIInv'
<1> SUFFICES ASSUME SignInIInv, [SignInNext]_signInVars PROVE SignInIInv'
    OBVIOUS
<1>1. CASE UNCHANGED signInVars
    BY <1>1 DEF signInVars, tables, SignInIInv, TablesOK, LinksOK
<1> QED
    BY <1>1, SubmitCredentialsKeeps, LookUpKeeps, CreateCredentialsUserKeeps, AuthorizeKeeps,
       GoogleReturnsKeeps, GoogleCreateUserKeeps, GoogleLinkAccountKeeps, SignOutKeeps,
       VisitKeeps, GetSessionAccountKeeps, ReadMembershipKeeps, ProvisionWorkspaceKeeps,
       SetStatusKeeps
    DEF SignInNext

\* However browsers overlap, whoever is let in is let in as oneself: with the password the
\* account has, or with a Google account that the user came with or brought from a session
\* of one's own; with an account that was active at some time since the request began; and
\* into the one workspace of one's own.
THEOREM LetInAsOneself == SignInSpec => []AccessIsOnesOwn
BY SignInStarts, SignInKeepsIInv, SignInIsSafe, PTL DEF SignInSpec

-----------------------------------------------------------------------------
(* The tables behind the administration pages *)

\* The table of the runs only grows, and what a run is known by stays.
TablesGrow ==
    /\ Runs \subseteq Runs'
    /\ \A i \in Runs :
        /\ runTable'[i].age = runTable[i].age /\ runTable'[i].project = runTable[i].project
        /\ Owner(i)' = Owner(i) /\ OutputKind(i)' = OutputKind(i)
        /\ Settled(i) => runTable'[i].status = runTable[i].status
                         /\ runTable'[i].model = runTable[i].model
        /\ Settled(i) /\ runTable[i].ending # 0 => runTable'[i].ending = runTable[i].ending
        /\ runTable[i].cost > 0 => runTable'[i].cost > 0

LEMMA RunRows ==
  ASSUME ReportTablesOK, NEW i \in Runs
  PROVE  runTable \in Seq(RunRow) /\ runTable[i] \in RunRow /\ i \in Nat
<1>1. runTable \in Seq(RunRow) /\ i \in DOMAIN runTable
    BY DEF ReportTablesOK, Runs
<1>2. \A S : runTable \in Seq(S) => runTable[i] \in S /\ i \in Nat
    BY <1>1
<1> QED
    BY <1>1, <1>2

\* One row more leaves the others as they are.
LEMMA OneMore ==
  ASSUME NEW S, NEW table \in Seq(S), NEW row \in S
  PROVE  /\ Append(table, row) \in Seq(S)
         /\ DOMAIN Append(table, row) = DOMAIN table \cup {Len(table) + 1}
         /\ \A i \in DOMAIN table : Append(table, row)[i] = table[i]
         /\ Append(table, row)[Len(table) + 1] = row
OBVIOUS

LEMMA OneChanged ==
  ASSUME NEW S, NEW table \in Seq(S), NEW row \in S, NEW i \in DOMAIN table
  PROVE  /\ [table EXCEPT ![i] = row] \in Seq(S)
         /\ DOMAIN [table EXCEPT ![i] = row] = DOMAIN table
         /\ \A j \in DOMAIN table : [table EXCEPT ![i] = row][j] = IF j = i THEN row ELSE table[j]
OBVIOUS

LEMMA AppendRun ==
  ASSUME ReportTablesOK, NEW p \in DOMAIN projectTable,
         RunInserted(p)
  PROVE  TablesGrow /\ ReportTablesOK'
<1>1. PICK kind \in {"planning", "execution"} :
        runTable' = Append(runTable,
            [age |-> "today", status |-> "queued", kind |-> kind, model |-> "null", cost |-> 0,
             project |-> p, events |-> 1, ending |-> 0])
    BY DEF RunInserted
<1> DEFINE row == [age |-> "today", status |-> "queued", kind |-> kind, model |-> "null",
                   cost |-> 0, project |-> p, events |-> 1, ending |-> 0]
<1>2. /\ runTable' = Append(runTable, row)
      /\ UNCHANGED <<projectTable, userTable, auditTable, artifactTable>>
    BY <1>1 DEF RunInserted
<1>3. /\ row \in RunRow /\ row.project = p /\ row.status = "queued" /\ row.cost = 0
    <2>1. p \in Nat
        BY DEF ReportTablesOK
    <2> QED
        BY <2>1 DEF RunRow, Ages, RunStatuses
<1> HIDE DEF row
<1>4. /\ runTable' \in Seq(RunRow) /\ Runs' = Runs \cup {Len(runTable) + 1}
      /\ \A i \in Runs : runTable'[i] = runTable[i]
      /\ runTable'[Len(runTable) + 1] = row
    BY <1>2, <1>3, OneMore DEF Runs, ReportTablesOK
<1>5. TablesGrow
    <2>1. \A i \in Runs : /\ runTable'[i] = runTable[i] /\ Owner(i)' = Owner(i)
                          /\ OutputKind(i)' = OutputKind(i)
        BY <1>2, <1>4 DEF Owner, OutputKind
    <2> QED
        BY <1>4, <2>1 DEF TablesGrow
<1>6. \A i \in Runs' : /\ runTable'[i].project \in DOMAIN projectTable'
                       /\ runTable'[i].cost > 0 => runTable'[i].status = "succeeded"
    <2>1. \A i \in Runs : /\ runTable[i].project \in DOMAIN projectTable
                          /\ runTable[i].cost > 0 => runTable[i].status = "succeeded"
        BY DEF ReportTablesOK
    <2>2. projectTable' = projectTable /\ ~(row.cost > 0)
        BY <1>2, <1>3
    <2> QED
        BY <1>3, <1>4, <2>1, <2>2
<1>7. WithStatus("succeeded")' = WithStatus("succeeded")
    BY <1>3, <1>4 DEF WithStatus
<1>8. \A i \in WithStatus("succeeded")' : runTable'[i].ending \in 1..runTable'[i].events
    BY <1>4, <1>7 DEF ReportTablesOK, WithStatus
<1> QED
    BY <1>2, <1>4, <1>5, <1>6, <1>7, <1>8 DEF ReportTablesOK

\* A step of a run: another status, the cost and the last event with the success.
RowMoves(i, row) ==
    /\ runTable' = [runTable EXCEPT ![i] = row]
    /\ row \in RunRow /\ row.age = runTable[i].age /\ row.project = runTable[i].project
    /\ Settled(i) => row.status = runTable[i].status /\ row.model = runTable[i].model
    /\ Settled(i) /\ runTable[i].ending # 0 => row.ending = runTable[i].ending
    /\ runTable[i].cost > 0 => row.cost > 0
    /\ row.cost > 0 => row.status = "succeeded"
    /\ row.status = "succeeded" => row.ending \in 1..row.events

LEMMA MoveRun ==
  ASSUME ReportTablesOK, NEW i \in Runs, NEW row, RowMoves(i, row),
         UNCHANGED <<projectTable, userTable, auditTable>>
  PROVE  /\ TablesGrow
         /\ WithStatus("succeeded") \subseteq WithStatus("succeeded")'
         /\ row.status = "succeeded" => i \in WithStatus("succeeded")'
         /\ artifactTable' \in Seq(Nat)
            /\ (\A a \in DOMAIN artifactTable' : artifactTable'[a] \in WithStatus("succeeded")')
                => ReportTablesOK'
<1>1. /\ runTable' \in Seq(RunRow) /\ Runs' = Runs
      /\ \A j \in Runs : runTable'[j] = IF j = i THEN row ELSE runTable[j]
    BY OneChanged DEF RowMoves, Runs, ReportTablesOK
<1>2. TablesGrow
    <2>1. \A j \in Runs : Owner(j)' = Owner(j) /\ OutputKind(j)' = OutputKind(j)
        BY <1>1 DEF Owner, OutputKind, RowMoves
    <2>2. \A j \in Runs :
            /\ runTable'[j].age = runTable[j].age /\ runTable'[j].project = runTable[j].project
            /\ Settled(j) => runTable'[j].status = runTable[j].status
                             /\ runTable'[j].model = runTable[j].model
            /\ Settled(j) /\ runTable[j].ending # 0 => runTable'[j].ending = runTable[j].ending
            /\ runTable[j].cost > 0 => runTable'[j].cost > 0
        BY <1>1 DEF RowMoves
    <2> QED
        BY <1>1, <2>1, <2>2 DEF TablesGrow
<1>3. WithStatus("succeeded") \subseteq WithStatus("succeeded")'
    BY <1>1 DEF RowMoves, WithStatus, Settled
<1>4. row.status = "succeeded" => i \in WithStatus("succeeded")'
    BY <1>1 DEF WithStatus
<1>5. \A j \in WithStatus("succeeded")' : runTable'[j].ending \in 1..runTable'[j].events
    BY <1>1 DEF ReportTablesOK, RowMoves, WithStatus
<1>6. \A j \in Runs' : /\ runTable'[j].project \in DOMAIN projectTable'
                       /\ runTable'[j].cost > 0 => runTable'[j].status = "succeeded"
    <2>1. \A j \in Runs : runTable'[j].project = runTable[j].project
        BY <1>1 DEF RowMoves
    <2>2. \A j \in Runs : /\ runTable[j].project \in DOMAIN projectTable
                          /\ runTable[j].cost > 0 => runTable[j].status = "succeeded"
        BY DEF ReportTablesOK
    <2>3. \A j \in Runs : runTable'[j].cost > 0 => runTable'[j].status = "succeeded"
        BY <1>1, <2>2 DEF RowMoves
    <2> QED
        BY <1>1, <2>1, <2>2, <2>3
<1> QED
    BY <1>1, <1>2, <1>3, <1>4, <1>5, <1>6 DEF ReportTablesOK

LEMMA SameArtifacts ==
  ASSUME ReportTablesOK, UNCHANGED artifactTable,
         WithStatus("succeeded") \subseteq WithStatus("succeeded")'
  PROVE  /\ artifactTable' \in Seq(Nat)
         /\ \A a \in DOMAIN artifactTable' : artifactTable'[a] \in WithStatus("succeeded")'
    BY DEF ReportTablesOK

LEMMA ClaimRun ==
  ASSUME ReportTablesOK, NEW i \in Runs, RunClaimed(i) PROVE TablesGrow /\ ReportTablesOK'
<1> DEFINE row == [runTable[i] EXCEPT !.status = "running"]
<1>1. /\ runTable[i] \in RunRow /\ runTable[i].status = "queued"
      /\ runTable[i].cost > 0 => runTable[i].status = "succeeded"
    BY RunRows DEF RunClaimed, ReportTablesOK
<1>2. row \in RunRow /\ row.status = "running"
    BY <1>1 DEF RunRow, RunStatuses
<1>3. RowMoves(i, row)
    BY <1>1, <1>2 DEF RowMoves, RunClaimed, RunRow, Settled
<1> QED
    BY <1>3, MoveRun, SameArtifacts DEF RunClaimed

LEMMA AppendEvent ==
  ASSUME ReportTablesOK, NEW i \in Runs, EventAppended(i) PROVE TablesGrow /\ ReportTablesOK'
<1> DEFINE row == [runTable[i] EXCEPT !.events = @ + 1]
<1>1. /\ runTable[i] \in RunRow /\ runTable[i].status = "running"
      /\ runTable[i].cost > 0 => runTable[i].status = "succeeded"
    BY RunRows DEF EventAppended, ReportTablesOK
<1>2. row \in RunRow /\ row.status = "running"
    BY <1>1 DEF RunRow, RunStatuses
<1>3. RowMoves(i, row)
    BY <1>1, <1>2 DEF RowMoves, EventAppended, RunRow, Settled
<1> QED
    BY <1>3, MoveRun, SameArtifacts DEF EventAppended

LEMMA SucceedRun ==
  ASSUME ReportTablesOK, NEW i \in Runs, RunSucceeds(i) PROVE TablesGrow /\ ReportTablesOK'
<1> DEFINE n == runTable[i].events + 2
           row == [runTable[i] EXCEPT !.status = "succeeded", !.model = "model", !.cost = 1,
                                      !.events = n, !.ending = n]
<1>1. runTable[i] \in RunRow /\ runTable[i].status = "running"
    BY RunRows DEF RunSucceeds
<1>2. n \in Nat /\ n \in 1..n
    BY <1>1 DEF RunRow
<1>3. runTable' = [runTable EXCEPT ![i] = row]
    BY DEF RunSucceeds
<1> HIDE DEF n
<1>4. /\ row.status = "succeeded" /\ row.model = "model" /\ row.cost = 1
      /\ row.events = n /\ row.ending = n /\ row.age = runTable[i].age
      /\ row.kind = runTable[i].kind /\ row.project = runTable[i].project
    BY <1>1 DEF RunRow
<1>5. row \in RunRow
    BY <1>1, <1>2 DEF RunRow, RunStatuses
<1>6. ~Settled(i)
    BY <1>1 DEF Settled
<1> HIDE DEF row
<1>7. RowMoves(i, row)
    BY <1>2, <1>3, <1>4, <1>5, <1>6 DEF RowMoves
<1>8. i \in Nat /\ UNCHANGED <<projectTable, userTable, auditTable>>
    BY RunRows DEF RunSucceeds
<1>9. /\ artifactTable' \in Seq(Nat)
      /\ \A a \in DOMAIN artifactTable' :
            artifactTable'[a] = i \/ (a \in DOMAIN artifactTable /\ artifactTable'[a] = artifactTable[a])
    <2>1. artifactTable \in Seq(Nat)
        BY DEF ReportTablesOK
    <2>2. CASE artifactTable' = artifactTable
        BY <2>1, <2>2
    <2>3. CASE artifactTable' = Append(artifactTable, i)
        BY <1>8, <2>1, <2>3, OneMore
    <2> QED
        BY <2>2, <2>3 DEF RunSucceeds
<1>10. /\ WithStatus("succeeded") \subseteq WithStatus("succeeded")'
      /\ i \in WithStatus("succeeded")'
    BY <1>7, <1>8, <1>4, MoveRun
<1>11. \A a \in DOMAIN artifactTable' : artifactTable'[a] \in WithStatus("succeeded")'
    BY <1>9, <1>10 DEF ReportTablesOK
<1> QED
    BY <1>7, <1>8, <1>9, <1>11, MoveRun

LEMMA FailRun ==
  ASSUME ReportTablesOK, NEW i \in Runs, RunFails(i) PROVE TablesGrow /\ ReportTablesOK'
<1>1. PICK status \in {"failed", "cancelled"} :
        runTable' = [runTable EXCEPT ![i].status = status, ![i].model = "model"]
    BY DEF RunFails
<1> DEFINE row == [runTable[i] EXCEPT !.status = status, !.model = "model"]
<1>2. /\ runTable[i] \in RunRow /\ runTable[i].status = "running"
      /\ runTable[i].cost > 0 => runTable[i].status = "succeeded"
    BY RunRows DEF RunFails, ReportTablesOK
<1>3. row \in RunRow /\ row.status = status /\ status # "succeeded"
    BY <1>2 DEF RunRow, RunStatuses
<1>4. RowMoves(i, row)
    BY <1>1, <1>2, <1>3 DEF RowMoves, RunRow, Settled
<1> QED
    BY <1>4, MoveRun, SameArtifacts DEF RunFails

LEMMA AnnounceFailure ==
  ASSUME ReportTablesOK, NEW i \in Runs, FailureAnnounced(i) PROVE TablesGrow /\ ReportTablesOK'
<1> DEFINE n == runTable[i].events + 1
           row == [runTable[i] EXCEPT !.events = @ + 1, !.ending = n]
<1>1. /\ runTable[i] \in RunRow /\ runTable[i].status \in {"failed", "cancelled"}
      /\ runTable[i].ending = 0
      /\ runTable[i].cost > 0 => runTable[i].status = "succeeded"
    BY RunRows DEF FailureAnnounced, ReportTablesOK
<1>a. n \in Nat
    BY <1>1 DEF RunRow
<1>2. /\ row \in RunRow /\ row.status = runTable[i].status /\ row.model = runTable[i].model
      /\ row.cost = runTable[i].cost /\ row.age = runTable[i].age
      /\ row.project = runTable[i].project
  <2> HIDE DEF n
  <2>1. runTable[i].events + 1 \in Nat
    BY <1>1 DEF RunRow
  <2> QED
    BY <1>1, <1>a, <2>1 DEF RunRow
<1>3. RowMoves(i, row)
  <2>1. runTable' = [runTable EXCEPT ![i] = row]
    BY DEF FailureAnnounced
  <2> HIDE DEF row
  <2> QED
    BY <1>1, <1>2, <2>1 DEF RowMoves
<1> QED
    BY <1>3, MoveRun, SameArtifacts DEF FailureAnnounced

\* Whatever else is written, each project keeps its owner and its kind.
LEMMA OtherTables ==
  ASSUME ReportTablesOK, UNCHANGED <<runTable, artifactTable>>,
         projectTable' \in Seq(ProjectRow), userTable' \in Seq(UserRow),
         auditTable' \in Seq(AuditRow), DOMAIN projectTable \subseteq DOMAIN projectTable',
         \A p \in DOMAIN projectTable : /\ projectTable'[p].owner = projectTable[p].owner
                                        /\ projectTable'[p].kind = projectTable[p].kind
  PROVE  TablesGrow /\ ReportTablesOK'
<1>1. \A i \in Runs : /\ runTable[i].project \in DOMAIN projectTable
                      /\ Owner(i)' = Owner(i) /\ OutputKind(i)' = OutputKind(i)
    BY DEF ReportTablesOK, Owner, OutputKind
<1>2. Runs' = Runs /\ WithStatus("succeeded")' = WithStatus("succeeded")
    BY DEF Runs, WithStatus
<1>3. TablesGrow
    BY <1>1, <1>2 DEF TablesGrow
<1>4. \A i \in Runs' : /\ runTable'[i].project \in DOMAIN projectTable'
                       /\ runTable'[i].cost > 0 => runTable'[i].status = "succeeded"
    BY <1>1, <1>2 DEF ReportTablesOK
<1> QED
    BY <1>2, <1>3, <1>4 DEF ReportTablesOK

LEMMA InsertRow ==
  ASSUME ReportTablesOK, RowInserted PROVE TablesGrow /\ ReportTablesOK'
<1>1. UNCHANGED <<runTable, artifactTable>>
    BY DEF RowInserted
<1>2. /\ projectTable \in Seq(ProjectRow) /\ auditTable \in Seq(AuditRow)
      /\ userTable \in Seq(UserRow) /\ \A u \in DOMAIN userTable : u \in Nat
    BY DEF ReportTablesOK
<1>3. ASSUME NEW found \in BOOLEAN,
             userTable' = Append(userTable, [role |-> "user", status |-> "active",
                                             plan |-> "free", found |-> found]),
             UNCHANGED <<projectTable, auditTable>>
      PROVE  TablesGrow /\ ReportTablesOK'
    <2>1. [role |-> "user", status |-> "active", plan |-> "free", found |-> found] \in UserRow
        BY DEF UserRow
    <2>2. userTable' \in Seq(UserRow)
        BY <1>2, <1>3, <2>1, OneMore
    <2> QED
        BY <1>1, <1>2, <1>3, <2>2, OtherTables
<1>4. ASSUME NEW owner \in DOMAIN userTable, NEW found \in BOOLEAN,
             projectTable' = Append(projectTable, [owner |-> owner, kind |-> "pdf",
                                                   status |-> "active", found |-> found]),
             UNCHANGED <<userTable, auditTable>>
      PROVE  TablesGrow /\ ReportTablesOK'
    <2>1. [owner |-> owner, kind |-> "pdf", status |-> "active", found |-> found] \in ProjectRow
        BY <1>2 DEF ProjectRow
    <2>2. /\ projectTable' \in Seq(ProjectRow) /\ DOMAIN projectTable \subseteq DOMAIN projectTable'
          /\ \A p \in DOMAIN projectTable : projectTable'[p] = projectTable[p]
        BY <1>2, <1>4, <2>1, OneMore
    <2> QED
        BY <1>1, <1>2, <1>4, <2>2, OtherTables
<1>5. ASSUME NEW row \in AuditRow, auditTable' = Append(auditTable, row),
             UNCHANGED <<userTable, projectTable>>
      PROVE  TablesGrow /\ ReportTablesOK'
    <2>1. auditTable' \in Seq(AuditRow)
        BY <1>2, <1>5, OneMore
    <2> QED
        BY <1>1, <1>2, <1>5, <2>1, OtherTables
<1>6. {[action |-> "account.suspended", targetType |-> "user", targetId |-> 1],
       [action |-> "run.retried", targetType |-> "run", targetId |-> 1]} \subseteq AuditRow
    BY DEF AuditRow
<1>7. CASE (\E found \in BOOLEAN :
                userTable' = Append(userTable, [role |-> "user", status |-> "active",
                                                plan |-> "free", found |-> found]))
           /\ UNCHANGED <<projectTable, auditTable>>
    BY <1>3, <1>7
<1>8. CASE (\E owner \in DOMAIN userTable, found \in BOOLEAN :
                projectTable' = Append(projectTable, [owner |-> owner, kind |-> "pdf",
                                                      status |-> "active", found |-> found]))
           /\ UNCHANGED <<userTable, auditTable>>
    BY <1>4, <1>8
<1>9. CASE (\E row \in {[action |-> "account.suspended", targetType |-> "user", targetId |-> 1],
                        [action |-> "run.retried", targetType |-> "run", targetId |-> 1]} :
                auditTable' = Append(auditTable, row))
           /\ UNCHANGED <<userTable, projectTable>>
    BY <1>5, <1>6, <1>9
<1> QED
    BY <1>7, <1>8, <1>9 DEF RowInserted

LEMMA ChangeUser ==
  ASSUME ReportTablesOK, NEW u \in DOMAIN userTable, UserChanged(u)
  PROVE  TablesGrow /\ ReportTablesOK'
<1>1. PICK row \in UserRow : userTable' = [userTable EXCEPT ![u] = row]
    BY DEF UserChanged
<1>2. userTable' \in Seq(UserRow)
    BY <1>1, OneChanged DEF ReportTablesOK
<1>3. UNCHANGED <<runTable, projectTable, auditTable, artifactTable>>
    BY DEF UserChanged
<1> QED
    BY <1>2, <1>3, OtherTables DEF ReportTablesOK

LEMMA ChangeProject ==
  ASSUME ReportTablesOK, NEW p \in DOMAIN projectTable, ProjectChanged(p)
  PROVE  TablesGrow /\ ReportTablesOK'
<1>1. PICK row \in {[projectTable[p] EXCEPT !.status = "archived"],
                    [projectTable[p] EXCEPT !.found = ~@]} :
        projectTable' = [projectTable EXCEPT ![p] = row]
    BY DEF ProjectChanged
<1>2. projectTable \in Seq(ProjectRow) /\ projectTable[p] \in ProjectRow
    <2>1. projectTable \in Seq(ProjectRow)
        BY DEF ReportTablesOK
    <2>2. \A S : projectTable \in Seq(S) => projectTable[p] \in S
        OBVIOUS
    <2> QED
        BY <2>1, <2>2
<1>3. row \in ProjectRow /\ row.owner = projectTable[p].owner /\ row.kind = projectTable[p].kind
    BY <1>1, <1>2 DEF ProjectRow
<1>4. /\ projectTable' \in Seq(ProjectRow) /\ DOMAIN projectTable' = DOMAIN projectTable
      /\ \A q \in DOMAIN projectTable :
            projectTable'[q] = IF q = p THEN row ELSE projectTable[q]
    BY <1>1, <1>2, <1>3, OneChanged
<1>5. UNCHANGED <<runTable, userTable, auditTable, artifactTable>>
    BY DEF ProjectChanged
<1> QED
    BY <1>3, <1>4, <1>5, OtherTables DEF ReportTablesOK

LEMMA TablesOnlyGrow == ReportTablesOK /\ DatabaseStep => TablesGrow /\ ReportTablesOK'
BY AppendRun, ClaimRun, AppendEvent, SucceedRun, FailRun, AnnounceFailure, InsertRow,
   ChangeUser, ChangeProject DEF DatabaseStep, Runs

-----------------------------------------------------------------------------
(* The reports *)

LEMMA RowsAreFinite == ReportTablesOK => Runs \subseteq Nat /\ IsFiniteSet(Runs)
<1> SUFFICES ASSUME ReportTablesOK PROVE Runs \subseteq Nat /\ IsFiniteSet(Runs)
    OBVIOUS
<1>1. Runs = 1..Len(runTable) /\ Len(runTable) \in Nat
    BY DEF ReportTablesOK, Runs
<1> QED
    BY <1>1, FS_Interval

LEMMA RunsStayFinite == ReportTablesOK' => IsFiniteSet(Runs')
<1> SUFFICES ASSUME ReportTablesOK' PROVE IsFiniteSet(Runs')
    OBVIOUS
<1>1. Runs' = 1..Len(runTable') /\ Len(runTable') \in Nat
    BY DEF ReportTablesOK, Runs
<1> QED
    BY <1>1, FS_Interval

\* What was counted as settled, paid or of today stays so.
LEMMA SetsGrow ==
  ASSUME TablesGrow
  PROVE  /\ Today \subseteq Today' /\ CostOf(ThisMonth) \subseteq CostOf(ThisMonth)'
         /\ \A status \in {"succeeded", "failed", "cancelled"} :
                WithStatus(status) \subseteq WithStatus(status)'
         /\ \A user : OfUser(user) \cap WithStatus("failed")
                        \subseteq (OfUser(user) \cap WithStatus("failed"))'
         /\ \A i \in Runs : Settled(i) => Settled(i)'
<1>1. /\ Runs \subseteq Runs'
      /\ \A i \in Runs :
            /\ runTable'[i].age = runTable[i].age /\ Owner(i)' = Owner(i)
            /\ Settled(i) => runTable'[i].status = runTable[i].status
            /\ runTable[i].cost > 0 => runTable'[i].cost > 0
    BY DEF TablesGrow
<1>2. Today \subseteq Today'
    BY <1>1 DEF Today
<1>3. CostOf(ThisMonth) \subseteq CostOf(ThisMonth)'
    BY <1>1 DEF CostOf, ThisMonth
<1>4. \A status \in {"succeeded", "failed", "cancelled"} :
        WithStatus(status) \subseteq WithStatus(status)'
    BY <1>1 DEF WithStatus, Settled
<1>5. \A user : OfUser(user) \subseteq OfUser(user)'
    BY <1>1 DEF OfUser
<1>6. \A i \in Runs : Settled(i) => Settled(i)'
    BY <1>1 DEF Settled
<1> QED
    BY <1>2, <1>3, <1>4, <1>5, <1>6

LEMMA MoreFailures ==
  ASSUME ReportTablesOK, ReportTablesOK', TablesGrow, NEW user, NEW i
  PROVE  /\ NewerFailures(user, i) \in Nat /\ NewerFailures(user, i)' \in Nat
         /\ NewerFailures(user, i) <= NewerFailures(user, i)'
<1> DEFINE Failures == {j \in OfUser(user) \cap WithStatus("failed") : j > i}
<1>1. Failures \subseteq Failures'
    BY SetsGrow
<1>2. IsFiniteSet(Failures) /\ IsFiniteSet(Failures')
    <2>1. Failures \subseteq Runs /\ Failures' \subseteq Runs'
        BY DEF OfUser
    <2>2. IsFiniteSet(Runs)
        BY RowsAreFinite
    <2>3. IsFiniteSet(Runs')
        BY RunsStayFinite
    <2> QED
        BY <2>1, <2>2, <2>3, FS_Subset
<1> QED
    BY <1>1, <1>2, FS_Subset, FS_CardinalityType DEF NewerFailures

LEMMA UsageBreakdowns ==
  /\ UsageStatements[1] = "window" /\ UsageStatements[1] \notin Breakdowns
  /\ \A k \in 3..6 : UsageStatements[k] \in Breakdowns
  /\ \A by \in Breakdowns : \E k \in 3..6 : UsageStatements[k] = by
  /\ \A j, k \in 1..6 : j # k => UsageStatements[j] # UsageStatements[k]
BY DEF UsageStatements, Breakdowns

\* A run that cost something is settled: it stays in the groups it was counted in.
LEMMA GroupStays ==
  ASSUME ReportTablesOK, TablesGrow, NEW by \in Breakdowns, NEW i \in CostOf(ThisMonth)
  PROVE  Group(by, i)' = Group(by, i)
<1>1. i \in Runs /\ Settled(i)
    BY DEF CostOf, ThisMonth, ReportTablesOK, Settled
<1>2. /\ runTable'[i].model = runTable[i].model /\ runTable'[i].project = runTable[i].project
      /\ Owner(i)' = Owner(i) /\ OutputKind(i)' = OutputKind(i)
    BY <1>1 DEF TablesGrow
<1>3. CASE by = "byModel"
    BY <1>2, <1>3 DEF Group
<1>4. CASE by = "byOutputKind"
    BY <1>2, <1>4 DEF Group
<1>5. CASE by = "topUsers"
    BY <1>2, <1>5 DEF Group
<1>6. CASE by = "topProjects"
    BY <1>2, <1>6 DEF Group
<1> QED
    BY <1>3, <1>4, <1>5, <1>6 DEF Breakdowns

\* What a report relies on stays true while the tables grow.
LEMMA ToldStays ==
  ASSUME ReportTablesOK, ReportTablesOK', TablesGrow, ReportOK, UNCHANGED report
  PROVE  ReportOK'
<1>1. /\ DOMAIN report' = {"name", "subject", "next", "read"}
      /\ report'.name \in ReportNames \cup {"none"} /\ report'.next \in Nat \ {0}
    BY DEF ReportOK
<1>2. report'.name # "none" =>
        /\ \A k \in 1..Len(Statements[report'.name]) :
            k < report'.next => Statements[report'.name][k] \in DOMAIN report'.read
        /\ "now" \in DOMAIN report'.read /\ report'.read.now \subseteq Today'
    BY SetsGrow DEF ReportOK
<1>3. ASSUME report.name = "overview" PROVE OverviewTold'
    <2>1. \A i \in report.read.now : i \in Runs
        BY <1>3 DEF ReportOK, Today
    <2>2. \A i \in Runs : /\ Settled(i) => Settled(i)'
                          /\ runTable[i].status = "cancelled" => runTable'[i].status = "cancelled"
        BY SetsGrow DEF TablesGrow, Settled
    <2> QED
        BY <1>3, <2>1, <2>2 DEF ReportOK, OverviewTold
<1>4. ASSUME report.name = "usage" PROVE UsageTold'
    <2>1. UsageTold
        BY <1>4 DEF ReportOK
    <2>2. report.next > 1 => /\ report.read.window.costMonth \subseteq CostOf(ThisMonth)
                             /\ CostOf(ThisMonth) \subseteq CostOf(ThisMonth)'
        BY <2>1, SetsGrow DEF UsageTold
    <2>3. ASSUME NEW k \in 3..6, report.next > k
          PROVE  Covers(UsageStatements[k], report.read[UsageStatements[k]],
                        report.read.window.costMonth)'
        <3> DEFINE by == UsageStatements[k]
        <3>1. by \in Breakdowns
            BY UsageBreakdowns
        <3>2. Covers(by, report.read[by], report.read.window.costMonth)
            BY <2>1, <2>3 DEF UsageTold
        <3>3. report.next > 1
            BY <1>1, <2>3
        <3> HIDE DEF by
        <3>4. \A i \in report.read.window.costMonth : Group(by, i)' = Group(by, i)
            BY <2>2, <3>1, <3>3, GroupStays
        <3>5. Covers(by, report.read[by], report.read.window.costMonth)'
            BY <3>2, <3>4 DEF Covers
        <3> QED
            BY <3>5 DEF by, UsageStatements
    <2> QED
        BY <2>2, <2>3 DEF UsageTold, UsageStatements
<1>5. ASSUME report.name = "user" PROVE UserTold'
    <2>1. UserTold
        BY <1>5 DEF ReportOK
    <2>2. \A i : /\ NewerFailures(report.subject, i) \in Nat
                 /\ NewerFailures(report.subject, i)' \in Nat
                 /\ NewerFailures(report.subject, i) <= NewerFailures(report.subject, i)'
        <3> SUFFICES ASSUME NEW i
                     PROVE  /\ NewerFailures(report.subject, i) \in Nat
                            /\ NewerFailures(report.subject, i)' \in Nat
                            /\ NewerFailures(report.subject, i)
                                    <= NewerFailures(report.subject, i)'
            OBVIOUS
        <3> QED
            BY MoreFailures
    <2>3. ASSUME report.next > 3 PROVE FailuresAreListed(report)'
        <3>1. FailuresAreListed(report) /\ RecentLimit \in Nat
            BY <2>1, <2>3, ReportsAssumption DEF UserTold
        <3>2. \A i : NewerFailures(report.subject, i) >= RecentLimit
                        => NewerFailures(report.subject, i)' >= RecentLimit
            BY <2>2, <3>1
        <3> QED
            BY <3>1, <3>2 DEF FailuresAreListed
    <2>4. OfUser(report.subject) \cap WithStatus("failed")
            \subseteq (OfUser(report.subject) \cap WithStatus("failed"))'
        BY SetsGrow
    <2> QED
        BY <2>1, <2>3, <2>4 DEF UserTold
<1>6. ASSUME report.name = "project" PROVE ProjectTold'
    BY <1>6, SetsGrow DEF ReportOK, ProjectTold, ArtifactsAreOfFinishedRuns
<1>7. ASSUME report.name = "run" PROVE RunTold'
    <2>1. RunTold /\ report.subject \in Runs /\ report.subject \in Runs'
        BY <1>7 DEF ReportOK, RunTold, TablesGrow
    <2>2. runTable[report.subject].status = "succeeded" =>
            /\ runTable'[report.subject].status = "succeeded"
            /\ runTable'[report.subject].ending = runTable[report.subject].ending
        <3>1. runTable[report.subject].status = "succeeded" =>
                /\ Settled(report.subject)
                /\ runTable[report.subject].ending \in 1..runTable[report.subject].events
            BY <2>1 DEF ReportTablesOK, WithStatus, Settled
        <3> QED
            BY <2>1, <3>1 DEF TablesGrow
    <2>3. report.next > 2 => report.next > 1
        BY <1>1
    <2> QED
        BY <2>1, <2>2, <2>3 DEF RunTold, LastEventIsShown
<1> QED
    BY <1>1, <1>2, <1>3, <1>4, <1>5, <1>6, <1>7 DEF ReportOK

LEMMA StatementFacts ==
  /\ ReportNames = {"overview", "user", "project", "usage", "run"}
  /\ Statements["overview"] = OverviewStatements /\ Len(OverviewStatements) = 6
  /\ Statements["user"] = UserStatements /\ Len(UserStatements) = 3
  /\ Statements["project"] = ProjectStatements /\ Len(ProjectStatements) = 2
  /\ Statements["usage"] = UsageStatements /\ Len(UsageStatements) = 6
  /\ Statements["run"] = RunStatements /\ Len(RunStatements) = 2
BY DEF ReportNames, Statements, OverviewStatements, UserStatements, ProjectStatements,
       UsageStatements, RunStatements

LEMMA NowIsNoStatement ==
  \A name \in ReportNames : \A k \in 1..Len(Statements[name]) : Statements[name][k] # "now"
<1>1. /\ \A k \in 1..6 : OverviewStatements[k] # "now"
      /\ \A k \in 1..3 : UserStatements[k] # "now"
      /\ \A k \in 1..2 : ProjectStatements[k] # "now"
      /\ \A k \in 1..6 : UsageStatements[k] # "now"
      /\ \A k \in 1..2 : RunStatements[k] # "now"
    BY DEF OverviewStatements, UserStatements, ProjectStatements, UsageStatements, RunStatements
<1> QED
    BY <1>1, StatementFacts

\* Only the usage page has breakdowns.
LEMMA NoBreakdowns ==
  /\ \A k \in 1..6 : OverviewStatements[k] \notin Breakdowns
  /\ \A k \in 1..3 : UserStatements[k] \notin Breakdowns
  /\ \A k \in 1..2 : ProjectStatements[k] \notin Breakdowns
  /\ \A k \in 1..2 : RunStatements[k] \notin Breakdowns
BY DEF OverviewStatements, UserStatements, ProjectStatements, RunStatements, Breakdowns

\* What is read joins what was read before.
LEMMA ReadFacts ==
  ASSUME ReportOK, ReadStatement
  PROVE  /\ report.name \in ReportNames /\ report'.name = report.name
         /\ report'.subject = report.subject
         /\ report.next \in 1..Len(Statements[report.name]) /\ report'.next = report.next + 1
         /\ DOMAIN report' = {"name", "subject", "next", "read"}
         /\ LET statement == Statements[report.name][report.next]
            IN  /\ report'.read[statement] \in Results(statement, report.subject)
                /\ statement \notin Breakdowns =>
                        report'.read[statement] = Select(statement, report.subject)
                /\ DOMAIN report'.read = DOMAIN report.read \cup {statement}
                /\ \A s \in DOMAIN report.read \ {statement} : report'.read[s] = report.read[s]
<1> DEFINE statement == Statements[report.name][report.next]
           read(result) == [s \in DOMAIN report.read \cup {statement} |->
                                IF s = statement THEN result ELSE report.read[s]]
<1>1. PICK result \in Results(statement, report.subject) :
        report' = [report EXCEPT !.next = @ + 1, !.read = read(result)]
    BY DEF ReadStatement
<1>2. /\ read(result)[statement] = result
      /\ DOMAIN read(result) = DOMAIN report.read \cup {statement}
      /\ \A s \in DOMAIN report.read \ {statement} : read(result)[s] = report.read[s]
  <2> HIDE DEF statement
  <2> QED
    OBVIOUS
<1>3. /\ report.name \in ReportNames /\ report.next \in Nat \ {0}
      /\ DOMAIN report = {"name", "subject", "next", "read"}
    BY DEF ReportOK, ReadStatement
<1>4. \A name \in ReportNames : Len(Statements[name]) \in Nat
    BY StatementFacts
<1>5. report.next \in 1..Len(Statements[report.name])
    BY <1>3, <1>4 DEF ReadStatement, Done
<1>6. /\ report'.name = report.name /\ report'.subject = report.subject
      /\ report'.next = report.next + 1 /\ report'.read = read(result)
      /\ DOMAIN report' = {"name", "subject", "next", "read"}
  <2> HIDE DEF read
  <2> QED
    BY <1>1, <1>3
<1>7. statement \notin Breakdowns => result = Select(statement, report.subject)
  <2> HIDE DEF statement
  <2> QED
    BY <1>1 DEF Results
<1> HIDE DEF statement, read
<1>8. /\ report'.read[statement] \in Results(statement, report.subject)
      /\ statement \notin Breakdowns =>
            report'.read[statement] = Select(statement, report.subject)
      /\ DOMAIN report'.read = DOMAIN report.read \cup {statement}
      /\ \A s \in DOMAIN report.read \ {statement} : report'.read[s] = report.read[s]
    BY <1>1, <1>2, <1>6, <1>7
<1> QED
    BY <1>3, <1>5, <1>6, <1>8 DEF statement

LEMMA OverviewReads ==
  ASSUME ReportTablesOK, ReportOK, ReadStatement, UNCHANGED database, report.name = "overview"
  PROVE  OverviewTold'
<1> DEFINE n == report.next
           InStates(r, i) == i \in r.read.states.running \cup r.read.states.queued
           InWindow(r, i) == i \in r.read.window.completedToday \cup r.read.window.failedToday
<1>1. /\ n \in 1..6 /\ report'.next = n + 1
      /\ report'.read[OverviewStatements[n]] = Select(OverviewStatements[n], report.subject)
      /\ \A s \in DOMAIN report.read \ {OverviewStatements[n]} : report'.read[s] = report.read[s]
    BY ReadFacts, StatementFacts, NoBreakdowns
<1>2. /\ \A k \in 1..6 : k < n => OverviewStatements[k] \in DOMAIN report.read
      /\ "now" \in DOMAIN report.read /\ report.read.now \subseteq Today
    BY StatementFacts DEF ReportOK
<1>3. report'.read.now = report.read.now
    BY <1>1, <1>2, NowIsNoStatement, StatementFacts
<1>4. /\ OverviewStatements[4] = "states" /\ OverviewStatements[5] = "window"
      /\ OverviewStatements[6] = "storage"
    BY DEF OverviewStatements
<1>5. \A i \in report.read.now :
        i \in Runs /\ i \in Today /\ runTable[i].status \in RunStatuses
    BY <1>2, RunRows DEF Today, RunRow
<1>6. runTable' = runTable
    BY DEF database
<1>7. CASE n = 4
    <2>1. report'.read.states = RunStates
        BY <1>1, <1>4, <1>7 DEF Select
    <2>2. \A i \in report.read.now : InStates(report', i) \/ Settled(i)
        BY <2>1, <1>5 DEF RunStates, WithStatus, RunStatuses, Settled
    <2> QED
        BY <1>1, <1>3, <1>6, <1>7, <2>2 DEF OverviewTold, Settled
<1>8. CASE n = 5
    <2>a. report'.read.window = WindowTotals
        BY <1>1, <1>4, <1>8 DEF Select
    <2>b. report'.read.states = report.read.states
        BY <1>1, <1>2, <1>4, <1>8
    <2>1. report'.read.window = WindowTotals /\ report'.read.states = report.read.states
        BY <2>a, <2>b
    <2>2. \A i \in report.read.now : InStates(report, i) \/ Settled(i)
        BY <1>8 DEF ReportOK, OverviewTold
    <2>3. \A i \in report.read.now : Settled(i) =>
            InWindow(report', i) \/ runTable[i].status = "cancelled"
        BY <2>1, <1>5 DEF WindowTotals, WithStatus, Settled
    <2> QED
        BY <1>1, <1>3, <1>6, <1>8, <2>1, <2>2, <2>3 DEF OverviewTold, Settled
<1>9. CASE n = 6
    <2>1. report'.read.window = report.read.window /\ report'.read.states = report.read.states
        BY <1>1, <1>2, <1>4, <1>9
    <2> QED
        BY <1>1, <1>3, <1>6, <1>9, <2>1 DEF ReportOK, OverviewTold, Settled
<1> QED
    BY <1>1, <1>7, <1>8, <1>9 DEF OverviewTold

\* A breakdown of the month accounts for its cost, except for groups beyond the limit.
LEMMA BreakdownCovers ==
  ASSUME NEW by \in Breakdowns, NEW breakdown \in GroupedBy(by)
  PROVE  Covers(by, breakdown, CostOf(ThisMonth))
<1>1. PICK top \in Top(by) : breakdown = [g \in top |-> CostOf(Members(by, g))]
    BY DEF GroupedBy
<1>2. \A i \in CostOf(ThisMonth) :
        Group(by, i) \in Groups(by) /\ i \in CostOf(Members(by, Group(by, i)))
    BY DEF CostOf, Groups, Members
<1>3. top = Groups(by) \/ Cardinality(top) = TopGroups
    BY DEF Top
<1>4. TopGroups \in Nat /\ DOMAIN breakdown = top
    BY <1>1, ReportsAssumption
<1> QED
    BY <1>1, <1>2, <1>3, <1>4 DEF Covers

LEMMA UsageReads ==
  ASSUME ReportTablesOK, ReportOK, ReadStatement, UNCHANGED database, report.name = "usage"
  PROVE  UsageTold'
<1> DEFINE n == report.next
           Shows(r, k) == Covers(UsageStatements[k], r.read[UsageStatements[k]],
                                 r.read.window.costMonth)
<1>1. /\ n \in 1..6 /\ report'.next = n + 1
      /\ report'.read[UsageStatements[n]] \in Results(UsageStatements[n], report.subject)
      /\ \A s \in DOMAIN report.read \ {UsageStatements[n]} : report'.read[s] = report.read[s]
    BY ReadFacts, StatementFacts
<1>2. \A k \in 1..6 : k < n => UsageStatements[k] \in DOMAIN report.read
    BY StatementFacts DEF ReportOK
<1>3. \A k \in 1..6 : k < n => report'.read[UsageStatements[k]] = report.read[UsageStatements[k]]
    BY <1>1, <1>2, UsageBreakdowns
<1>4. /\ CostOf(ThisMonth)' = CostOf(ThisMonth)
      /\ \A by, i : Group(by, i)' = Group(by, i)
    BY DEF database, CostOf, ThisMonth, Runs, Group, Owner, OutputKind
<1>5. ASSUME n > 1 PROVE report'.read.window.costMonth = report.read.window.costMonth
    <2>1. report'.read["window"] = report.read["window"]
        BY <1>1, <1>3, <1>5, UsageBreakdowns
    <2> QED
        BY <2>1
<1>6. ASSUME n = 1 PROVE report'.read.window.costMonth = CostOf(ThisMonth)
    <2>1. report'.read["window"] = WindowTotals
        BY <1>1, <1>6, ReadFacts, StatementFacts, UsageBreakdowns DEF Select
    <2> QED
        BY <2>1 DEF WindowTotals
<1>7. report'.read.window.costMonth \subseteq CostOf(ThisMonth)
    BY <1>1, <1>5, <1>6 DEF ReportOK, UsageTold
<1>8. \A k \in 3..6 : k < n => Shows(report, k)
    BY DEF ReportOK, UsageTold
<1>9. ASSUME NEW k \in 3..6, report'.next > k PROVE Shows(report', k)
    <2>1. CASE k = n
        <3> DEFINE by == UsageStatements[n]
        <3>1. by \in Breakdowns
            BY <2>1, UsageBreakdowns
        <3> HIDE DEF by
        <3>2. report'.read[by] \in GroupedBy(by)
            BY <1>1, <3>1 DEF Results, by
        <3>3. Covers(by, report'.read[by], CostOf(ThisMonth))
            BY <3>1, <3>2, BreakdownCovers
        <3>4. Covers(by, report'.read[by], report'.read.window.costMonth)
            BY <1>7, <3>3 DEF Covers
        <3> QED
            BY <2>1, <3>4 DEF by
    <2>2. CASE k < n
        BY <1>1, <1>3, <1>5, <1>8, <2>2
    <2> QED
        BY <1>1, <1>9, <2>1, <2>2
<1>10. ASSUME NEW k \in 3..6, report'.next > k
       PROVE  Covers(UsageStatements[k], report.read[UsageStatements[k]],
                     report.read.window.costMonth)'
    BY <1>4, <1>9, <1>10 DEF Covers, UsageStatements
<1> QED
    BY <1>1, <1>4, <1>7, <1>10 DEF UsageTold

LEMMA UserReads ==
  ASSUME ReportTablesOK, ReportOK, ReadStatement, UNCHANGED database, report.name = "user"
  PROVE  UserTold'
<1> DEFINE n == report.next
           Failures == OfUser(report.subject) \cap WithStatus("failed")
<1>1. /\ n \in 1..3 /\ report'.next = n + 1 /\ report'.subject = report.subject
      /\ report'.read[UserStatements[n]] = Select(UserStatements[n], report.subject)
      /\ \A s \in DOMAIN report.read \ {UserStatements[n]} : report'.read[s] = report.read[s]
    BY ReadFacts, StatementFacts, NoBreakdowns
<1>2. \A k \in 1..3 : k < n => UserStatements[k] \in DOMAIN report.read
    BY StatementFacts DEF ReportOK
<1>3. /\ UserStatements[1] = "runTotals" /\ UserStatements[2] = "recentRuns"
      /\ UserStatements[3] = "recentErrors"
    BY DEF UserStatements
<1>a. \A j, k \in 1..3 : j # k => UserStatements[j] # UserStatements[k]
    BY DEF UserStatements
<1>b. \A k \in 1..3 : k < n => report'.read[UserStatements[k]] = report.read[UserStatements[k]]
    BY <1>1, <1>2, <1>a
<1>4. /\ (OfUser(report.subject) \cap WithStatus("failed"))' = Failures
      /\ \A i : NewerFailures(report.subject, i)' = NewerFailures(report.subject, i)
    BY <1>1 DEF database, OfUser, WithStatus, Runs, Owner, NewerFailures
<1> HIDE DEF Failures
<1>5. report'.read["runTotals"].failed \subseteq Failures
    <2>1. CASE n = 1
        <3>1. report'.read["runTotals"] = UserRunTotals(report.subject)
            BY <1>1, <1>3, <2>1 DEF Select
        <3>2. UserRunTotals(report.subject).failed = Failures
            BY DEF UserRunTotals, Failures
        <3> QED
            BY <3>1, <3>2
    <2>2. CASE n > 1
        <3>1. report'.read["runTotals"] = report.read["runTotals"]
            BY <1>1, <1>3, <1>b, <2>2
        <3>2. report.read["runTotals"].failed \subseteq Failures
            BY <2>2 DEF ReportOK, UserTold, Failures
        <3> QED
            BY <3>1, <3>2
    <2> QED
        BY <1>1, <2>1, <2>2
<1>6. ASSUME n = 3 PROVE FailuresAreListed(report')
    <2>1. report'.read["recentErrors"] = RecentErrors(report.subject)
        BY <1>1, <1>3, <1>6 DEF Select
    <2>2. \A i \in Failures : /\ NewerFailures(report.subject, i) \in Nat
                              /\ \/ i \in RecentErrors(report.subject)
                                 \/ NewerFailures(report.subject, i) >= RecentLimit
        <3> SUFFICES ASSUME NEW i \in Failures
                     PROVE  /\ NewerFailures(report.subject, i) \in Nat
                            /\ \/ i \in RecentErrors(report.subject)
                               \/ NewerFailures(report.subject, i) >= RecentLimit
            OBVIOUS
        <3>1. {j \in Failures : j > i} \subseteq Runs /\ IsFiniteSet(Runs)
            BY RowsAreFinite DEF OfUser, Failures
        <3>2. NewerFailures(report.subject, i) \in Nat
            BY <3>1, FS_Subset, FS_CardinalityType DEF NewerFailures, Failures
        <3>3. RecentLimit \in Nat
            BY ReportsAssumption
        <3> QED
            BY <3>2, <3>3 DEF RecentErrors, Newest, NewerFailures, Failures
    <2> QED
        BY <1>1, <1>5, <2>1, <2>2 DEF FailuresAreListed
<1>7. FailuresAreListed(report)' <=> FailuresAreListed(report')
    BY <1>1, <1>4 DEF FailuresAreListed
<1> QED
    BY <1>1, <1>4, <1>5, <1>6, <1>7 DEF UserTold

LEMMA ProjectReads ==
  ASSUME ReportTablesOK, ReportOK, ReadStatement, UNCHANGED database, report.name = "project"
  PROVE  ProjectTold'
<1> DEFINE n == report.next
<1>1. /\ n \in 1..2 /\ report'.next = n + 1
      /\ report'.read[ProjectStatements[n]] = Select(ProjectStatements[n], report.subject)
      /\ \A s \in DOMAIN report.read \ {ProjectStatements[n]} : report'.read[s] = report.read[s]
    BY ReadFacts, StatementFacts, NoBreakdowns
<1>2. \A k \in 1..2 : k < n => ProjectStatements[k] \in DOMAIN report.read
    BY StatementFacts DEF ReportOK
<1>3. ProjectStatements[1] = "artifacts" /\ ProjectStatements[2] = "projectRuns"
    BY DEF ProjectStatements
<1>a. \A j, k \in 1..2 : j # k => ProjectStatements[j] # ProjectStatements[k]
    BY DEF ProjectStatements
<1>b. \A k \in 1..2 : k < n => report'.read[ProjectStatements[k]] = report.read[ProjectStatements[k]]
    BY <1>1, <1>2, <1>a
<1>4. WithStatus("succeeded")' = WithStatus("succeeded")
    BY DEF database, WithStatus, Runs
<1>5. CASE n = 1
    <2>1. report'.read["artifacts"] = ProjectArtifacts(report.subject)
        BY <1>1, <1>3, <1>5 DEF Select
    <2>2. ProjectArtifacts(report.subject) \subseteq WithStatus("succeeded")
        BY DEF ProjectArtifacts, Newest, ReportTablesOK
    <2> QED
        BY <1>1, <1>4, <1>5, <2>1, <2>2 DEF ProjectTold
<1>6. CASE n = 2
    <2>1. /\ report'.read["artifacts"] = report.read["artifacts"]
          /\ report.read["artifacts"] \subseteq WithStatus("succeeded")
        <3>1. report.read["artifacts"] \subseteq WithStatus("succeeded")
            BY <1>6 DEF ReportOK, ProjectTold
        <3>2. report'.read["artifacts"] = report.read["artifacts"]
            BY <1>1, <1>3, <1>6, <1>b
        <3> QED
            BY <3>1, <3>2
    <2>2. report'.read["projectRuns"] = ProjectRuns(report.subject)
        BY <1>1, <1>3, <1>6 DEF Select
    <2>3. ArtifactsAreOfFinishedRuns(report)'
        BY <2>1, <2>2 DEF ArtifactsAreOfFinishedRuns, ProjectRuns, WithStatus
    <2> QED
        BY <1>1, <1>4, <1>6, <2>1, <2>3 DEF ProjectTold
<1> QED
    BY <1>1, <1>5, <1>6

LEMMA RunReads ==
  ASSUME ReportTablesOK, ReportOK, ReadStatement, UNCHANGED database, report.name = "run"
  PROVE  RunTold'
<1> DEFINE n == report.next
           row == runTable[report.subject]
<1>1. /\ n \in 1..2 /\ report'.next = n + 1 /\ report'.subject = report.subject
      /\ report'.read[RunStatements[n]] = Select(RunStatements[n], report.subject)
      /\ \A s \in DOMAIN report.read \ {RunStatements[n]} : report'.read[s] = report.read[s]
    BY ReadFacts, StatementFacts, NoBreakdowns
<1>2. \A k \in 1..2 : k < n => RunStatements[k] \in DOMAIN report.read
    BY StatementFacts DEF ReportOK
<1>3. RunStatements[1] = "run" /\ RunStatements[2] = "events"
    BY DEF RunStatements
<1>a. \A j, k \in 1..2 : j # k => RunStatements[j] # RunStatements[k]
    BY DEF RunStatements
<1>b. \A k \in 1..2 : k < n => report'.read[RunStatements[k]] = report.read[RunStatements[k]]
    BY <1>1, <1>2, <1>a
<1>4. report.subject \in Runs /\ runTable' = runTable /\ Runs' = Runs
    BY DEF ReportOK, RunTold, database, Runs
<1>5. CASE n = 1
    <2>1. report'.read["run"] = row.status
        BY <1>1, <1>3, <1>5 DEF Select
    <2> QED
        BY <1>1, <1>4, <1>5, <2>1 DEF RunTold
<1>6. CASE n = 2
    <2>1. /\ report'.read["run"] = report.read["run"]
          /\ report.read["run"] = "succeeded" => row.status = "succeeded"
        BY <1>1, <1>3, <1>6, <1>b DEF ReportOK, RunTold
    <2>2. report'.read["events"] = FirstEvents(report.subject)
        BY <1>1, <1>3, <1>6 DEF Select
    <2>3. row.status = "succeeded" =>
            row.ending \in FirstEvents(report.subject)
                \/ 1..EventLimit \subseteq FirstEvents(report.subject)
        <3>1. row.status = "succeeded" => row.ending \in 1..row.events
            BY <1>4 DEF ReportTablesOK, WithStatus
        <3>2. row.events \in Nat /\ EventLimit \in Nat
            BY <1>4, RunRows, ReportsAssumption DEF RunRow
        <3> QED
            BY <3>1, <3>2 DEF FirstEvents
    <2> QED
        BY <1>1, <1>4, <1>6, <2>1, <2>2, <2>3 DEF RunTold, LastEventIsShown
<1> QED
    BY <1>1, <1>5, <1>6

LEMMA ReadKeeps ==
  ASSUME ReportTablesOK, ReportOK, ReadStatement, UNCHANGED database PROVE ReportOK'
<1>1. /\ report.name \in ReportNames /\ report'.name = report.name
      /\ report.next \in 1..Len(Statements[report.name]) /\ report'.next = report.next + 1
      /\ DOMAIN report' = {"name", "subject", "next", "read"}
    BY ReadFacts
<1> DEFINE statement == Statements[report.name][report.next]
<1>2. /\ DOMAIN report'.read = DOMAIN report.read \cup {statement}
      /\ \A s \in DOMAIN report.read \ {statement} : report'.read[s] = report.read[s]
    BY ReadFacts
<1>3. report.name # "none" /\ Len(Statements[report.name]) \in Nat
    BY <1>1, StatementFacts
<1>4. /\ "now" \in DOMAIN report'.read /\ report'.read["now"] = report.read["now"]
      /\ report.read["now"] \subseteq Today /\ Today' = Today
    <2>1. statement # "now"
        BY <1>1, NowIsNoStatement
    <2>2. "now" \in DOMAIN report.read /\ report.read.now \subseteq Today
        BY <1>3 DEF ReportOK
    <2>3. Today' = Today
        BY DEF database, Today, Runs
    <2> HIDE DEF statement
    <2> QED
        BY <1>2, <2>1, <2>2, <2>3
<1>5. \A k \in 1..Len(Statements[report.name]) :
        k < report'.next => Statements[report.name][k] \in DOMAIN report'.read
    <2>1. \A k \in 1..Len(Statements[report.name]) :
            k < report.next => Statements[report.name][k] \in DOMAIN report.read
        BY <1>3 DEF ReportOK
    <2> QED
        BY <1>1, <1>2, <1>3, <2>1
<1> QED
    BY <1>1, <1>4, <1>5, OverviewReads, UsageReads, UserReads, ProjectReads, RunReads DEF ReportOK

LEMMA OpenKeeps ==
  ASSUME ReportTablesOK, ReportOK, NEW name \in ReportNames, OpenReport(name), UNCHANGED database
  PROVE  ReportOK'
<1>1. PICK subject \in CASE name = "user" -> DOMAIN userTable
                        [] name = "project" -> DOMAIN projectTable
                        [] name = "run" -> DOMAIN runTable
                        [] OTHER -> {0} :
        report' = [name |-> name, subject |-> subject, next |-> 1, read |-> [now |-> Today]]
    BY DEF OpenReport
<1>2. name = "run" => subject \in Runs'
    BY <1>1 DEF Runs, database
<1>3. /\ report'.name = name /\ report'.subject = subject /\ report'.next = 1
      /\ DOMAIN report' = {"name", "subject", "next", "read"}
      /\ "now" \in DOMAIN report'.read /\ report'.read.now = Today
    BY <1>1
<1>4. Today' = Today
    BY DEF database, Today, Runs
<1>5. OverviewTold' /\ UsageTold' /\ UserTold' /\ ProjectTold' /\ (name = "run" => RunTold')
    BY <1>2, <1>3 DEF OverviewTold, UsageTold, UserTold, ProjectTold, RunTold
<1> QED
    BY <1>3, <1>4, <1>5 DEF ReportOK

-----------------------------------------------------------------------------
(* The lists *)

LEMMA WhereIsFinite ==
  ASSUME NEW S, NEW table \in Seq(S), NEW filter
  PROVE  IsFiniteSet(Where(table, filter)) /\ Where(table, filter) \subseteq Nat
<1>1. Where(table, filter) \subseteq 1..Len(table) /\ Len(table) \in Nat
    BY DEF Where
<1>2. IsFiniteSet(1..Len(table)) /\ 1..Len(table) \subseteq Nat
    BY <1>1, FS_Interval
<1> QED
    BY <1>1, <1>2, FS_Subset

LEMMA MatchingIsFinite ==
  ASSUME ReportTablesOK, NEW list \in Lists, NEW filter
  PROVE  IsFiniteSet(Matching(list, filter)) /\ Matching(list, filter) \subseteq Nat
<1>1. /\ runTable \in Seq(RunRow) /\ userTable \in Seq(UserRow)
      /\ projectTable \in Seq(ProjectRow) /\ auditTable \in Seq(AuditRow)
    BY DEF ReportTablesOK
<1>2. CASE list = "runs"
    BY <1>1, <1>2, WhereIsFinite DEF Matching, ListRuns
<1>3. CASE list = "users"
    BY <1>1, <1>3, WhereIsFinite DEF Matching, ListUsers
<1>4. CASE list = "projects"
    BY <1>1, <1>4, WhereIsFinite DEF Matching, ListProjects
<1>5. CASE list = "audit"
    BY <1>1, <1>5, WhereIsFinite DEF Matching, ListAuditLogs
<1> QED
    BY <1>2, <1>3, <1>4, <1>5 DEF Lists

\* A row's place in a list is before the list's end.
LEMMA RankIsBelow ==
  ASSUME NEW rows, IsFiniteSet(rows), rows \subseteq Nat, NEW sort, NEW i \in rows
  PROVE  /\ Rank(rows, sort, i) \in Nat /\ Cardinality(rows) \in Nat
         /\ Rank(rows, sort, i) < Cardinality(rows)
<1> DEFINE Earlier == {j \in rows : Before(sort, j, i)}
<1>1. Earlier \subseteq rows \ {i} /\ i \in Nat
    BY DEF Before
<1>2. IsFiniteSet(rows \ {i}) /\ Cardinality(rows \ {i}) = Cardinality(rows) - 1
    BY FS_RemoveElement
<1>3. IsFiniteSet(Earlier) /\ Cardinality(Earlier) <= Cardinality(rows \ {i})
    BY <1>1, <1>2, FS_Subset
<1>4. Cardinality(rows) \in Nat /\ Cardinality(Earlier) \in Nat
    BY <1>3, FS_CardinalityType
<1> QED
    BY <1>2, <1>3, <1>4 DEF Rank

\* While the rows before it are still there, it only moves back.
LEMMA RankMovesBack ==
  ASSUME NEW rows, IsFiniteSet(rows), NEW old, NEW sort, NEW i,
         \A j \in old : Before(sort, j, i) => j \in rows
  PROVE  /\ Rank(old, sort, i) \in Nat /\ Rank(rows, sort, i) \in Nat
         /\ Rank(old, sort, i) <= Rank(rows, sort, i)
<1> DEFINE Earlier(s) == {j \in s : Before(sort, j, i)}
<1>1. Earlier(old) \subseteq Earlier(rows) /\ Earlier(rows) \subseteq rows
    OBVIOUS
<1>2. IsFiniteSet(Earlier(rows))
    BY <1>1, FS_Subset
<1>3. IsFiniteSet(Earlier(old)) /\ Cardinality(Earlier(old)) <= Cardinality(Earlier(rows))
    BY <1>1, <1>2, FS_Subset
<1> QED
    BY <1>2, <1>3, FS_CardinalityType DEF Rank

LEMMA WalkStays == WalkOK /\ UNCHANGED walk => WalkOK'
BY DEF WalkOK

\* A page shows the rows of its places, and says whether there are later ones.
LEMMA ShowFacts ==
  ASSUME ReportTablesOK, NEW w, NEW page \in Nat, page > 0, w.list \in Lists,
         w.stayed \subseteq w.rows,
         \A i \in w.stayed \ w.seen : \/ \E j \in w.left : Before(w.sort, j, i)
                                      \/ Rank(w.rows, w.sort, i) >= (page - 1) * AdminPageSize,
         walk' = ShowPage(w, page)
  PROVE  WalkOK'
<1> DEFINE rows == Matching(w.list, w.filter)
           size == AdminPageSize
           offset == (page - 1) * size
           shown == {i \in rows : Rank(rows, w.sort, i) >= offset
                                    /\ Rank(rows, w.sort, i) < offset + size}
           more == Cardinality(rows) > offset + size
<1>1. /\ walk'.list = w.list /\ walk'.sort = w.sort /\ walk'.page = page
      /\ walk'.rows = rows /\ walk'.seen = w.seen \cup shown
      /\ walk'.stayed = w.stayed \cap rows /\ walk'.left = w.left \cup (w.rows \ rows)
      /\ walk'.more = more
    BY DEF ShowPage, Page
<1>2. IsFiniteSet(rows) /\ rows \subseteq Nat /\ Cardinality(rows) \in Nat
    BY MatchingIsFinite, FS_CardinalityType
<1>3. offset \in Nat /\ size \in Nat /\ offset + size = page * size
    <2>1. size \in Nat /\ page - 1 \in Nat
        BY ReportsAssumption
    <2>2. \A a \in Nat, b \in Nat : a * b \in Nat /\ (a + 1) * b = a * b + b
        OBVIOUS
    <2>3. (page - 1) * size \in Nat /\ ((page - 1) + 1) * size = (page - 1) * size + size
        BY <2>1, <2>2
    <2>4. (page - 1) + 1 = page
        OBVIOUS
    <2> QED
        BY <2>1, <2>3, <2>4
<1> HIDE DEF rows, size, offset
<1>4. ASSUME NEW i \in walk'.stayed \ walk'.seen,
             ~\E j \in walk'.left : Before(w.sort, j, i)
      PROVE  Rank(rows, w.sort, i) >= page * size
    <2>1. /\ i \in w.stayed \ w.seen /\ i \in rows /\ i \notin shown
          /\ ~\E j \in w.left : Before(w.sort, j, i)
          /\ \A j \in w.rows : Before(w.sort, j, i) => j \in rows
        BY <1>1, <1>4
    <2>2. /\ Rank(w.rows, w.sort, i) \in Nat /\ Rank(rows, w.sort, i) \in Nat
          /\ Rank(w.rows, w.sort, i) <= Rank(rows, w.sort, i)
        BY <1>2, <2>1, RankMovesBack
    <2>3. Rank(w.rows, w.sort, i) >= offset
        BY <2>1 DEF offset, size
    <2> QED
        BY <1>3, <2>1, <2>2, <2>3
<1>5. ~walk'.more => Cardinality(rows) <= page * size
    <2>1. ~more => Cardinality(rows) <= page * size
        BY <1>2, <1>3
    <2> HIDE DEF more
    <2> QED
        BY <1>1, <2>1
<1>6. walk'.list # "none"
    BY <1>1 DEF Lists
<1>7. \A i \in walk'.stayed \ walk'.seen :
        \/ \E j \in walk'.left : Before(walk'.sort, j, i)
        \/ Rank(walk'.rows, walk'.sort, i) >= walk'.page * AdminPageSize
    BY <1>1, <1>4 DEF size
<1>8. walk'.list \in Lists /\ walk'.page \in Nat /\ walk'.page > 0
    BY <1>1
<1>9. /\ walk'.rows \subseteq Nat /\ IsFiniteSet(walk'.rows)
      /\ walk'.stayed \subseteq walk'.rows
    BY <1>1, <1>2
<1>10. ~walk'.more => Cardinality(walk'.rows) <= walk'.page * AdminPageSize
    BY <1>1, <1>5 DEF size
<1> HIDE DEF shown
<1> QED
    BY <1>6, <1>7, <1>8, <1>9, <1>10 DEF WalkOK

LEMMA OpenListKeeps ==
  ASSUME ReportTablesOK, NEW list \in Lists, NEW filter, NEW sort, OpenList(list, filter, sort)
  PROVE  WalkOK'
<1> DEFINE rows == Matching(list, filter)
           w == [list |-> list, filter |-> filter, sort |-> sort, rows |-> rows,
                 seen |-> {}, stayed |-> rows, left |-> {}]
<1>1. walk' = ShowPage(w, 1)
    BY DEF OpenList
<1>2. \A i \in rows : Rank(rows, sort, i) \in Nat
    BY MatchingIsFinite, RankIsBelow
<1>3. (1 - 1) * AdminPageSize = 0
    BY ReportsAssumption
<1> HIDE DEF rows
<1>4. /\ w.list = list /\ w.sort = sort /\ w.rows = rows /\ w.stayed = rows /\ w.seen = {}
    OBVIOUS
<1> HIDE DEF w
<1>5. \A i \in w.stayed \ w.seen : Rank(w.rows, w.sort, i) >= (1 - 1) * AdminPageSize
    BY <1>2, <1>3, <1>4
<1> QED
    BY <1>1, <1>4, <1>5, ShowFacts

LEMMA NextPageKeeps ==
  ASSUME ReportTablesOK, WalkOK, NextPage PROVE WalkOK'
<1> DEFINE next == walk.page + 1
<1>1. walk' = ShowPage(walk, next) /\ walk.list \in Lists /\ walk.list # "none"
    BY DEF NextPage, WalkOK
<1>2. next \in Nat /\ next > 0 /\ next - 1 = walk.page /\ walk.stayed \subseteq walk.rows
    BY <1>1 DEF WalkOK
<1>3. \A i \in walk.stayed \ walk.seen :
        \/ \E j \in walk.left : Before(walk.sort, j, i)
        \/ Rank(walk.rows, walk.sort, i) >= (next - 1) * AdminPageSize
    BY <1>1, <1>2 DEF WalkOK
<1> HIDE DEF next
<1> QED
    BY <1>1, <1>2, <1>3, ShowFacts

-----------------------------------------------------------------------------
(* The system page *)

HealthRecord ==
    [step : {"none", "probes", "queue", "worker", "done"},
     shown : SUBSET (Services \cup {"queue"}), unknown : SUBSET Services, seenUp : SUBSET Services]

LEMMA OpenHealthKeeps == ASSUME HealthOK, OpenHealth PROVE HealthOK'
<1>1. reachable' \subseteq Services /\ health' = [NoHealth EXCEPT !.step = "probes", !.seenUp = reachable']
    BY DEF OpenHealth
<1>2. /\ health'.step = "probes" /\ health'.shown = {} /\ health'.unknown = {}
      /\ health'.seenUp = reachable' /\ health' \in HealthRecord
    BY <1>1 DEF NoHealth, HealthRecord
<1> QED
    BY <1>1, <1>2 DEF HealthOK, HealthIsReal, HealthRecord

LEMMA HealthStepKeeps == ASSUME HealthOK, HealthStep PROVE HealthOK'
<1>1. /\ health \in HealthRecord /\ reachable' = reachable /\ reachable \subseteq Services
      /\ health.step # "none" => reachable \subseteq health.seenUp
      /\ health.shown \ {"queue"} \subseteq health.seenUp
    BY DEF HealthOK, HealthStep, HealthRecord, HealthIsReal
<1>2. ASSUME NEW answering \in SUBSET (reachable \cup {"queue"}), NEW unknown \in SUBSET Services,
             NEW shown \in SUBSET (health.shown \cup answering),
             NEW nextStep \in {"queue", "worker", "done"}, health.step # "none",
             health' = [health EXCEPT !.step = nextStep, !.shown = shown, !.unknown = unknown]
      PROVE  HealthOK'
    <2>1. /\ health' \in HealthRecord /\ health'.step = nextStep /\ health'.shown = shown
          /\ health'.seenUp = health.seenUp
        BY <1>1, <1>2 DEF HealthRecord
    <2> QED
        BY <1>1, <1>2, <2>1 DEF HealthOK, HealthIsReal, HealthRecord
<1>3. CASE ProbeDependencies
    <2>1. health' = [health EXCEPT !.step = "queue",
                        !.shown = reachable \cap {"postgres", "redis", "storage"},
                        !.unknown = health.unknown]
        BY <1>1, <1>3 DEF ProbeDependencies, HealthRecord
    <2> DEFINE probed == reachable \cap {"postgres", "redis", "storage"}
    <2>2. /\ probed \in SUBSET (reachable \cup {"queue"}) /\ probed \in SUBSET (health.shown \cup probed)
          /\ health.unknown \in SUBSET Services /\ health.step # "none"
        BY <1>1, <1>3 DEF ProbeDependencies, HealthRecord
    <2>3. health' = [health EXCEPT !.step = "queue", !.shown = probed, !.unknown = health.unknown]
        BY <2>1
    <2> HIDE DEF probed
    <2> QED
        BY <1>2, <2>2, <2>3
<1>4. CASE CountQueue
    <2>1. PICK counted \in SUBSET {"queue"} :
            health' = [health EXCEPT !.step = "worker", !.shown = @ \cup counted]
        BY <1>4 DEF CountQueue
    <2>2. health' = [health EXCEPT !.step = "worker", !.shown = health.shown \cup counted,
                        !.unknown = health.unknown]
        BY <1>1, <2>1 DEF HealthRecord
    <2> QED
        BY <1>1, <1>2, <1>4, <2>2 DEF CountQueue, HealthRecord
<1>5. CASE ProbeWorker
    <2>1. CASE health' = [health EXCEPT !.step = "done",
                                        !.shown = @ \cup (reachable \cap {"worker"})]
        <3>1. health' = [health EXCEPT !.step = "done",
                            !.shown = health.shown \cup (reachable \cap {"worker"}),
                            !.unknown = health.unknown]
            BY <1>1, <2>1 DEF HealthRecord
        <3> QED
            BY <1>1, <1>2, <1>5, <3>1 DEF ProbeWorker, HealthRecord
    <2>2. CASE health' = [health EXCEPT !.step = "done", !.unknown = {"worker"}]
        <3>1. health' = [health EXCEPT !.step = "done", !.shown = health.shown,
                            !.unknown = {"worker"}]
            BY <1>1, <2>2 DEF HealthRecord
        <3>2. {"worker"} \in SUBSET Services
            BY DEF Services
        <3> QED
            BY <1>1, <1>2, <1>5, <3>1, <3>2 DEF ProbeWorker, HealthRecord
    <2> QED
        BY <1>5, <2>1, <2>2 DEF ProbeWorker
<1> QED
    BY <1>3, <1>4, <1>5 DEF HealthStep

LEMMA ReachabilityKeeps ==
  ASSUME HealthOK, NEW service \in Services, ReachabilityChanges(service) PROVE HealthOK'
<1> DEFINE seenUp == IF service \in reachable THEN health.seenUp ELSE health.seenUp \cup {service}
<1>1. /\ health \in HealthRecord /\ reachable \subseteq Services /\ health.step # "none"
      /\ reachable \subseteq health.seenUp /\ health.shown \ {"queue"} \subseteq health.seenUp
    BY DEF HealthOK, ReachabilityChanges, HealthRecord, HealthIsReal
<1>2. /\ health' = [health EXCEPT !.seenUp = seenUp]
      /\ reachable' = IF service \in reachable THEN reachable \ {service}
                      ELSE reachable \cup {service}
    BY <1>1 DEF ReachabilityChanges, HealthRecord
<1>3. /\ health' \in HealthRecord /\ health'.step = health.step /\ health'.shown = health.shown
      /\ health'.seenUp = seenUp
    BY <1>1, <1>2 DEF HealthRecord
<1> QED
    BY <1>1, <1>2, <1>3 DEF HealthOK, HealthIsReal, HealthRecord

-----------------------------------------------------------------------------
(* The administration pages *)

LEMMA SeqOfMore ==
  ASSUME NEW S, NEW T, S \subseteq T, NEW s \in Seq(S)
  PROVE  s \in Seq(T) /\ \A i \in DOMAIN s : s[i] \in S
OBVIOUS

LEMMA ReportsStart == ReportsInit => ReportsIInv
<1> SUFFICES ASSUME ReportsInit PROVE ReportsIInv
    OBVIOUS
<1>1. ReportTablesOK
    <2>1. /\ runTable = FirstRuns /\ projectTable = FirstProjects /\ userTable = FirstUsers
          /\ auditTable = <<>> /\ artifactTable = FirstArtifacts
        BY DEF ReportsInit
    <2>2. /\ userTable \in Seq(UserRow) /\ projectTable \in Seq(ProjectRow)
          /\ runTable \in Seq(RunRow) /\ artifactTable \in Seq(DOMAIN runTable)
          /\ auditTable \in Seq(AuditRow)
        BY <2>1, ReportsAssumption
    <2>3. \A i \in Runs :
            /\ runTable[i].project \in DOMAIN projectTable
            /\ runTable[i].status = "succeeded" => runTable[i].ending \in 1..runTable[i].events
            /\ runTable[i].cost > 0 => runTable[i].status = "succeeded"
        BY <2>1, ReportsAssumption DEF Runs
    <2>4. artifactTable \in Seq(Nat) /\ \A a \in DOMAIN artifactTable : artifactTable[a] \in Runs
        <3>1. Runs \subseteq Nat /\ artifactTable \in Seq(Runs)
            BY <2>2 DEF Runs
        <3> QED
            BY <3>1, SeqOfMore
    <2>5. \A a \in DOMAIN artifactTable : runTable[artifactTable[a]].status = "succeeded"
        BY <2>1, ReportsAssumption
    <2>6. \A a \in DOMAIN artifactTable : artifactTable[a] \in WithStatus("succeeded")
        BY <2>4, <2>5 DEF WithStatus
    <2> QED
        BY <2>2, <2>3, <2>4, <2>6 DEF ReportTablesOK, WithStatus
<1>2. ReportOK
    <2>1. /\ report.name = "none" /\ report.next = 1
          /\ DOMAIN report = {"name", "subject", "next", "read"}
        BY DEF ReportsInit, NoReport
    <2> QED
        BY <2>1 DEF ReportOK
<1>3. WalkOK
    BY DEF ReportsInit, NoWalk, WalkOK
<1>4. HealthOK
    BY DEF ReportsInit, NoHealth, HealthOK, HealthIsReal
<1> QED
    BY <1>1, <1>2, <1>3, <1>4 DEF ReportsIInv

LEMMA SameTables == UNCHANGED database /\ ReportTablesOK => ReportTablesOK' /\ TablesGrow
<1> SUFFICES ASSUME UNCHANGED database, ReportTablesOK PROVE ReportTablesOK' /\ TablesGrow
    OBVIOUS
<1>1. UNCHANGED <<runTable, projectTable, userTable, auditTable, artifactTable>>
    BY DEF database
<1>2. ReportTablesOK'
    BY <1>1 DEF ReportTablesOK, Runs, WithStatus
<1>3. TablesGrow
    BY <1>1 DEF TablesGrow, Runs, Owner, OutputKind
<1> QED
    BY <1>2, <1>3

LEMMA ReportsKeepIInv == ReportsIInv /\ [ReportsNext]_reportVars => ReportsIInv'
<1> SUFFICES ASSUME ReportsIInv, [ReportsNext]_reportVars PROVE ReportsIInv'
    OBVIOUS
<1>1. ReportTablesOK /\ ReportOK /\ WalkOK /\ HealthOK
    BY DEF ReportsIInv
<1>2. ASSUME UNCHANGED <<health, reachable>> PROVE HealthOK'
    BY <1>1, <1>2 DEF HealthOK, HealthIsReal
<1>3. CASE UNCHANGED reportVars
    <2>1. UNCHANGED database /\ UNCHANGED <<report, walk, health, reachable>>
        BY <1>3 DEF reportVars, database
    <2> QED
        BY <1>1, <1>2, <2>1, SameTables, ToldStays, WalkStays DEF ReportsIInv
<1>4. CASE DatabaseStep /\ UNCHANGED <<pages, reachable, changes>>
    <2>1. UNCHANGED <<report, walk, health, reachable>>
        BY <1>4 DEF pages
    <2> QED
        BY <1>1, <1>2, <1>4, <2>1, TablesOnlyGrow, ToldStays, WalkStays DEF ReportsIInv
<1>5. ASSUME NEW name \in ReportNames, OpenReport(name), UNCHANGED <<database, reachable, changes>>
      PROVE  ReportsIInv'
    <2>1. UNCHANGED <<walk, health, reachable>> /\ UNCHANGED database
        BY <1>5 DEF OpenReport
    <2> QED
        BY <1>1, <1>2, <1>5, <2>1, SameTables, OpenKeeps, WalkStays DEF ReportsIInv
<1>6. CASE ReadStatement /\ UNCHANGED <<database, reachable, changes>>
    <2>1. UNCHANGED <<walk, health, reachable>> /\ UNCHANGED database
        BY <1>6 DEF ReadStatement
    <2> QED
        BY <1>1, <1>2, <1>6, <2>1, SameTables, ReadKeeps, WalkStays DEF ReportsIInv
<1>7. ASSUME NEW list \in Lists, NEW sort, NEW filter, OpenList(list, filter, sort),
             UNCHANGED <<database, reachable, changes>>
      PROVE  ReportsIInv'
    <2>1. UNCHANGED <<report, health, reachable>> /\ UNCHANGED database
        BY <1>7 DEF OpenList
    <2> QED
        BY <1>1, <1>2, <1>7, <2>1, SameTables, ToldStays, OpenListKeeps DEF ReportsIInv
<1>8. CASE NextPage /\ UNCHANGED <<database, reachable, changes>>
    <2>1. UNCHANGED <<report, health, reachable>> /\ UNCHANGED database
        BY <1>8 DEF NextPage
    <2> QED
        BY <1>1, <1>2, <1>8, <2>1, SameTables, ToldStays, NextPageKeeps DEF ReportsIInv
<1>9. ASSUME UNCHANGED <<database, report, walk>>, HealthOK' PROVE ReportsIInv'
    BY <1>1, <1>9, SameTables, ToldStays, WalkStays DEF ReportsIInv
<1>10. CASE OpenHealth
    BY <1>1, <1>9, <1>10, OpenHealthKeeps DEF OpenHealth
<1>11. CASE HealthStep
    <2>1. UNCHANGED <<database, report, walk>>
        BY <1>11 DEF HealthStep, ProbeDependencies, CountQueue, ProbeWorker
    <2> QED
        BY <1>1, <1>9, <1>11, <2>1, HealthStepKeeps
<1>12. ASSUME NEW service \in Services, ReachabilityChanges(service) PROVE ReportsIInv'
    BY <1>1, <1>9, <1>12, ReachabilityKeeps DEF ReachabilityChanges
<1> QED
    BY <1>3, <1>4, <1>5, <1>6, <1>7, <1>8, <1>10, <1>11, <1>12 DEF ReportsNext, Lists

LEMMA ReportsAreSafe == ReportsIInv => ReportsAreTrue
<1> SUFFICES ASSUME ReportsIInv PROVE ReportsAreTrue
    OBVIOUS
<1>1. ReportTablesOK /\ ReportOK /\ WalkOK /\ HealthOK
    BY DEF ReportsIInv
<1>2. ReportsTypeOK
    <2>1. \A i \in Runs : runTable[i].status \in RunStatuses
        BY <1>1, RunRows DEF RunRow
    <2>2. report.name \in ReportNames \cup {"none"}
        BY <1>1 DEF ReportOK
    <2>3. health.shown \subseteq Services \cup {"queue"}
        BY <1>1 DEF HealthOK
    <2> QED
        BY <2>1, <2>2, <2>3 DEF ReportsTypeOK
<1>3. NoRunOfTodayIsMissed
    <2> SUFFICES ASSUME report.name = "overview", Done(report) PROVE NoRunOfTodayIsMissed
        BY DEF NoRunOfTodayIsMissed
    <2>1. report.next > 6 /\ report.next \in Nat
        BY <1>1, StatementFacts DEF Done, ReportOK
    <2> QED
        BY <1>1, <2>1 DEF NoRunOfTodayIsMissed, ReportOK, OverviewTold
<1>4. BreakdownsCoverTheTotal
    <2> SUFFICES ASSUME report.name = "usage", Done(report),
                        NEW by \in Breakdowns
                 PROVE  Covers(by, report.read[by], report.read.window.costMonth)
        BY DEF BreakdownsCoverTheTotal
    <2>1. report.next > 6 /\ report.next \in Nat
        BY <1>1, StatementFacts DEF Done, ReportOK
    <2>2. PICK k \in 3..6 : UsageStatements[k] = by
        BY UsageBreakdowns
    <2>3. UsageTold /\ report.next > k
        BY <1>1, <2>1 DEF ReportOK
    <2> QED
        BY <2>2, <2>3 DEF UsageTold
<1>5. DetailsAgree
    <2> SUFFICES ASSUME Done(report) PROVE DetailsAgree
        BY DEF DetailsAgree
    <2>1. /\ report.name = "user" => report.next > 3
          /\ report.name = "project" => report.next > 2
          /\ report.name = "run" => report.next > 2
        BY <1>1, StatementFacts DEF Done, ReportOK
    <2> QED
        BY <1>1, <2>1 DEF DetailsAgree, ReportOK, UserTold, ProjectTold, RunTold
<1>6. PagesMissNothing
    <2> SUFFICES ASSUME walk.list # "none", ~walk.more, NEW i \in walk.stayed \ walk.seen,
                        ~\E j \in walk.left : Before(walk.sort, j, i)
                 PROVE  FALSE
        BY DEF PagesMissNothing
    <2>1. /\ IsFiniteSet(walk.rows) /\ walk.rows \subseteq Nat /\ i \in walk.rows
          /\ walk.page \in Nat
          /\ Rank(walk.rows, walk.sort, i) >= walk.page * AdminPageSize
          /\ Cardinality(walk.rows) <= walk.page * AdminPageSize
        BY <1>1 DEF WalkOK
    <2>2. /\ Rank(walk.rows, walk.sort, i) \in Nat /\ Cardinality(walk.rows) \in Nat
          /\ Rank(walk.rows, walk.sort, i) < Cardinality(walk.rows)
        BY <2>1, RankIsBelow
    <2>3. walk.page * AdminPageSize \in Nat
        BY <2>1, ReportsAssumption
    <2> QED
        BY <2>1, <2>2, <2>3
<1>7. HealthIsReal
    BY <1>1 DEF HealthOK
<1> QED
    BY <1>2, <1>3, <1>4, <1>5, <1>6, <1>7 DEF ReportsAreTrue

\* The administration pages show what was there, whatever the tables hold and however users
\* and workers write between two SELECTs, two pages of a list or two probes: no run of today
\* is missed; a breakdown accounts for the month's cost up to the groups beyond its limit;
\* the details agree, up to the errors and events beyond theirs; a list skips a row only if
\* one before it left the list meanwhile; a service is called healthy only if it was
\* reachable.
THEOREM PagesShowWhatIsThere == ReportsSpec => []ReportsAreTrue
BY ReportsStart, ReportsKeepIInv, ReportsAreSafe, PTL DEF ReportsSpec
=============================================================================
