------------------------------ MODULE RateLimit ------------------------------
(***************************************************************************)
(* The fixed-window limit on one operation of one user: a Redis key that   *)
(* counts the calls, and expires some time after the first of them.  INCR  *)
(* and EXPIRE are two commands, either of which may be lost on its way or  *)
(* executed without an answer.                                             *)
(***************************************************************************)
EXTENDS Naturals, FiniteSets

CONSTANTS
    Callers,    \* calls in flight at once
    Limit,      \* RATE_LIMITS[operation].limit
    MaxCalls    \* INCRs executed in one life of the key, and calls after it

ASSUME RateLimitAssumption == Limit \in Nat \ {0} /\ MaxCalls \in Nat /\ IsFiniteSet(Callers)

VARIABLES
    link,       \* redis.status is "ready"
    count,      \* the key's value; 0 when there is no key
    expiring,   \* the key has a time to live
    call,       \* caller -> [pc, seen]
    admitted,   \* calls admitted on the key's present life
    expireLost  \* an EXPIRE was never executed

limiterVars == <<link, count, expiring, call, admitted, expireLost>>

LimiterInit ==
    /\ link = TRUE
    /\ count = 0 /\ expiring = FALSE
    /\ call = [c \in Callers |-> [pc |-> "idle", seen |-> 0]]
    /\ admitted = 0 /\ expireLost = FALSE

Answer(c, pc) == call' = [call EXCEPT ![c].pc = pc]

EnforceRateLimit(c) ==
    /\ call[c].pc \in {"idle", "admitted", "refused"}
    /\ call' = [call EXCEPT ![c] = [pc |-> "waiting", seen |-> 0]]
    /\ UNCHANGED <<link, count, expiring, admitted, expireLost>>

\* The connection is ready, or becomes ready within 1.5 s; commands are never queued.
EnsureReady(c) ==
    /\ call[c].pc = "waiting"
    /\ \/ link /\ Answer(c, "incr")
       \/ ~link /\ Answer(c, "refused")
    /\ UNCHANGED <<link, count, expiring, admitted, expireLost>>

\* The call goes on when Redis cannot decide.
DecideOpen(c, seen, answered) ==
    /\ Answer(c, "admitted")
    /\ admitted' = admitted + 1

\* count > limit refuses; so does a command without an answer.
Decide(c, seen, answered) ==
    IF answered /\ seen <= Limit
    THEN Answer(c, "admitted") /\ admitted' = admitted + 1
    ELSE Answer(c, "refused") /\ UNCHANGED admitted

StartsWindow(seen) == seen = 1

Incr(c) ==
    /\ call[c].pc = "incr"
    /\ \/ /\ count < MaxCalls
          /\ count' = count + 1
          /\ IF StartsWindow(count + 1)
             THEN call' = [call EXCEPT ![c] = [pc |-> "expire", seen |-> count + 1]]
                  /\ UNCHANGED admitted
             ELSE Decide(c, count + 1, TRUE)
          /\ UNCHANGED expireLost
       \/ \* executed, its answer lost: a first call then never sends EXPIRE
          /\ count < MaxCalls
          /\ count' = count + 1
          /\ Decide(c, count + 1, FALSE)
          /\ expireLost' = (expireLost \/ count = 0)
       \/ \* executed, and sent again by the client after it reconnected
          /\ count + 2 <= MaxCalls
          /\ count' = count + 2
          /\ Decide(c, count + 2, TRUE)
          /\ expireLost' = (expireLost \/ count = 0)
       \/ Decide(c, 1, FALSE) /\ UNCHANGED <<count, expireLost>>
    /\ UNCHANGED <<link, expiring>>

Expire(c) ==
    /\ call[c].pc = "expire"
    /\ \/ \E answered \in BOOLEAN : expiring' = (count > 0) /\ Decide(c, call[c].seen, answered)
            /\ UNCHANGED expireLost
       \/ Decide(c, 1, FALSE) /\ expireLost' = TRUE /\ UNCHANGED expiring
    /\ UNCHANGED <<link, count>>

\* Redis drops the key at the end of its time to live.
WindowEnds ==
    /\ expiring
    /\ count' = 0 /\ expiring' = FALSE /\ admitted' = 0
    /\ UNCHANGED <<link, call, expireLost>>

LinkChanges ==
    /\ link' = ~link
    /\ UNCHANGED <<count, expiring, call, admitted, expireLost>>

CallStep(c) == EnsureReady(c) \/ Incr(c) \/ Expire(c)
LimiterNext ==
    \/ \E c \in Callers : EnforceRateLimit(c) \/ CallStep(c)
    \/ WindowEnds \/ LinkChanges

LimiterSpec == LimiterInit /\ [][LimiterNext]_limiterVars

-----------------------------------------------------------------------------
(* Properties *)

LimiterTypeOK ==
    /\ link \in BOOLEAN /\ expiring \in BOOLEAN /\ expireLost \in BOOLEAN
    /\ count \in 0..MaxCalls /\ admitted \in Nat
    /\ call \in [Callers -> [pc : {"idle", "waiting", "incr", "expire", "admitted", "refused"},
                             seen : 0..MaxCalls]]

\* However calls overlap and commands are lost, no more calls are admitted in one life
\* of the key than the limit allows: an answer that is lost refuses.
AdmittedWithinLimit == LimiterTypeOK /\ admitted <= Limit

\* A user who is over the limit is let in again: the key goes away, unless an EXPIRE was
\* never executed, which leaves a key that refuses for ever.
RefusalEnds == []<>(count <= Limit \/ expireLost)
-----------------------------------------------------------------------------
(* The inductive invariant *)

Starting(c) == call[c].pc = "expire"

\* Only the call that made the key sends its EXPIRE, so there is one at most, and none
\* once the key expires or is gone.
OneStarts ==
    /\ \A c, d \in Callers : Starting(c) /\ Starting(d) => c = d
    /\ \A c \in Callers : Starting(c) => call[c].seen = 1 /\ count > 0 /\ ~expiring

\* Each call admitted, and the one about to be, has incremented the key.
AdmittedHaveCounted ==
    /\ admitted <= count
    /\ \A c \in Callers : Starting(c) => admitted < count /\ admitted < Limit

KeyExpires == expiring => count > 0

LimiterIInv == AdmittedWithinLimit /\ OneStarts /\ AdmittedHaveCounted /\ KeyExpires
=============================================================================
