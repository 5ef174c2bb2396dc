----------------------------- MODULE RunLifecycle -----------------------------
(***************************************************************************)
(* What a run promises to its owner, whatever the queue, the worker slots  *)
(* and their failures do: it is queued once, started at most once, settled *)
(* at most once, and its outcome is announced at most once, truthfully and *)
(* never before it is settled.                                             *)
(***************************************************************************)
CONSTANTS Runs

VARIABLES
    state,      \* the run's status as the project page shows it
    outcome     \* the terminal event of the run's log, or "none"

lifeVars == <<state, outcome>>

Settled == {"succeeded", "failed", "cancelled"}

Init ==
    /\ state = [r \in Runs |-> "absent"]
    /\ outcome = [r \in Runs |-> "none"]

Create(r) ==
    /\ state[r] = "absent"
    /\ state' = [state EXCEPT ![r] = "queued"]
    /\ UNCHANGED outcome

Begin(r) ==
    /\ state[r] = "queued"
    /\ state' = [state EXCEPT ![r] = "running"]
    /\ UNCHANGED outcome

\* Success and its announcement are one step.
Succeed(r) ==
    /\ state[r] = "running"
    /\ state' = [state EXCEPT ![r] = "succeeded"]
    /\ outcome' = [outcome EXCEPT ![r] = "succeeded"]

\* A failure or cancellation is written first and announced later, if at all.
Abort(r) ==
    /\ state[r] = "running"
    /\ \E s \in {"failed", "cancelled"} : state' = [state EXCEPT ![r] = s]
    /\ UNCHANGED outcome

Announce(r) ==
    /\ state[r] \in {"failed", "cancelled"}
    /\ outcome[r] = "none"
    /\ outcome' = [outcome EXCEPT ![r] = state[r]]
    /\ UNCHANGED state

Next == \E r \in Runs : Create(r) \/ Begin(r) \/ Succeed(r) \/ Abort(r) \/ Announce(r)

Spec == Init /\ [][Next]_lifeVars
=============================================================================
