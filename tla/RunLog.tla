-------------------------------- MODULE RunLog --------------------------------
(***************************************************************************)
(* One run as those who read it see it: the status in its row and the      *)
(* events in its log, each as what it tells.  It is where two components   *)
(* meet: RunBackbone implements it for each of its runs, and it is the     *)
(* worker RunEventStream starts from.                                      *)
(***************************************************************************)
EXTENDS Naturals, Sequences

VARIABLES
    row,        \* the run's status
    events      \* its log: what each event tells, "progress" if nothing of the status

runVars == <<row, events>>

Closed == events[Len(events)] \in {"succeeded", "failed", "cancelled"}

Init ==
    \/ row = "absent" /\ events = <<>>
    \/ row = "queued" /\ events = <<"queued">>

Create ==
    /\ row = "absent"
    /\ row' = "queued"
    /\ events' = <<"queued">>

Claim ==
    /\ row = "queued"
    /\ row' = "running"
    /\ UNCHANGED events

\* The start is told first.
Emit ==
    /\ row = "running"
    /\ events' = events \o <<IF Len(events) = 1 THEN "started" ELSE "progress">>
    /\ UNCHANGED row

\* The row and the last two events in one transaction.
Succeed ==
    /\ row = "running"
    /\ Len(events) > 1
    /\ row' = "succeeded"
    /\ events' = events \o <<"progress", "succeeded">>

\* A failure or cancellation is written first ...
Settle ==
    /\ row = "running"
    /\ Len(events) > 1
    /\ row' \in {"failed", "cancelled"}
    /\ UNCHANGED events

\* ... and announced later, if at all.
Announce ==
    /\ row \in {"failed", "cancelled"}
    /\ ~Closed
    /\ events' = events \o <<row>>
    /\ UNCHANGED row

Next == Create \/ Claim \/ Emit \/ Succeed \/ Settle \/ Announce

Spec == Init /\ [][Next]_runVars
=============================================================================
