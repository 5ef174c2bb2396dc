----------------------------- MODULE StorageCheck -----------------------------
(***************************************************************************)
(* checkLifecycle of the object store: a temporary object goes through     *)
(* every operation and is deleted, whatever fails on the way.  A request   *)
(* may fail before or after it took effect.                                *)
(***************************************************************************)
EXTENDS Naturals, Sequences

Phases == <<"bucket", "upload", "exists", "read", "signed-url", "private-access",
            "download", "delete">>

VARIABLES
    phase,      \* index in Phases; 0 before, 9 after
    command,    \* of deleteAndVerifyMissing: none, "delete" or "head"
    object,     \* the temporary object is in the bucket
    uploaded, deleted,
    failure,    \* the phase of the first failure, or "none"
    outcome     \* "pending", "ok" or the phase of the error thrown

storageVars == <<phase, command, object, uploaded, deleted, failure, outcome>>

StorageInit ==
    /\ phase = 0 /\ command = "none" /\ object = FALSE
    /\ uploaded = FALSE /\ deleted = FALSE
    /\ failure = "none" /\ outcome = "pending"

BeginCheck ==
    /\ phase = 0
    /\ phase' = 1
    /\ UNCHANGED <<command, object, uploaded, deleted, failure, outcome>>

\* The catch block, then the finally block, which cleans up what it knows of.
FailPhase(name) ==
    /\ failure' = name
    /\ IF uploaded /\ ~deleted
       THEN command' = "delete" /\ UNCHANGED <<phase, outcome>>
       ELSE command' = "none" /\ phase' = 9 /\ outcome' = name

\* A check that only reads: bucket, exists, read, signed-url, private-access, download.
PhaseReads ==
    /\ phase \in 1..7 \ {2} /\ failure = "none"
    /\ \/ /\ phase' = phase + 1
          /\ command' = IF phase = 7 THEN "delete" ELSE "none"
          /\ UNCHANGED <<failure, outcome>>
       \/ FailPhase(Phases[phase])
    /\ UNCHANGED <<object, uploaded, deleted>>

\* A put whose answer is lost has stored an object nobody will delete.
Upload ==
    /\ phase = 2
    /\ \/ /\ object' = TRUE /\ uploaded' = TRUE /\ phase' = 3
          /\ UNCHANGED <<command, failure, outcome>>
       \/ object' \in BOOLEAN /\ FailPhase("upload") /\ UNCHANGED uploaded
    /\ UNCHANGED deleted

\* Of deleteAndVerifyMissing: in the phase "delete" a failure starts the cleanup, in the
\* cleanup it is what is thrown.
DeleteFails ==
    IF failure = "none" THEN FailPhase("delete")
    ELSE command' = "none" /\ phase' = 9 /\ outcome' = "cleanup" /\ UNCHANGED failure

DeleteObject ==
    /\ command = "delete"
    /\ \/ object' = FALSE /\ command' = "head" /\ UNCHANGED <<phase, failure, outcome>>
       \/ object' \in {object, FALSE} /\ DeleteFails
    /\ UNCHANGED <<uploaded, deleted>>

\* isMissingObject: only a 404 or its names say that the object is gone.
HeadSaysMissing == ~object

VerifyMissing ==
    /\ command = "head"
    /\ \/ /\ HeadSaysMissing
          /\ command' = "none" /\ phase' = 9
          /\ deleted' = (failure = "none")
          /\ outcome' = IF failure = "none" THEN "ok" ELSE failure
          /\ UNCHANGED failure
       \/ DeleteFails /\ UNCHANGED deleted
    /\ UNCHANGED <<object, uploaded>>

\* A delete that succeeds although the store still serves the object for a while.
ObjectReappears ==
    /\ command = "head" /\ ~object
    /\ object' = TRUE
    /\ UNCHANGED <<phase, command, uploaded, deleted, failure, outcome>>

CheckStep == BeginCheck \/ PhaseReads \/ Upload \/ DeleteObject \/ VerifyMissing
StorageNext == CheckStep \/ ObjectReappears

-----------------------------------------------------------------------------
(* Properties *)

StorageTypeOK ==
    /\ phase \in 0..9 /\ command \in {"none", "delete", "head"}
    /\ object \in BOOLEAN /\ uploaded \in BOOLEAN /\ deleted \in BOOLEAN
    /\ failure \in {"none", "bucket", "upload", "exists", "read", "signed-url",
                    "private-access", "download", "delete"}

\* A check that succeeds, or that fails after its upload was confirmed with anything but
\* a failed cleanup, leaves no object behind: what it says was deleted was seen missing.
NothingIsLeftBehind ==
    outcome \notin {"pending", "upload", "cleanup"} => ~object

\* Every check ends and says how, even one whose cleanup fails as well, and what it says
\* of the object it leaves behind is true.
CheckEnds ==
    []<>(phase = 0 \/ (outcome # "pending" /\ StorageTypeOK /\ NothingIsLeftBehind))
=============================================================================
