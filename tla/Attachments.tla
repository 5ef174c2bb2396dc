----------------------------- MODULE Attachments ------------------------------
(***************************************************************************)
(* The files of a request, from the composer to the message that carries   *)
(* them.  One user writes to one conversation: first in the new-project    *)
(* form, which creates the project and then uploads to its initial         *)
(* message, later in the conversation view, which uploads unclaimed rows   *)
(* and then appends a message that claims them.  Answers may be lost while *)
(* the server goes on, so several uploads of the conversation can be in    *)
(* flight.                                                                 *)
(*                                                                         *)
(* Types, sizes and contents of files are abstracted to the choice of      *)
(* refusing one; the order of a batch to any order.  A request to create   *)
(* or append is one step here: ProjectMutations shows that its key makes   *)
(* it take effect once.                                                    *)
(***************************************************************************)
EXTENDS Naturals, FiniteSets

CONSTANTS
    Files,          \* files the user may pick
    NoFile,         \* no upload was sent under this number
    Drafts,         \* texts of the composer
    NoText,         \* the empty text
    Limit,          \* attachments of one request: 6 in the code
    MaxUploads,     \* bound: uploads ever sent
    MaxKeys,        \* bound: idempotency keys the composer ever uses
    MaxFaults       \* bound: lost answers, crashes and failures

ASSUME ConstantsAssumption ==
    /\ IsFiniteSet(Files)
    /\ NoFile \notin Files
    /\ NoText \in Drafts
    /\ Limit \in Nat \ {0}
    /\ MaxUploads \in Nat
    /\ MaxKeys \in Nat \ {0}
    /\ MaxFaults \in Nat

Uploads == 1..MaxUploads
NoUpload == 0
Keys == 1..MaxKeys
NoMessage == 0      \* a message is named by the key it was stored under

VARIABLES
    \* the composer: its form, the state of each file, the row a file was given, text, key
    form, item, row, draft, key,
    \* the submission: phase, the files and the text it started with, the upload it waits for
    phase, batch, text, waiting,
    \* upload requests: control point, file, whether meant for the initial message
    step, fileOf, linked, used,
    \* the upload that locks the conversation, objects in the store, message of each row
    lock, objects, messageOf,
    \* requests stored under their keys, and the project's initial message
    stored, request, initial,
    \* submissions that succeeded: their key and what the composer showed
    delivered,
    faults

composerVars == <<form, item, row, draft, key>>
submitVars == <<phase, batch, text, waiting>>
uploadVars == <<step, fileOf, linked, used>>
rowVars == <<lock, objects, messageOf>>
requestVars == <<stored, request, initial>>
vars == <<composerVars, submitVars, uploadVars, rowVars, requestVars, delivered, faults>>

InComposer == {f \in Files : item[f] # "out"}

Init ==
    /\ form = "new"
    /\ key = 1
    /\ draft = NoText
    /\ item = [f \in Files |-> "out"]
    /\ row = [f \in Files |-> NoUpload]
    /\ phase = "idle"
    /\ batch = {}
    /\ text = NoText
    /\ waiting = NoUpload
    /\ step = [u \in Uploads |-> "unsent"]
    /\ fileOf = [u \in Uploads |-> NoFile]
    /\ linked = [u \in Uploads |-> FALSE]
    /\ used = 0
    /\ lock = NoUpload
    /\ objects = {}
    /\ messageOf = [u \in Uploads |-> NoMessage]
    /\ stored = {}
    /\ request = [k \in Keys |-> [text |-> NoText, rows |-> {}]]
    /\ initial = NoMessage
    /\ delivered = {}
    /\ faults = 0

-----------------------------------------------------------------------------
(* The composer *)

\* A file is picked, dropped or recorded; drop and paste work during a submission too.
AddFile(f) ==
    /\ item[f] = "out"
    /\ Cardinality(InComposer) < Limit
    /\ item' = [item EXCEPT ![f] = "ready"]
    /\ UNCHANGED <<form, row, draft, key, phase, batch, text, waiting, uploadVars,
                   rowVars, requestVars, delivered, faults>>

\* Nothing tells the server: the row of an uploaded file stays.
RemoveFile(f) ==
    /\ phase = "idle"
    /\ item[f] \in {"ready", "error"}
    /\ item' = [item EXCEPT ![f] = "out"]
    /\ row' = [row EXCEPT ![f] = NoUpload]
    /\ UNCHANGED <<form, draft, key, submitVars, uploadVars, rowVars, requestVars,
                   delivered, faults>>

Edit(d) ==
    /\ draft' = d
    /\ UNCHANGED <<form, item, row, key, phase, batch, text, waiting, uploadVars,
                   rowVars, requestVars, delivered, faults>>

\* The send button: some text or file, no submission, and no file that is not ready.
CanSubmit ==
    /\ phase = "idle"
    /\ \A f \in InComposer : item[f] = "ready"
    /\ draft # NoText \/ InComposer # {}

\* A wrong MarkUploading, for a mutant: the status of a row given to a file.
MarkPending == [f \in Files |-> IF item[f] = "out" THEN "out" ELSE "pending"]

MarkUploading == [f \in Files |-> IF item[f] = "out" THEN "out" ELSE "uploading"]

\* The new-project form creates the project first; the conversation uploads first.
Submit ==
    /\ CanSubmit
    /\ key < MaxKeys
    /\ batch' = InComposer
    /\ text' = draft
    /\ IF form = "new"
       THEN phase' = "recording" /\ UNCHANGED item
       ELSE phase' = "uploading" /\ item' = MarkUploading
    /\ UNCHANGED <<form, row, draft, key, waiting, uploadVars, rowVars,
                   requestVars, delivered, faults>>

\* The submission is over: the closure that held its files and text is gone.
EndSubmission ==
    /\ phase' = "idle"
    /\ batch' = {}
    /\ text' = NoText
    /\ waiting' = NoUpload

\* The catch block: files still uploading fail.
Catch ==
    /\ EndSubmission
    /\ item' = [f \in Files |-> IF item[f] = "uploading" THEN "error" ELSE item[f]]
    /\ UNCHANGED <<form, row, draft, key>>

\* Success empties the composer and renews the key.
Succeed ==
    /\ EndSubmission
    /\ form' = "conversation"
    /\ item' = [f \in Files |-> "out"]
    /\ row' = [f \in Files |-> NoUpload]
    /\ draft' = NoText
    /\ key' = key + 1
    /\ delivered' = delivered \cup {[key |-> key, text |-> text, files |-> batch]}

\* Leaving or reloading the page forgets files and key.  The draft is kept per page;
\* a project that was created is found again in the list.
Reload ==
    /\ key < MaxKeys
    /\ form' = IF initial # NoMessage THEN "conversation" ELSE form
    /\ draft' = IF form' = form THEN draft ELSE NoText
    /\ item' = [f \in Files |-> "out"]
    /\ row' = [f \in Files |-> NoUpload]
    /\ key' = key + 1
    /\ EndSubmission
    /\ UNCHANGED <<uploadVars, rowVars, requestVars, delivered, faults>>

-----------------------------------------------------------------------------
(* Uploading a batch *)

Unfinished == {f \in batch : item[f] = "uploading"}

Idle == phase = "uploading" /\ waiting = NoUpload

\* A file that got its row in an earlier attempt is not sent again.
KeepRow(f) == row[f] # NoUpload

SkipUploaded(f) ==
    /\ Idle
    /\ f \in Unfinished
    /\ KeepRow(f)
    /\ item' = [item EXCEPT ![f] = "ready"]
    /\ UNCHANGED <<form, row, draft, key, submitVars, uploadVars, rowVars, requestVars,
                   delivered, faults>>

SendUpload(f) ==
    /\ Idle
    /\ f \in Unfinished
    /\ ~KeepRow(f)
    /\ used < MaxUploads
    /\ used' = used + 1
    /\ waiting' = used'
    /\ step' = [step EXCEPT ![used'] = "sent"]
    /\ fileOf' = [fileOf EXCEPT ![used'] = f]
    /\ linked' = [linked EXCEPT ![used'] = form = "new"]
    /\ UNCHANGED <<composerVars, phase, batch, text, rowVars, requestVars,
                   delivered, faults>>

UploadAnswered ==
    /\ waiting # NoUpload
    /\ step[waiting] = "stored"
    /\ item' = [item EXCEPT ![fileOf[waiting]] = "ready"]
    /\ row' = [row EXCEPT ![fileOf[waiting]] = waiting]
    /\ waiting' = NoUpload
    /\ UNCHANGED <<form, draft, key, phase, batch, text, uploadVars, rowVars,
                   requestVars, delivered, faults>>

UploadRefused ==
    /\ waiting # NoUpload
    /\ step[waiting] \in {"refused", "failed", "unsure"}
    /\ Catch
    /\ UNCHANGED <<uploadVars, rowVars, requestVars, delivered, faults>>

\* The connection breaks; the server may still be at work, or not have begun.
UploadLost ==
    /\ waiting # NoUpload
    /\ faults < MaxFaults
    /\ faults' = faults + 1
    /\ Catch
    /\ UNCHANGED <<uploadVars, rowVars, requestVars, delivered>>

BatchUploaded ==
    /\ Idle
    /\ Unfinished = {}
    /\ IF form = "new"
       THEN Succeed
       ELSE phase' = "recording" /\ UNCHANGED <<composerVars, batch, text, waiting, delivered>>
    /\ UNCHANGED <<uploadVars, rowVars, requestVars, faults>>

-----------------------------------------------------------------------------
(* The upload route: one transaction under the conversation's row lock *)

Target(u) == IF linked[u] THEN initial ELSE NoMessage

\* The upload's row is in the database: its commit was acknowledged, or only took effect.
HasRow(u) == step[u] \in {"stored", "unsure"}

Attached(m) == {u \in Uploads : HasRow(u) /\ messageOf[u] = m}

\* A wrong LockFree, for a mutant: no lock is taken.
NoRowLock == TRUE

\* SELECT ... FOR UPDATE on the conversation.
LockFree == lock = NoUpload

Admit(u) ==
    /\ step[u] = "sent"
    /\ LockFree
    /\ Cardinality(Attached(Target(u))) < Limit
    /\ step' = [step EXCEPT ![u] = "admitted"]
    /\ lock' = u
    /\ UNCHANGED <<composerVars, submitVars, fileOf, linked, used, objects, messageOf,
                   requestVars, delivered, faults>>

RefuseUpload(u) ==
    /\ step[u] = "sent"
    /\ LockFree
    /\ Cardinality(Attached(Target(u))) >= Limit
    /\ step' = [step EXCEPT ![u] = "refused"]
    /\ UNCHANGED <<composerVars, submitVars, fileOf, linked, used, rowVars,
                   requestVars, delivered, faults>>

PutObject(u) ==
    /\ step[u] = "admitted"
    /\ step' = [step EXCEPT ![u] = "placed"]
    /\ objects' = objects \cup {u}
    /\ UNCHANGED <<composerVars, submitVars, fileOf, linked, used, lock, messageOf,
                   requestVars, delivered, faults>>

\* A wrong RemoveObject, for a mutant: objects named by file, not by upload.
RemoveByName(u) == {v \in objects : fileOf[v] # fileOf[u]}

\* What the catch block of a failed upload leaves in the store.
RemoveObject(u) == objects \ {u}

\* The commit takes effect.  When its acknowledgement is lost, it rejects all the same:
\* the catch block deletes the object of the committed row and the answer is a 500.
CommitRow(u) ==
    /\ step[u] = "placed"
    /\ messageOf' = [messageOf EXCEPT ![u] = Target(u)]
    /\ lock' = NoUpload
    /\ \/ step' = [step EXCEPT ![u] = "stored"] /\ UNCHANGED <<objects, faults>>
       \/ /\ faults < MaxFaults
          /\ faults' = faults + 1
          /\ step' = [step EXCEPT ![u] = "unsure"]
          /\ objects' \in {RemoveObject(u), objects}
    /\ UNCHANGED <<composerVars, submitVars, fileOf, linked, used, requestVars, delivered>>

\* The request is refused (rate, type, contents) or the store or the database fails;
\* when the process dies, or the deletion fails too, the object stays.
FailUpload(u) ==
    /\ step[u] \in {"sent", "admitted", "placed"}
    /\ faults < MaxFaults
    /\ faults' = faults + 1
    /\ step' = [step EXCEPT ![u] = "failed"]
    /\ lock' = IF lock = u THEN NoUpload ELSE lock
    /\ objects' \in {RemoveObject(u), objects}
    /\ UNCHANGED <<composerVars, submitVars, fileOf, linked, used, messageOf,
                   requestVars, delivered>>

-----------------------------------------------------------------------------
(* createProject and appendRequirement *)

SentRows == IF form = "new" THEN {} ELSE {row[f] : f \in batch}

\* A wrong Hashed, for a mutant: the attachments are not part of the hash.
HashText(t, rows) == [text |-> t, rows |-> {}]

\* What the key's request hash covers.
Hashed(t, rows) == [text |-> t, rows |-> rows]

\* The UPDATE must link every id of the request to the new message.
Claimable(rows) == \A u \in rows : HasRow(u) /\ messageOf[u] = NoMessage

Accepted ==
    /\ text # NoText
    /\ IF key \in stored THEN request[key] = Hashed(text, SentRows) ELSE Claimable(SentRows)

Store ==
    /\ key \notin stored
    /\ stored' = stored \cup {key}
    /\ request' = [request EXCEPT ![key] = Hashed(text, SentRows)]
    /\ IF form = "new"
       THEN initial' = key /\ UNCHANGED messageOf
       ELSE /\ LockFree     \* the message's foreign key locks the conversation
            /\ messageOf' = [u \in Uploads |-> IF u \in SentRows THEN key ELSE messageOf[u]]
            /\ UNCHANGED initial
    /\ UNCHANGED <<lock, objects>>

Replay == key \in stored /\ UNCHANGED <<rowVars, requestVars>>

Created ==
    /\ phase = "recording"
    /\ form = "new"
    /\ Accepted
    /\ Store \/ Replay
    /\ phase' = "uploading"
    /\ item' = MarkUploading
    /\ UNCHANGED <<form, row, draft, key, batch, text, waiting, uploadVars,
                   delivered, faults>>

Appended ==
    /\ phase = "recording"
    /\ form = "conversation"
    /\ Accepted
    /\ Store \/ Replay
    /\ Succeed
    /\ UNCHANGED <<uploadVars, faults>>

\* IDEMPOTENCY_CONFLICT or VALIDATION_FAILED: shown, and the key is kept.
Refused ==
    /\ phase = "recording"
    /\ ~Accepted
    /\ EndSubmission
    /\ UNCHANGED <<composerVars, uploadVars, rowVars, requestVars,
                   delivered, faults>>

RequestLost ==
    /\ phase = "recording"
    /\ faults < MaxFaults
    /\ faults' = faults + 1
    /\ \/ Accepted /\ Store
       \/ UNCHANGED <<rowVars, requestVars>>
    /\ Catch
    /\ UNCHANGED <<uploadVars, delivered>>

-----------------------------------------------------------------------------
Composer ==
    \/ \E f \in Files : AddFile(f) \/ RemoveFile(f) \/ SkipUploaded(f) \/ SendUpload(f)
    \/ \E d \in Drafts : Edit(d)
    \/ Submit \/ Reload \/ UploadAnswered \/ UploadRefused \/ UploadLost \/ BatchUploaded

Server ==
    \/ \E u \in Uploads :
           Admit(u) \/ RefuseUpload(u) \/ PutObject(u) \/ CommitRow(u) \/ FailUpload(u)
    \/ Created \/ Appended \/ Refused \/ RequestLost

Next == Composer \/ Server

Spec == Init /\ [][Next]_vars

-----------------------------------------------------------------------------
(* Properties *)

TypeOK ==
    /\ form \in {"new", "conversation"}
    /\ item \in [Files -> {"out", "ready", "uploading", "error"}]
    /\ row \in [Files -> Uploads \cup {NoUpload}]
    /\ draft \in Drafts
    /\ key \in Keys
    /\ phase \in {"idle", "recording", "uploading"}
    /\ batch \subseteq Files
    /\ text \in Drafts
    /\ waiting \in Uploads \cup {NoUpload}
    /\ step \in [Uploads -> {"unsent", "sent", "admitted", "placed", "stored", "unsure", "refused",
                       "failed"}]
    /\ fileOf \in [Uploads -> Files \cup {NoFile}]
    /\ linked \in [Uploads -> BOOLEAN]
    /\ used \in 0..MaxUploads
    /\ lock \in Uploads \cup {NoUpload}
    /\ objects \subseteq Uploads
    /\ messageOf \in [Uploads -> Keys \cup {NoMessage}]
    /\ stored \subseteq Keys
    /\ request \in [Keys -> [text : Drafts, rows : SUBSET Uploads]]
    /\ initial \in Keys \cup {NoMessage}
    /\ delivered \subseteq [key : Keys, text : Drafts, files : SUBSET Files]
    /\ faults \in 0..MaxFaults

\* The server never keeps more attachments than the limit for the initial message, nor
\* unclaimed ones, nor for any other message, however uploads and appends overlap.
LimitHolds == \A m \in Keys \cup {NoMessage} : Cardinality(Attached(m)) <= Limit

FilesOf(rows) == {fileOf[u] : u \in rows}

Arrived(d) ==
    /\ d.key \in stored
    /\ request[d.key].text = d.text
    /\ d.files \subseteq FilesOf(Attached(d.key) \cap objects)
    /\ d.key # initial => /\ FilesOf(Attached(d.key)) \subseteq d.files
                          /\ \A u, v \in Attached(d.key) : fileOf[u] = fileOf[v] => u = v

\* When a submission has succeeded, its message has the text the composer showed and,
\* with its object in the store, every file it showed; a message of the conversation view
\* has no other file and none twice.  (The initial message may: a file removed after its
\* upload stays linked, and one whose answer was lost is linked again.)
SubmissionArrived == \A d \in delivered : Arrived(d)

\* Only a row whose commit was not acknowledged can lack its object, and no message of the
\* conversation view ever carries such a row; an object without a row is one an upload in
\* flight or a failed one left behind.
RowsHaveObjects ==
    /\ \A u \in Uploads : HasRow(u) => u \in objects \/ step[u] = "unsure"
    /\ \A k \in stored \ {initial} : Attached(k) \subseteq objects
    /\ \A u \in objects : HasRow(u) \/ step[u] \in {"placed", "failed"}

-----------------------------------------------------------------------------
(* The inductive invariant of the safety properties *)

\* An upload holds the lock while it is between its count and its commit, and there was room.
LockInv ==
    /\ \A u \in Uploads : step[u] \in {"admitted", "placed"} <=> lock = u
    /\ \A u \in Uploads : lock = u => Cardinality(Attached(Target(u))) < Limit

ObjectInv ==
    /\ {u \in Uploads : step[u] \in {"placed", "stored"}} \subseteq objects
    /\ \A u \in objects : HasRow(u) \/ step[u] \in {"placed", "failed"}

\* Uploads are numbered in the order they are sent, and sent only after the creation.
SendInv ==
    /\ \A u \in Uploads : u > used => step[u] = "unsent"
    /\ \A u \in Uploads : linked[u] => initial # NoMessage
    /\ \A u \in Uploads : HasRow(u) /\ linked[u] => messageOf[u] = initial

\* The initial message was stored under the new-project form's key.
InitialInv ==
    /\ initial # NoMessage => initial \in stored /\ initial <= key
    /\ form = "new" /\ initial # NoMessage => initial = key
    /\ form = "conversation" => initial # key
    /\ \A k \in stored : k <= key
    /\ form = "new" /\ key \in stored => initial = key

\* Rows belong to stored requests; those of the conversation view name their rows, which
\* they know from an answer.
ClaimInv ==
    /\ \A u \in Uploads : messageOf[u] # NoMessage => messageOf[u] \in stored
    /\ \A k \in stored : k # initial => Attached(k) = request[k].rows
    /\ \A u \in Uploads : step[u] = "unsure" => messageOf[u] \in {NoMessage, initial}

\* A file's row is that file's, and during a submission its files wait or have their row.
ComposerInv ==
    /\ \A f \in Files : row[f] # NoUpload =>
           /\ step[row[f]] = "stored"
           /\ fileOf[row[f]] = f
           /\ form = "new" => linked[row[f]]
    /\ waiting # NoUpload =>
           /\ phase = "uploading"
           /\ waiting <= used
           /\ form = "new" => linked[waiting]
    /\ phase # "idle" => batch \subseteq InComposer /\ key < MaxKeys
    /\ phase = "uploading" => \A f \in batch : item[f] = "uploading" \/ row[f] # NoUpload
    /\ phase = "recording" /\ form = "conversation" => \A f \in batch : row[f] # NoUpload
    /\ phase = "uploading" /\ form = "new" => key \in stored /\ request[key].text = text

DeliveredInv == \A d \in delivered : d.key < key

IInv ==
    /\ TypeOK
    /\ LockInv
    /\ ObjectInv
    /\ SendInv
    /\ InitialInv
    /\ ClaimInv
    /\ ComposerInv
    /\ DeliveredInv
    /\ LimitHolds
    /\ SubmissionArrived
=============================================================================
