-------------------------- MODULE AttachmentsProofs ---------------------------
(***************************************************************************)
(* What Attachments keeps for every set of files, limit and number of      *)
(* uploads, keys and faults.                                               *)
(***************************************************************************)
EXTENDS Attachments, TLAPS, FiniteSetTheorems

-----------------------------------------------------------------------------
(* Sets of rows *)

LEMMA RowsAreFinite ==
    ASSUME NEW S \in SUBSET Uploads
    PROVE  IsFiniteSet(S) /\ Cardinality(S) \in Nat
<1>1. IsFiniteSet(Uploads)
    BY ConstantsAssumption, FS_Interval DEF Uploads
<1> QED
    BY <1>1, FS_Subset, FS_CardinalityType

LEMMA AttachedRows == ASSUME NEW m PROVE Attached(m) \in SUBSET Uploads
BY DEF Attached

LEMMA AttachedPrimed ==
    ASSUME NEW m, step' = step, messageOf' = messageOf
    PROVE  Attached(m)' = Attached(m)
BY DEF Attached, HasRow

\* A step that neither makes nor unmakes a stored row leaves every message its rows.
LEMMA AttachedKept ==
    ASSUME TypeOK, NEW u \in Uploads, NEW m, NEW s,
           step[u] \notin {"stored", "unsure"}, s \notin {"stored", "unsure"},
           step' = [step EXCEPT ![u] = s], messageOf' = messageOf
    PROVE  Attached(m)' = Attached(m)
BY DEF TypeOK, Attached, HasRow

\* What a step does to the server: nothing, one of the steps of an upload, or a request
\* stored for the first time.
StoresRequest ==
    /\ phase = "recording"
    /\ Accepted
    /\ Store
    /\ UNCHANGED uploadVars

LEMMA ServerEffects ==
    ASSUME [Next]_vars
    PROVE  \/ UNCHANGED <<uploadVars, rowVars, requestVars>>
           \/ \E f \in Files : SendUpload(f)
           \/ \E u \in Uploads :
                  Admit(u) \/ RefuseUpload(u) \/ PutObject(u) \/ CommitRow(u) \/ FailUpload(u)
           \/ StoresRequest
<1>1. CASE UNCHANGED vars
    BY <1>1 DEF vars, uploadVars, rowVars, requestVars
<1>2. CASE Composer
    BY <1>2 DEF Composer, AddFile, RemoveFile, SkipUploaded, Edit, Submit, Reload,
        UploadAnswered, UploadRefused, UploadLost, BatchUploaded
<1>3. CASE Server
    BY <1>3 DEF Server, Created, Appended, Refused, RequestLost, StoresRequest, Replay
<1> QED
    BY <1>1, <1>2, <1>3 DEF Next

-----------------------------------------------------------------------------
(* The lock and the limit *)

\* While a request is stored for the first time, no linked upload changes its target.
LEMMA TargetKept ==
    ASSUME TypeOK, SendInv, InitialInv, StoresRequest, NEW u \in Uploads
    PROVE  Target(u)' = Target(u)
BY DEF TypeOK, SendInv, InitialInv, StoresRequest, Store, Target, uploadVars, Keys, NoMessage

\* The rows a stored request claims were unclaimed, and its message had none before.
LEMMA ClaimedRows ==
    ASSUME TypeOK, InitialInv, ClaimInv, StoresRequest, form = "conversation",
           SentRows \in SUBSET Uploads
    PROVE  /\ SentRows \subseteq Attached(NoMessage)
           /\ Attached(NoMessage)' = Attached(NoMessage) \ SentRows
           /\ \A m \in Keys : Attached(m)' = IF m = key THEN SentRows ELSE Attached(m)
<1>1. /\ key \notin stored
      /\ Claimable(SentRows)
      /\ step' = step
      /\ messageOf' = [u \in Uploads |-> IF u \in SentRows THEN key ELSE messageOf[u]]
    BY DEF StoresRequest, Accepted, Store, uploadVars
<1>2. SentRows \subseteq Attached(NoMessage)
    BY <1>1 DEF Claimable, Attached
<1>3. key \in Keys /\ key # NoMessage
    BY DEF TypeOK, Keys, NoMessage
<1>4. \A u \in Uploads : messageOf[u] # key
    BY <1>1, <1>3 DEF ClaimInv
<1>5. \A u \in Uploads : messageOf'[u] = IF u \in SentRows THEN key ELSE messageOf[u]
    BY <1>1
<1>6. \A u \in SentRows : HasRow(u) /\ messageOf[u] = NoMessage
    BY <1>1 DEF Claimable
<1> HIDE DEF SentRows
<1>7. ASSUME NEW m \in Keys, m = key PROVE Attached(m)' = SentRows
    BY <1>1, <1>4, <1>5, <1>6, <1>7 DEF Attached, HasRow
<1>8. Attached(NoMessage)' = Attached(NoMessage) \ SentRows
    BY <1>1, <1>3, <1>5 DEF Attached, HasRow
<1>9. ASSUME NEW m \in Keys, m # key PROVE Attached(m)' = Attached(m)
    <2>1. m # NoMessage
        BY DEF Keys, NoMessage
    <2> QED
        BY <1>1, <1>5, <1>6, <1>9, <2>1 DEF Attached, HasRow
<1> QED
    BY <1>2, <1>7, <1>8, <1>9

\* Committing a row adds it to the message it was meant for.
LEMMA CommittedRow ==
    ASSUME TypeOK, NEW u \in Uploads, CommitRow(u), NEW m
    PROVE  Attached(m)' = IF m = Target(u) THEN Attached(m) \cup {u} ELSE Attached(m)
<1>1. step[u] = "placed"
    BY DEF CommitRow
<1>2. \A v \in Uploads : HasRow(v)' <=> HasRow(v) \/ v = u
    BY DEF CommitRow, TypeOK, HasRow
<1>3. \A v \in Uploads : messageOf'[v] = IF v = u THEN Target(u) ELSE messageOf[v]
    BY DEF CommitRow, TypeOK
<1> QED
    BY <1>1, <1>2, <1>3 DEF Attached, HasRow

LEMMA LockStep ==
    ASSUME IInv, TypeOK', [Next]_vars
    PROVE  LockInv'
<1> USE DEF IInv
<1>1. CASE UNCHANGED <<uploadVars, rowVars, requestVars>>
    BY <1>1 DEF uploadVars, rowVars, requestVars, LockInv, Attached, HasRow, Target
<1>2. ASSUME NEW f \in Files, SendUpload(f) PROVE LockInv'
    <2>1. used' \in Uploads /\ used' > used
        BY <1>2 DEF SendUpload, TypeOK, Uploads
    <2>2. step[used'] = "unsent"
        BY <2>1 DEF SendInv
    <2>3. step' = [step EXCEPT ![used'] = "sent"] /\ UNCHANGED <<lock, messageOf, initial>>
        BY <1>2 DEF SendUpload, rowVars, requestVars
    <2>4. linked' = [linked EXCEPT ![used'] = form = "new"]
        BY <1>2 DEF SendUpload
    <2>5. \A m : Attached(m)' = Attached(m)
        BY <2>1, <2>2, <2>3, AttachedKept
    <2>6. ASSUME NEW u \in Uploads, lock' = u PROVE Target(u)' = Target(u)
        BY <2>1, <2>2, <2>3, <2>4, <2>6 DEF LockInv, Target, TypeOK
    <2>7. \A u \in Uploads : step'[u] \in {"admitted", "placed"} <=> lock' = u
        BY <2>1, <2>2, <2>3 DEF LockInv, TypeOK
    <2> QED
        BY <2>3, <2>5, <2>6, <2>7 DEF LockInv
<1>3. ASSUME NEW u \in Uploads, Admit(u) PROVE LockInv'
    <2>1. /\ step[u] = "sent" /\ lock = NoUpload
          /\ step' = [step EXCEPT ![u] = "admitted"] /\ lock' = u
          /\ UNCHANGED <<messageOf, linked, initial>>
          /\ Cardinality(Attached(Target(u))) < Limit
        BY <1>3 DEF Admit, LockFree, requestVars
    <2>2. \A m : Attached(m)' = Attached(m)
        BY <2>1, AttachedKept
    <2>3. Target(u)' = Target(u)
        BY <2>1 DEF Target
    <2>4. \A v \in Uploads : step[v] \notin {"admitted", "placed"}
        BY <2>1 DEF LockInv, Uploads, NoUpload
    <2> QED
        BY <2>1, <2>2, <2>3, <2>4 DEF LockInv, TypeOK
<1>4. ASSUME NEW u \in Uploads, RefuseUpload(u) PROVE LockInv'
    <2>1. /\ step[u] = "sent"
          /\ step' = [step EXCEPT ![u] = "refused"]
          /\ UNCHANGED <<lock, messageOf, linked, initial>>
        BY <1>4 DEF RefuseUpload, rowVars, requestVars
    <2>2. \A m : Attached(m)' = Attached(m)
        BY <2>1, AttachedKept
    <2>3. \A v \in Uploads : Target(v)' = Target(v)
        BY <2>1 DEF Target
    <2> QED
        BY <2>1, <2>2, <2>3 DEF LockInv, TypeOK
<1>5. ASSUME NEW u \in Uploads, PutObject(u) PROVE LockInv'
    <2>1. /\ step[u] = "admitted"
          /\ step' = [step EXCEPT ![u] = "placed"]
          /\ UNCHANGED <<lock, messageOf, linked, initial>>
        BY <1>5 DEF PutObject, requestVars
    <2>2. \A m : Attached(m)' = Attached(m)
        BY <2>1, AttachedKept
    <2>3. \A v \in Uploads : Target(v)' = Target(v)
        BY <2>1 DEF Target
    <2> QED
        BY <2>1, <2>2, <2>3 DEF LockInv, TypeOK
<1>6. ASSUME NEW u \in Uploads, CommitRow(u) PROVE LockInv'
    <2>1. /\ step[u] = "placed"
          /\ \E s \in {"stored", "unsure"} : step' = [step EXCEPT ![u] = s]
          /\ lock' = NoUpload
        BY <1>6 DEF CommitRow
    <2>2. \A v \in Uploads : lock' # v
        BY <2>1 DEF Uploads, NoUpload
    <2>3. lock = u
        BY <2>1 DEF LockInv
    <2> QED
        BY <2>1, <2>2, <2>3 DEF LockInv, TypeOK
<1>7. ASSUME NEW u \in Uploads, FailUpload(u) PROVE LockInv'
    <2>1. /\ step[u] \in {"sent", "admitted", "placed"}
          /\ step' = [step EXCEPT ![u] = "failed"]
          /\ lock' = IF lock = u THEN NoUpload ELSE lock
          /\ UNCHANGED <<messageOf, linked, initial>>
        BY <1>7 DEF FailUpload, requestVars
    <2>2. \A m : Attached(m)' = Attached(m)
        BY <2>1, AttachedKept
    <2>3. \A v \in Uploads : Target(v)' = Target(v)
        BY <2>1 DEF Target
    <2>4. \A v \in Uploads : NoUpload # v
        BY DEF Uploads, NoUpload
    <2> QED
        BY <2>1, <2>2, <2>3, <2>4 DEF LockInv, TypeOK
<1>8. CASE StoresRequest
    <2>1. UNCHANGED <<step, lock, linked>>
        BY <1>8 DEF StoresRequest, Store, uploadVars
    <2>2. CASE form = "new"
        <3>1. messageOf' = messageOf
            BY <1>8, <2>2 DEF StoresRequest, Store
        <3>2. \A u \in Uploads : Target(u)' = Target(u)
            BY <1>8, TargetKept
        <3>3. \A m : Attached(m)' = Attached(m)
            BY <2>1, <3>1, AttachedPrimed
        <3> QED
            BY <2>1, <3>2, <3>3 DEF LockInv
    <2>3. CASE form # "new"
        <3>1. lock = NoUpload
            BY <1>8, <2>3 DEF StoresRequest, Store, LockFree
        <3>2. \A u \in Uploads : lock' # u
            BY <2>1, <3>1 DEF Uploads, NoUpload
        <3> QED
            BY <2>1, <3>2 DEF LockInv
    <2> QED
        BY <2>2, <2>3
<1> QED
    BY <1>1, <1>2, <1>3, <1>4, <1>5, <1>6, <1>7, <1>8, ServerEffects

-----------------------------------------------------------------------------
(* Objects, numbers and claims *)

LEMMA ObjectStep ==
    ASSUME IInv, TypeOK', [Next]_vars
    PROVE  ObjectInv'
<1> USE DEF IInv
<1>1. CASE UNCHANGED <<uploadVars, rowVars, requestVars>>
    BY <1>1 DEF uploadVars, rowVars, ObjectInv, HasRow
<1>2. ASSUME NEW f \in Files, SendUpload(f) PROVE ObjectInv'
    <2>1. used' \in Uploads /\ used' > used
        BY <1>2 DEF SendUpload, TypeOK, Uploads
    <2>2. step[used'] = "unsent"
        BY <2>1 DEF SendInv
    <2>3. step' = [step EXCEPT ![used'] = "sent"] /\ objects' = objects
        BY <1>2 DEF SendUpload, rowVars
    <2> QED
        BY <2>1, <2>2, <2>3 DEF ObjectInv, HasRow, TypeOK
<1>3. ASSUME NEW u \in Uploads, Admit(u) PROVE ObjectInv'
    BY <1>3 DEF Admit, ObjectInv, HasRow, TypeOK
<1>4. ASSUME NEW u \in Uploads, RefuseUpload(u) PROVE ObjectInv'
    BY <1>4 DEF RefuseUpload, rowVars, ObjectInv, HasRow, TypeOK
<1>5. ASSUME NEW u \in Uploads, PutObject(u) PROVE ObjectInv'
    BY <1>5 DEF PutObject, ObjectInv, HasRow, TypeOK
<1>6. ASSUME NEW u \in Uploads, CommitRow(u) PROVE ObjectInv'
    BY <1>6 DEF CommitRow, RemoveObject, ObjectInv, HasRow, TypeOK
<1>7. ASSUME NEW u \in Uploads, FailUpload(u) PROVE ObjectInv'
    BY <1>7 DEF FailUpload, RemoveObject, ObjectInv, HasRow, TypeOK
<1>8. CASE StoresRequest
    BY <1>8 DEF StoresRequest, Store, uploadVars, ObjectInv, HasRow
<1> QED
    BY <1>1, <1>2, <1>3, <1>4, <1>5, <1>6, <1>7, <1>8, ServerEffects

LEMMA SendStep ==
    ASSUME IInv, TypeOK', [Next]_vars
    PROVE  SendInv'
<1> USE DEF IInv
<1>1. CASE UNCHANGED <<uploadVars, rowVars, requestVars>>
    BY <1>1 DEF uploadVars, rowVars, requestVars, SendInv, HasRow
<1>2. ASSUME NEW f \in Files, SendUpload(f) PROVE SendInv'
    <2>1. used' \in Uploads /\ used' = used + 1 /\ used \in Nat
        BY <1>2 DEF SendUpload, TypeOK, Uploads
    <2>2. /\ step' = [step EXCEPT ![used'] = "sent"]
          /\ linked' = [linked EXCEPT ![used'] = form = "new"]
          /\ messageOf' = messageOf /\ initial' = initial
        BY <1>2 DEF SendUpload, rowVars, requestVars
    <2>3. form = "new" => initial # NoMessage
        BY <1>2 DEF SendUpload, Idle, ComposerInv, InitialInv, TypeOK, Keys, NoMessage
    <2>4. \A u \in Uploads : u # used' => step'[u] = step[u] /\ linked'[u] = linked[u]
        BY <2>1, <2>2 DEF TypeOK
    <2>5. step'[used'] = "sent" /\ (linked'[used'] => form = "new")
        BY <2>1, <2>2 DEF TypeOK
    <2>6. \A u \in Uploads : u > used' => step'[u] = "unsent"
        BY <2>1, <2>4 DEF SendInv, Uploads
    <2>7. \A u \in Uploads : linked'[u] => initial' # NoMessage
        BY <2>2, <2>3, <2>4, <2>5 DEF SendInv
    <2>8. \A u \in Uploads : HasRow(u)' /\ linked'[u] => messageOf'[u] = initial'
        BY <2>2, <2>4, <2>5 DEF SendInv, HasRow
    <2> QED
        BY <2>6, <2>7, <2>8 DEF SendInv
<1>3. ASSUME NEW u \in Uploads, NEW s \in {"admitted", "refused", "placed", "failed"},
             step[u] # "unsent", step' = [step EXCEPT ![u] = s],
             UNCHANGED <<linked, used, messageOf, initial>>
      PROVE  SendInv'
    BY <1>3 DEF SendInv, HasRow, TypeOK
<1>4. ASSUME NEW u \in Uploads,
             Admit(u) \/ RefuseUpload(u) \/ PutObject(u) \/ FailUpload(u)
      PROVE  SendInv'
    BY <1>3, <1>4 DEF Admit, RefuseUpload, PutObject, FailUpload, rowVars, requestVars
<1>5. ASSUME NEW u \in Uploads, CommitRow(u) PROVE SendInv'
    <2>1. /\ step[u] = "placed"
          /\ \E s \in {"stored", "unsure"} : step' = [step EXCEPT ![u] = s]
          /\ messageOf' = [messageOf EXCEPT ![u] = Target(u)]
          /\ UNCHANGED <<linked, used, initial>>
        BY <1>5 DEF CommitRow, requestVars
    <2> QED
        BY <2>1 DEF SendInv, HasRow, Target, TypeOK
<1>6. CASE StoresRequest
    <2>1. UNCHANGED <<step, linked, used>>
        BY <1>6 DEF StoresRequest, uploadVars
    <2>2. CASE form = "new"
        <3>1. initial = NoMessage
            BY <1>6, <2>2 DEF StoresRequest, Store, InitialInv
        <3>2. \A u \in Uploads : ~linked[u]
            BY <3>1 DEF SendInv
        <3> QED
            BY <2>1, <3>2 DEF SendInv, HasRow
    <2>3. CASE form # "new"
        <3>1. initial' = initial
            BY <1>6, <2>3 DEF StoresRequest, Store
        <3>2. ASSUME NEW u \in Uploads, HasRow(u), linked[u]
              PROVE  messageOf'[u] = initial
            <4>1. messageOf[u] = initial /\ initial # NoMessage
                BY <3>2 DEF SendInv
            <4>2. u \notin SentRows
                BY <1>6, <4>1 DEF StoresRequest, Accepted, Store, Claimable
            <4> QED
                BY <1>6, <2>3, <4>1, <4>2 DEF StoresRequest, Store
        <3> QED
            BY <2>1, <3>1, <3>2 DEF SendInv, HasRow
    <2> QED
        BY <2>2, <2>3
<1> QED
    BY <1>1, <1>2, <1>4, <1>5, <1>6, ServerEffects

\* When the form or the key changes.
LEMMA KeyEffects ==
    ASSUME [Next]_vars
    PROVE  \/ UNCHANGED <<form, key>>
           \/ Reload
           \/ Succeed /\ phase = "uploading" /\ form = "new" /\ BatchUploaded
           \/ Succeed /\ phase = "recording" /\ form = "conversation" /\ Appended
<1>1. CASE UNCHANGED vars
    BY <1>1 DEF vars, composerVars
<1>2. CASE Composer
    BY <1>2 DEF Composer, AddFile, RemoveFile, SkipUploaded, SendUpload, Edit, Submit,
        UploadAnswered, UploadRefused, UploadLost, BatchUploaded, Catch, Idle, composerVars
<1>3. CASE Server
    BY <1>3 DEF Server, Admit, RefuseUpload, PutObject, CommitRow, FailUpload,
        Created, Appended, Refused, RequestLost, Catch, composerVars
<1> QED
    BY <1>1, <1>2, <1>3 DEF Next

\* When the table of requests changes.
LEMMA RequestEffects ==
    ASSUME [Next]_vars
    PROVE  \/ UNCHANGED requestVars
           \/ StoresRequest /\ (Appended \/ UNCHANGED <<form, key>>)
<1>1. CASE UNCHANGED vars
    BY <1>1 DEF vars
<1>2. CASE Composer
    BY <1>2 DEF Composer, AddFile, RemoveFile, SkipUploaded, SendUpload, Edit, Submit,
        Reload, UploadAnswered, UploadRefused, UploadLost, BatchUploaded
<1>3. CASE Server
    BY <1>3 DEF Server, Admit, RefuseUpload, PutObject, CommitRow, FailUpload,
        Created, Appended, Refused, RequestLost, Catch, Replay, StoresRequest
<1> QED
    BY <1>1, <1>2, <1>3 DEF Next

LEMMA InitialStep ==
    ASSUME IInv, TypeOK', [Next]_vars
    PROVE  InitialInv'
<1> USE DEF IInv
<1>0. key \in Nat \ {0} /\ key' \in Nat \ {0} /\ stored \subseteq Nat /\ initial \in Nat
    BY DEF TypeOK, Keys, NoMessage
<1>1. CASE UNCHANGED requestVars
    <2>1. CASE UNCHANGED <<form, key>>
        BY <1>1, <2>1 DEF InitialInv, requestVars
    <2>2. CASE Reload
        <3>1. key' = key + 1 /\ form' = IF initial # NoMessage THEN "conversation" ELSE form
            BY <2>2 DEF Reload
        <3> QED
            BY <1>0, <1>1, <3>1 DEF InitialInv, requestVars, NoMessage
    <2>3. CASE Succeed
        <3>1. key' = key + 1 /\ form' = "conversation"
            BY <2>3 DEF Succeed
        <3> QED
            BY <1>0, <1>1, <3>1 DEF InitialInv, requestVars, NoMessage
    <2> QED
        BY <2>1, <2>2, <2>3, KeyEffects
<1>2. CASE StoresRequest /\ UNCHANGED <<form, key>>
    <2>1. stored' = stored \cup {key}
        BY <1>2 DEF StoresRequest, Store
    <2>2. CASE form = "new"
        <3>1. initial' = key
            BY <1>2, <2>2 DEF StoresRequest, Store
        <3> QED
            BY <1>0, <1>2, <2>1, <2>2, <3>1 DEF InitialInv, NoMessage
    <2>3. CASE form = "conversation"
        <3>1. initial' = initial
            BY <1>2, <2>3 DEF StoresRequest, Store
        <3> QED
            BY <1>0, <1>2, <2>1, <2>3, <3>1 DEF InitialInv, NoMessage
    <2> QED
        BY <2>2, <2>3 DEF TypeOK
<1>3. CASE StoresRequest /\ Appended
    <2>1. /\ stored' = stored \cup {key} /\ initial' = initial
          /\ key' = key + 1 /\ form' = "conversation" /\ form = "conversation"
        BY <1>3 DEF StoresRequest, Store, Appended, Succeed
    <2> QED
        BY <1>0, <2>1 DEF InitialInv, NoMessage
<1> QED
    BY <1>1, <1>2, <1>3, RequestEffects

LEMMA TargetTyped ==
    ASSUME IInv, NEW u \in Uploads
    PROVE  /\ Target(u) \in Keys \cup {NoMessage}
           /\ Target(u) # NoMessage => Target(u) = initial /\ initial \in stored
BY DEF IInv, TypeOK, Target, InitialInv

\* In the conversation view a request being sent names rows.
LEMMA SentRowsTyped ==
    ASSUME IInv, phase = "recording"
    PROVE  SentRows \in SUBSET Uploads
BY DEF IInv, TypeOK, ComposerInv, SentRows, Uploads, NoUpload

\* Steps of uploads that do not store a row leave every message its rows.
LEMMA RowEffects ==
    ASSUME IInv, [Next]_vars
    PROVE  \/ /\ messageOf' = messageOf /\ \A m : Attached(m)' = Attached(m)
              /\ \A u \in Uploads : step'[u] = "unsure" => step[u] = "unsure"
           \/ \E u \in Uploads : CommitRow(u)
           \/ StoresRequest /\ form = "conversation"
<1> USE DEF IInv
<1>1. CASE UNCHANGED <<uploadVars, rowVars, requestVars>>
    BY <1>1 DEF uploadVars, rowVars, Attached, HasRow
<1>2. ASSUME NEW f \in Files, SendUpload(f)
      PROVE  /\ messageOf' = messageOf /\ \A m : Attached(m)' = Attached(m)
             /\ \A v \in Uploads : step'[v] = "unsure" => step[v] = "unsure"
    <2>1. used' \in Uploads /\ used' > used
        BY <1>2, ConstantsAssumption DEF SendUpload, TypeOK, Uploads
    <2>2. step[used'] = "unsent"
        BY <2>1 DEF SendInv
    <2>3. step' = [step EXCEPT ![used'] = "sent"] /\ messageOf' = messageOf
        BY <1>2 DEF SendUpload, rowVars
    <2> QED
        BY <2>1, <2>2, <2>3, AttachedKept DEF TypeOK
<1>3. ASSUME NEW u \in Uploads,
             Admit(u) \/ RefuseUpload(u) \/ PutObject(u) \/ FailUpload(u)
      PROVE  /\ messageOf' = messageOf /\ \A m : Attached(m)' = Attached(m)
             /\ \A v \in Uploads : step'[v] = "unsure" => step[v] = "unsure"
    <2>1. /\ step[u] \notin {"stored", "unsure"} /\ messageOf' = messageOf
          /\ \E s \in {"admitted", "refused", "placed", "failed"} : step' = [step EXCEPT ![u] = s]
        BY <1>3 DEF Admit, RefuseUpload, PutObject, FailUpload, rowVars
    <2>2. \A m : Attached(m)' = Attached(m)
        BY <2>1, AttachedKept
    <2>3. \A v \in Uploads : step'[v] = "unsure" => step[v] = "unsure"
        BY <2>1 DEF TypeOK
    <2> QED
        BY <2>1, <2>2, <2>3
<1>4. CASE StoresRequest /\ form = "new"
    BY <1>4, AttachedPrimed DEF StoresRequest, Store, uploadVars
<1> QED
    BY <1>1, <1>2, <1>3, <1>4, ServerEffects DEF TypeOK

LEMMA ClaimStep ==
    ASSUME IInv, TypeOK', [Next]_vars
    PROVE  ClaimInv'
<1> USE DEF IInv
<1>0. stored \subseteq Keys /\ key \in Keys /\ \A k \in Keys : k # NoMessage
    BY DEF TypeOK, Keys, NoMessage
<1>1. CASE /\ messageOf' = messageOf /\ \A m : Attached(m)' = Attached(m)
           /\ \A u \in Uploads : step'[u] = "unsure" => step[u] = "unsure"
           /\ UNCHANGED requestVars
    BY <1>1 DEF ClaimInv, requestVars
<1>2. ASSUME NEW u \in Uploads, CommitRow(u) PROVE ClaimInv'
    <2>1. messageOf' = [messageOf EXCEPT ![u] = Target(u)] /\ UNCHANGED requestVars
        BY <1>2 DEF CommitRow
    <2>2. \A m : m # Target(u) => Attached(m)' = Attached(m)
        BY <1>2, CommittedRow
    <2>3. Target(u) # NoMessage => Target(u) = initial /\ initial \in stored
        BY TargetTyped
    <2>4. \A v \in Uploads : messageOf'[v] = IF v = u THEN Target(u) ELSE messageOf[v]
        BY <2>1 DEF TypeOK
    <2>5. UNCHANGED <<stored, request, initial>>
        BY <2>1 DEF requestVars
    <2>6. \A v \in Uploads : messageOf'[v] # NoMessage => messageOf'[v] \in stored'
        BY <2>3, <2>4, <2>5 DEF ClaimInv
    <2>7. \A k \in stored : k # initial => Attached(k)' = Attached(k)
        BY <1>0, <2>2, <2>3
    <2>8. \A k \in stored' : k # initial' => Attached(k)' = request'[k].rows
        BY <2>5, <2>7 DEF ClaimInv
    <2>9. \A v \in Uploads : step'[v] = "unsure" => step[v] = "unsure" \/ v = u
        BY <1>2 DEF CommitRow, TypeOK
    <2> QED
        BY <2>3, <2>4, <2>5, <2>6, <2>8, <2>9 DEF ClaimInv
<1>3. CASE StoresRequest /\ form = "conversation"
    <2>1. /\ key \notin stored /\ stored' = stored \cup {key} /\ initial' = initial
          /\ request' = [request EXCEPT ![key] = Hashed(text, SentRows)]
          /\ messageOf' = [u \in Uploads |-> IF u \in SentRows THEN key ELSE messageOf[u]]
        BY <1>3 DEF StoresRequest, Store
    <2>2. SentRows \in SUBSET Uploads
        BY <1>3, SentRowsTyped DEF StoresRequest
    <2>3. \A m \in Keys : Attached(m)' = IF m = key THEN SentRows ELSE Attached(m)
        BY <1>3, <2>2, ClaimedRows
    <2>4. \A k \in Keys : request'[k].rows = IF k = key THEN SentRows ELSE request[k].rows
        BY <1>0, <2>1 DEF TypeOK, Hashed
    <2>5. \A k \in stored' : k # initial' => Attached(k)' = request'[k].rows
        BY <1>0, <2>1, <2>3, <2>4 DEF ClaimInv
    <2>6. \A v \in Uploads : messageOf'[v] # NoMessage => messageOf'[v] \in stored'
        BY <2>1 DEF ClaimInv
    <2>7. \A u \in SentRows : step[u] = "stored"
        BY <1>3 DEF StoresRequest, SentRows, ComposerInv, TypeOK
    <2>8. \A u \in Uploads : step'[u] = "unsure" => messageOf'[u] \in {NoMessage, initial'}
        BY <1>3, <2>1, <2>7 DEF StoresRequest, uploadVars, ClaimInv
    <2> QED
        BY <2>5, <2>6, <2>8 DEF ClaimInv
<1>4. CASE StoresRequest /\ form = "new"
    <2>1. /\ key \notin stored /\ stored' = stored \cup {key} /\ initial' = key
          /\ request' = [request EXCEPT ![key] = Hashed(text, SentRows)]
          /\ messageOf' = messageOf /\ step' = step
        BY <1>4 DEF StoresRequest, Store, uploadVars
    <2>2. initial = NoMessage
        BY <1>4, <2>1 DEF InitialInv
    <2>3. \A m : Attached(m)' = Attached(m)
        BY <2>1, AttachedPrimed
    <2>4. \A k \in stored : k # key /\ request'[k] = request[k]
        BY <1>0, <2>1 DEF TypeOK
    <2>5. \A k \in stored' : k # initial' => Attached(k)' = request'[k].rows
        BY <1>0, <2>1, <2>2, <2>3, <2>4 DEF ClaimInv
    <2> QED
        BY <2>1, <2>2, <2>5 DEF ClaimInv
<1> QED
    BY <1>1, <1>2, <1>3, <1>4, RowEffects, RequestEffects DEF TypeOK

LEMMA LimitStep ==
    ASSUME IInv, TypeOK', [Next]_vars
    PROVE  LimitHolds'
<1> USE DEF IInv
<1>1. CASE \A m : Attached(m)' = Attached(m)
    BY <1>1 DEF LimitHolds
<1>2. ASSUME NEW u \in Uploads, CommitRow(u) PROVE LimitHolds'
    <2>1. Cardinality(Attached(Target(u))) < Limit
        BY <1>2 DEF CommitRow, LockInv
    <2>2. \A m : Attached(m)' = IF m = Target(u) THEN Attached(m) \cup {u} ELSE Attached(m)
        BY <1>2, CommittedRow
    <2>3. /\ IsFiniteSet(Attached(Target(u)))
          /\ Cardinality(Attached(Target(u))) \in Nat
        BY AttachedRows, RowsAreFinite
    <2>4. Cardinality(Attached(Target(u)) \cup {u}) <= Cardinality(Attached(Target(u))) + 1
        <3> DEFINE S == Attached(Target(u))
        <3>1. Cardinality(S \cup {u}) = IF u \in S THEN Cardinality(S) ELSE Cardinality(S) + 1
            BY <2>3, FS_AddElement
        <3>2. Cardinality(S) \in Nat
            BY <2>3
        <3> HIDE DEF S
        <3>3. Cardinality(S \cup {u}) <= Cardinality(S) + 1
            BY <3>1, <3>2
        <3> QED
            BY <3>3 DEF S
    <2>5. /\ Cardinality(Attached(Target(u)) \cup {u}) <= Limit
          /\ Attached(Target(u)) \cup {u} \in SUBSET Uploads
        <3>1. Attached(Target(u)) \cup {u} \in SUBSET Uploads
            BY AttachedRows
        <3>2. Cardinality(Attached(Target(u)) \cup {u}) \in Nat
            BY <3>1, RowsAreFinite
        <3> QED
            BY <2>1, <2>3, <2>4, <3>1, <3>2, ConstantsAssumption
    <2> QED
        BY <2>2, <2>5 DEF LimitHolds
<1>3. CASE StoresRequest /\ form = "conversation"
    <2>1. SentRows \in SUBSET Uploads
        BY <1>3, SentRowsTyped DEF StoresRequest
    <2>2. /\ SentRows \subseteq Attached(NoMessage)
          /\ Attached(NoMessage)' = Attached(NoMessage) \ SentRows
          /\ \A m \in Keys : Attached(m)' = IF m = key THEN SentRows ELSE Attached(m)
        BY <1>3, <2>1, ClaimedRows
    <2>3. ASSUME NEW S \in SUBSET Attached(NoMessage) PROVE Cardinality(S) <= Limit
        <3>1. S \in SUBSET Uploads /\ Attached(NoMessage) \in SUBSET Uploads
            BY AttachedRows
        <3>2. /\ IsFiniteSet(Attached(NoMessage))
              /\ Cardinality(Attached(NoMessage)) \in Nat /\ Cardinality(S) \in Nat
            BY <3>1, RowsAreFinite
        <3>3. Cardinality(S) <= Cardinality(Attached(NoMessage))
            BY <3>2, FS_Subset
        <3>4. Cardinality(Attached(NoMessage)) <= Limit
            BY DEF LimitHolds
        <3> QED
            BY <3>2, <3>3, <3>4, ConstantsAssumption
    <2>4. Cardinality(SentRows) <= Limit /\ Cardinality(Attached(NoMessage) \ SentRows) <= Limit
        BY <2>2, <2>3
    <2> QED
        BY <2>2, <2>4 DEF LimitHolds
<1> QED
    BY <1>1, <1>2, <1>3, RowEffects

-----------------------------------------------------------------------------
(* The composer *)

\* Uploads that were sent keep their file and target, and stored rows stay stored.
LEMMA UploadKept ==
    ASSUME IInv, [Next]_vars, NEW u \in Uploads, u <= used
    PROVE  /\ fileOf'[u] = fileOf[u] /\ linked'[u] = linked[u]
           /\ step[u] = "stored" => step'[u] = "stored"
           /\ u <= used'
<1> USE DEF IInv
<1>1. CASE UNCHANGED <<uploadVars, rowVars, requestVars>>
    BY <1>1 DEF uploadVars
<1>2. ASSUME NEW f \in Files, SendUpload(f)
      PROVE  /\ fileOf'[u] = fileOf[u] /\ linked'[u] = linked[u] /\ step'[u] = step[u]
             /\ u <= used'
    <2>1. used' = used + 1 /\ used \in Nat /\ u # used'
        BY <1>2 DEF SendUpload, TypeOK, Uploads
    <2>2. /\ step' = [step EXCEPT ![used'] = "sent"]
          /\ fileOf' = [fileOf EXCEPT ![used'] = f]
          /\ linked' = [linked EXCEPT ![used'] = form = "new"]
        BY <1>2 DEF SendUpload
    <2> QED
        BY <2>1, <2>2 DEF TypeOK, Uploads
<1>3. ASSUME NEW v \in Uploads,
             \/ Admit(v) \/ RefuseUpload(v) \/ PutObject(v) \/ CommitRow(v) \/ FailUpload(v)
      PROVE  /\ UNCHANGED <<fileOf, linked, used>>
             /\ step[u] = "stored" => step'[u] = "stored"
    BY <1>3 DEF Admit, RefuseUpload, PutObject, CommitRow, FailUpload, TypeOK
<1>4. CASE StoresRequest
    BY <1>4 DEF StoresRequest, uploadVars
<1> QED
    BY <1>1, <1>2, <1>3, <1>4, ServerEffects

\* A stored row has been sent.
LEMMA StoredWasSent ==
    ASSUME IInv, NEW u \in Uploads, step[u] # "unsent"
    PROVE  u <= used
BY DEF IInv, SendInv, TypeOK, Uploads

\* The rows of the files after a step that keeps them or forgets them.
LEMMA RowsKept ==
    ASSUME IInv, [Next]_vars,
           \A f \in Files : row'[f] \in {row[f], NoUpload},
           form' = "new" => form = "new"
    PROVE  \A f \in Files : row'[f] # NoUpload =>
               /\ step'[row'[f]] = "stored"
               /\ fileOf'[row'[f]] = f
               /\ form' = "new" => linked'[row'[f]]
<1> SUFFICES ASSUME NEW f \in Files, row'[f] # NoUpload
             PROVE  /\ step'[row'[f]] = "stored"
                    /\ fileOf'[row'[f]] = f
                    /\ form' = "new" => linked'[row'[f]]
    OBVIOUS
<1>1. row'[f] = row[f] /\ row[f] \in Uploads
    BY DEF IInv, TypeOK
<1>2. step[row[f]] = "stored" /\ fileOf[row[f]] = f /\ (form = "new" => linked[row[f]])
    BY <1>1 DEF IInv, ComposerInv
<1>3. row[f] <= used
    BY <1>1, <1>2, StoredWasSent
<1> QED
    BY <1>1, <1>2, <1>3, UploadKept

\* After a submission ends, only the rows of the files matter.
LEMMA ComposerIdle ==
    ASSUME IInv, [Next]_vars, EndSubmission,
           \A f \in Files : row'[f] \in {row[f], NoUpload},
           form' = "new" => form = "new"
    PROVE  ComposerInv'
BY RowsKept DEF EndSubmission, ComposerInv

LEMMA ComposerStep ==
    ASSUME IInv, TypeOK', [Next]_vars
    PROVE  ComposerInv'
<1>0. TypeOK /\ ComposerInv
    BY DEF IInv
<1>1. ASSUME UNCHANGED <<form, row, key, phase, batch, text, waiting, requestVars>>,
             \A f \in Files : item[f] # "out" => item'[f] # "out",
             phase = "uploading" => \A f \in batch : item'[f] = item[f] \/ row[f] # NoUpload
      PROVE  ComposerInv'
    <2>1. \A f \in Files : row'[f] # NoUpload =>
              /\ step'[row'[f]] = "stored"
              /\ fileOf'[row'[f]] = f
              /\ form' = "new" => linked'[row'[f]]
        BY <1>0, <1>1, RowsKept DEF TypeOK
    <2>2. waiting' # NoUpload =>
              phase' = "uploading" /\ waiting' <= used' /\ (form' = "new" => linked'[waiting'])
        BY <1>0, <1>1, UploadKept DEF ComposerInv, TypeOK
    <2>3. batch \subseteq Files /\ InComposer \subseteq InComposer'
        BY <1>0, <1>1 DEF TypeOK, InComposer
    <2> QED
        BY <1>0, <1>1, <2>1, <2>2, <2>3 DEF ComposerInv, requestVars
<1>2. CASE UNCHANGED vars
    BY <1>1, <1>2 DEF vars, composerVars, submitVars, requestVars
<1>3. ASSUME NEW u \in Uploads,
             \/ Admit(u) \/ RefuseUpload(u) \/ PutObject(u) \/ CommitRow(u) \/ FailUpload(u)
      PROVE  ComposerInv'
    BY <1>1, <1>3 DEF Admit, RefuseUpload, PutObject, CommitRow, FailUpload,
        composerVars, submitVars, requestVars
<1>4. ASSUME NEW f \in Files, AddFile(f) PROVE ComposerInv'
    <2>1. item' = [item EXCEPT ![f] = "ready"] /\ item[f] = "out"
        BY <1>4 DEF AddFile
    <2>2. \A g \in Files : item[g] # "out" => item'[g] = item[g]
        BY <1>0, <2>1 DEF TypeOK
    <2>3. phase = "uploading" => \A g \in batch : item[g] # "out"
        BY <1>0 DEF ComposerInv, InComposer
    <2>4. \A g \in batch : g \in Files
        BY <1>0 DEF TypeOK
    <2> QED
        BY <1>1, <1>4, <2>2, <2>3, <2>4 DEF AddFile
<1>5. ASSUME NEW f \in Files, RemoveFile(f) PROVE ComposerInv'
    <2>1. phase = "idle" /\ row' = [row EXCEPT ![f] = NoUpload]
          /\ UNCHANGED <<form, phase, waiting>>
        BY <1>5 DEF RemoveFile, submitVars
    <2>2. \A g \in Files : row'[g] \in {row[g], NoUpload}
        BY <1>0, <2>1 DEF TypeOK
    <2>3. waiting = NoUpload
        BY <1>0, <2>1 DEF ComposerInv
    <2> QED
        BY <2>1, <2>2, <2>3, RowsKept DEF ComposerInv
<1>6. ASSUME NEW f \in Files, SkipUploaded(f) PROVE ComposerInv'
    <2>1. item' = [item EXCEPT ![f] = "ready"] /\ row[f] # NoUpload
        BY <1>6 DEF SkipUploaded, KeepRow
    <2>2. \A g \in Files : item[g] # "out" => item'[g] # "out"
        BY <1>0, <2>1 DEF TypeOK
    <2>3. \A g \in Files : item'[g] = item[g] \/ row[g] # NoUpload
        BY <1>0, <2>1 DEF TypeOK
    <2>4. batch \subseteq Files
        BY <1>0 DEF TypeOK
    <2> QED
        BY <1>1, <1>6, <2>2, <2>3, <2>4 DEF SkipUploaded, submitVars
<1>7. ASSUME NEW f \in Files, SendUpload(f) PROVE ComposerInv'
    <2>1. used' \in Uploads /\ waiting' = used' /\ linked' = [linked EXCEPT ![used'] = form = "new"]
          /\ phase = "uploading"
          /\ UNCHANGED <<form, row, item, key, phase, batch, text, requestVars>>
        BY <1>0, <1>7, ConstantsAssumption
        DEF SendUpload, Idle, TypeOK, Uploads, composerVars
    <2>2. form = "new" => linked'[used']
        BY <1>0, <2>1 DEF TypeOK
    <2>3. \A g \in Files : row'[g] # NoUpload =>
              /\ step'[row'[g]] = "stored"
              /\ fileOf'[row'[g]] = g
              /\ form' = "new" => linked'[row'[g]]
        BY <1>0, <2>1, RowsKept DEF TypeOK
    <2>4. waiting' <= used'
        BY <2>1 DEF Uploads
    <2>5. InComposer' = InComposer
        BY <2>1 DEF InComposer
    <2> QED
        BY <1>0, <2>1, <2>2, <2>3, <2>4, <2>5 DEF ComposerInv, requestVars
<1>8. ASSUME NEW d \in Drafts, Edit(d) PROVE ComposerInv'
    BY <1>1, <1>8 DEF Edit
<1>9. CASE Submit
    <2>1. /\ phase = "idle" /\ batch' = InComposer /\ key < MaxKeys
          /\ UNCHANGED <<form, row, key, waiting>>
          /\ \/ form = "new" /\ phase' = "recording" /\ item' = item
             \/ form # "new" /\ phase' = "uploading" /\ item' = MarkUploading
        BY <1>9 DEF Submit, CanSubmit
    <2>2. waiting = NoUpload
        BY <1>0, <2>1 DEF ComposerInv
    <2>3. \A g \in Files : row'[g] # NoUpload =>
              /\ step'[row'[g]] = "stored"
              /\ fileOf'[row'[g]] = g
              /\ form' = "new" => linked'[row'[g]]
        BY <1>0, <2>1, RowsKept DEF TypeOK
    <2>4. InComposer' = InComposer
        BY <2>1 DEF InComposer, MarkUploading
    <2>5. form # "new" => \A g \in batch' : item'[g] = "uploading"
        BY <2>1 DEF InComposer, MarkUploading
    <2> QED
        BY <2>1, <2>2, <2>3, <2>4, <2>5 DEF ComposerInv
<1>10. CASE Reload
    <2>1. EndSubmission /\ row' = [f \in Files |-> NoUpload]
          /\ (form' = "new" => form = "new")
        BY <1>10 DEF Reload
    <2> QED
        BY <2>1, ComposerIdle
<1>11. CASE UploadAnswered
    <2> DEFINE f == fileOf[waiting]
    <2>1. /\ waiting # NoUpload /\ step[waiting] = "stored" /\ waiting' = NoUpload
          /\ item' = [item EXCEPT ![f] = "ready"]
          /\ row' = [row EXCEPT ![f] = waiting]
          /\ UNCHANGED <<form, key, phase, batch, text, uploadVars, requestVars>>
        BY <1>11 DEF UploadAnswered
    <2>2. waiting \in Uploads /\ (form = "new" => linked[waiting])
        BY <1>0, <2>1 DEF TypeOK, ComposerInv
    <2>3. \A g \in Files : row'[g] = IF g = f THEN waiting ELSE row[g]
        BY <1>0, <2>1 DEF TypeOK
    <2>4. \A g \in Files : item'[g] = IF g = f THEN "ready" ELSE item[g]
        BY <1>0, <2>1 DEF TypeOK
    <2>5. \A g \in Files : row'[g] # NoUpload =>
              /\ step'[row'[g]] = "stored"
              /\ fileOf'[row'[g]] = g
              /\ form' = "new" => linked'[row'[g]]
        BY <1>0, <2>1, <2>2, <2>3 DEF ComposerInv, uploadVars
    <2>6. batch \subseteq Files /\ InComposer \subseteq InComposer'
        BY <1>0, <2>4 DEF TypeOK, InComposer
    <2>7. phase = "uploading"
        BY <1>0, <2>1 DEF ComposerInv
    <2>8. \A g \in batch : item'[g] = "uploading" \/ row'[g] # NoUpload
        BY <1>0, <2>1, <2>3, <2>4, <2>6, <2>7 DEF ComposerInv
    <2> QED
        BY <1>0, <2>1, <2>5, <2>6, <2>7, <2>8 DEF ComposerInv, requestVars
<1>12. CASE Catch
    <2>1. EndSubmission /\ UNCHANGED <<form, row>>
        BY <1>12 DEF Catch
    <2> QED
        BY <2>1, ComposerIdle
<1>13. CASE Succeed
    <2>1. EndSubmission /\ row' = [f \in Files |-> NoUpload] /\ form' = "conversation"
        BY <1>13 DEF Succeed
    <2> QED
        BY <2>1, ComposerIdle
<1>14. CASE BatchUploaded /\ form # "new"
    <2>1. /\ phase = "uploading" /\ waiting = NoUpload /\ Unfinished = {}
          /\ phase' = "recording"
          /\ UNCHANGED <<composerVars, batch, text, waiting, uploadVars, requestVars>>
        BY <1>14 DEF BatchUploaded, Idle
    <2>2. \A g \in batch : row[g] # NoUpload
        BY <1>0, <2>1 DEF ComposerInv, Unfinished
    <2>3. InComposer' = InComposer
        BY <2>1 DEF InComposer, composerVars
    <2>4. UNCHANGED <<form, row, key, step, fileOf, linked>>
        BY <2>1 DEF composerVars, uploadVars
    <2> QED
        BY <1>0, <1>14, <2>1, <2>2, <2>3, <2>4 DEF ComposerInv
<1>15. CASE Created
    <2>1. /\ phase = "recording" /\ form = "new" /\ phase' = "uploading" /\ item' = MarkUploading
          /\ UNCHANGED <<form, row, key, batch, text, waiting, uploadVars>>
        BY <1>15 DEF Created
    <2>2. key \in stored' /\ request'[key].text = text
        BY <1>0, <1>15 DEF Created, Accepted, Store, Replay, Hashed, requestVars, TypeOK
    <2>3. \A g \in Files : item[g] # "out" => item'[g] = "uploading"
        BY <2>1 DEF MarkUploading
    <2>4. batch \subseteq InComposer /\ waiting = NoUpload /\ key < MaxKeys
        BY <1>0, <2>1 DEF ComposerInv
    <2>5. InComposer' = InComposer
        BY <2>1 DEF InComposer, MarkUploading
    <2>6. \A g \in batch : item'[g] = "uploading"
        BY <2>3, <2>4 DEF InComposer
    <2>7. UNCHANGED <<step, fileOf, linked>>
        BY <2>1 DEF uploadVars
    <2> QED
        BY <1>0, <2>1, <2>2, <2>4, <2>5, <2>6, <2>7 DEF ComposerInv
<1>16. CASE Refused
    BY <1>0, <1>16, ComposerIdle DEF Refused, composerVars, TypeOK
<1> QED
    BY <1>2, <1>3, <1>4, <1>5, <1>6, <1>7, <1>8, <1>9, <1>10, <1>11, <1>12, <1>13, <1>14, <1>15, <1>16
    DEF Next, Composer, Server, UploadRefused, UploadLost, BatchUploaded, Appended, RequestLost

-----------------------------------------------------------------------------
(* Types *)

LEMMA ClosedComposer ==
    ASSUME TypeOK, EndSubmission
    PROVE  phase' = "idle" /\ batch' \subseteq Files /\ text' \in Drafts
           /\ waiting' \in Uploads \cup {NoUpload}
BY ConstantsAssumption DEF TypeOK, EndSubmission

LEMMA StoreTyped ==
    ASSUME IInv, phase = "recording", Store
    PROVE  /\ lock' = lock /\ objects' = objects
           /\ messageOf' \in [Uploads -> Keys \cup {NoMessage}]
           /\ stored' \subseteq Keys
           /\ request' \in [Keys -> [text : Drafts, rows : SUBSET Uploads]]
           /\ initial' \in Keys \cup {NoMessage}
<1>1. TypeOK
    BY DEF IInv
<1>2. SentRows \in SUBSET Uploads
    BY SentRowsTyped
<1>3. Hashed(text, SentRows) \in [text : Drafts, rows : SUBSET Uploads]
    BY <1>1, <1>2 DEF Hashed, TypeOK
<1> HIDE DEF SentRows
<1> QED
    BY <1>1, <1>3 DEF Store, TypeOK

LEMMA CatchTyped ==
    ASSUME TypeOK, Catch
    PROVE  /\ form' = form /\ row' = row /\ draft' = draft /\ key' = key
           /\ phase' = "idle" /\ batch' \subseteq Files /\ text' \in Drafts
           /\ waiting' \in Uploads \cup {NoUpload}
           /\ item' \in [Files -> {"out", "ready", "uploading", "error"}]
<1>1. item' \in [Files -> {"out", "ready", "uploading", "error"}]
    BY DEF Catch, TypeOK
<1> QED
    BY <1>1, ClosedComposer DEF Catch

LEMMA SucceedTyped ==
    ASSUME TypeOK, key < MaxKeys, Succeed
    PROVE  /\ form' \in {"new", "conversation"}
           /\ item' \in [Files -> {"out", "ready", "uploading", "error"}]
           /\ row' \in [Files -> Uploads \cup {NoUpload}]
           /\ draft' \in Drafts /\ key' \in Keys
           /\ phase' = "idle" /\ batch' \subseteq Files /\ text' \in Drafts
           /\ waiting' \in Uploads \cup {NoUpload}
           /\ delivered' \subseteq [key : Keys, text : Drafts, files : SUBSET Files]
<1>1. key' \in Keys
    BY ConstantsAssumption DEF TypeOK, Succeed, Keys
<1>2. delivered' \subseteq [key : Keys, text : Drafts, files : SUBSET Files]
    BY DEF TypeOK, Succeed
<1>3. /\ item' = [f \in Files |-> "out"] /\ row' = [f \in Files |-> NoUpload]
      /\ draft' = NoText /\ form' = "conversation"
    BY DEF Succeed
<1>4. /\ item' \in [Files -> {"out", "ready", "uploading", "error"}]
      /\ row' \in [Files -> Uploads \cup {NoUpload}]
    BY <1>3
<1>5. EndSubmission
    BY DEF Succeed
<1> QED
    BY <1>1, <1>2, <1>3, <1>4, <1>5, ClosedComposer, ConstantsAssumption

LEMMA MarkTyped ==
    ASSUME TypeOK
    PROVE  MarkUploading \in [Files -> {"out", "ready", "uploading", "error"}]
BY DEF MarkUploading, TypeOK

LEMMA TypedStep ==
    ASSUME IInv, [Next]_vars
    PROVE  TypeOK'
<1>0. TypeOK /\ ComposerInv
    BY DEF IInv
<1> USE DEF composerVars, submitVars, uploadVars, rowVars, requestVars
<1>1. CASE UNCHANGED vars
    BY <1>0, <1>1 DEF vars, TypeOK
<1>2. ASSUME NEW f \in Files, AddFile(f) PROVE TypeOK'
    BY <1>0, <1>2 DEF AddFile, TypeOK
<1>3. ASSUME NEW f \in Files, RemoveFile(f) PROVE TypeOK'
    BY <1>0, <1>3 DEF RemoveFile, TypeOK
<1>4. ASSUME NEW f \in Files, SkipUploaded(f) PROVE TypeOK'
    BY <1>0, <1>4 DEF SkipUploaded, TypeOK
<1>5. ASSUME NEW f \in Files, SendUpload(f) PROVE TypeOK'
    <2>1. used' \in 0..MaxUploads /\ used' \in Uploads
        BY <1>0, <1>5, ConstantsAssumption DEF SendUpload, TypeOK, Uploads
    <2>2. step' \in [Uploads -> {"unsent", "sent", "admitted", "placed", "stored", "unsure",
                               "refused", "failed"}]
        BY <1>0, <1>5, <2>1 DEF SendUpload, TypeOK
    <2>3. fileOf' \in [Uploads -> Files \cup {NoFile}]
        BY <1>0, <1>5, <2>1 DEF SendUpload, TypeOK
    <2>4. linked' \in [Uploads -> BOOLEAN]
        BY <1>0, <1>5, <2>1 DEF SendUpload, TypeOK
    <2> QED
        BY <1>0, <1>5, <2>1, <2>2, <2>3, <2>4 DEF SendUpload, TypeOK
<1>6. ASSUME NEW d \in Drafts, Edit(d) PROVE TypeOK'
    BY <1>0, <1>6 DEF Edit, TypeOK
<1>7. CASE Submit
    <2>1. item' \in [Files -> {"out", "ready", "uploading", "error"}]
        BY <1>0, <1>7, MarkTyped DEF Submit, TypeOK
    <2>2. batch' \subseteq Files /\ phase' \in {"idle", "recording", "uploading"}
        BY <1>7 DEF Submit, InComposer
    <2> QED
        BY <1>0, <1>7, <2>1, <2>2 DEF Submit, TypeOK
<1>8. CASE Reload
    <2>1. /\ form' \in {"new", "conversation"} /\ draft' \in Drafts /\ key' \in Keys
          /\ EndSubmission
          /\ item' = [f \in Files |-> "out"] /\ row' = [f \in Files |-> NoUpload]
          /\ UNCHANGED <<uploadVars, rowVars, requestVars, delivered, faults>>
        BY <1>0, <1>8, ConstantsAssumption DEF Reload, TypeOK, Keys
    <2> QED
        BY <1>0, <2>1, ClosedComposer DEF TypeOK
<1>9. CASE UploadAnswered
    <2>1. waiting \in Uploads
        BY <1>0, <1>9 DEF UploadAnswered, TypeOK
    <2>2. /\ item' \in [Files -> {"out", "ready", "uploading", "error"}]
          /\ row' \in [Files -> Uploads \cup {NoUpload}]
        BY <1>0, <1>9, <2>1 DEF UploadAnswered, TypeOK
    <2> QED
        BY <1>0, <1>9, <2>2 DEF UploadAnswered, TypeOK
<1>10. CASE UploadRefused
    BY <1>0, <1>10, CatchTyped DEF UploadRefused, TypeOK
<1>11. CASE UploadLost
    BY <1>0, <1>11, CatchTyped, ConstantsAssumption DEF UploadLost, TypeOK
<1>12. CASE BatchUploaded
    <2>1. CASE form = "new"
        <3>1. Succeed /\ key < MaxKeys /\ UNCHANGED <<uploadVars, rowVars, requestVars, faults>>
            BY <1>0, <1>12, <2>1 DEF BatchUploaded, Idle, ComposerInv
        <3> QED
            BY <1>0, <3>1, SucceedTyped DEF TypeOK
    <2>2. CASE form # "new"
        BY <1>0, <1>12, <2>2 DEF BatchUploaded, TypeOK
    <2> QED
        BY <2>1, <2>2
<1>13. ASSUME NEW u \in Uploads, Admit(u) PROVE TypeOK'
    BY <1>0, <1>13 DEF Admit, TypeOK
<1>14. ASSUME NEW u \in Uploads, RefuseUpload(u) PROVE TypeOK'
    BY <1>0, <1>14 DEF RefuseUpload, TypeOK
<1>15. ASSUME NEW u \in Uploads, PutObject(u) PROVE TypeOK'
    BY <1>0, <1>15 DEF PutObject, TypeOK
<1>16. ASSUME NEW u \in Uploads, CommitRow(u) PROVE TypeOK'
    <2>1. messageOf' \in [Uploads -> Keys \cup {NoMessage}]
        BY <1>0, <1>16, TargetTyped DEF CommitRow, TypeOK
    <2> QED
        BY <1>0, <1>16, <2>1, ConstantsAssumption DEF CommitRow, RemoveObject, TypeOK
<1>17. ASSUME NEW u \in Uploads, FailUpload(u) PROVE TypeOK'
    BY <1>0, <1>17, ConstantsAssumption DEF FailUpload, RemoveObject, TypeOK
<1>18. CASE Created
    <2>1. item' \in [Files -> {"out", "ready", "uploading", "error"}]
        BY <1>0, <1>18, MarkTyped DEF Created
    <2>2. CASE Store
        BY <1>0, <1>18, <2>1, <2>2, StoreTyped DEF Created, TypeOK
    <2>3. CASE Replay
        BY <1>0, <1>18, <2>1, <2>3 DEF Created, Replay, TypeOK
    <2> QED
        BY <1>18, <2>2, <2>3 DEF Created
<1>19. CASE Appended
    <2>1. /\ Succeed /\ key < MaxKeys /\ phase = "recording"
          /\ UNCHANGED <<uploadVars, faults>>
        BY <1>0, <1>19 DEF Appended, ComposerInv
    <2>2. CASE Store
        BY <1>0, <2>1, <2>2, SucceedTyped, StoreTyped DEF TypeOK
    <2>3. CASE Replay
        BY <1>0, <2>1, <2>3, SucceedTyped DEF Replay, TypeOK
    <2> QED
        BY <1>19, <2>2, <2>3 DEF Appended
<1>20. CASE Refused
    BY <1>0, <1>20, ClosedComposer DEF Refused, TypeOK
<1>21. CASE RequestLost
    <2>1. /\ Catch /\ phase = "recording" /\ faults' = faults + 1 /\ faults < MaxFaults
          /\ UNCHANGED <<uploadVars, delivered>>
        BY <1>21 DEF RequestLost
    <2>2. faults' \in 0..MaxFaults
        BY <1>0, <2>1, ConstantsAssumption DEF TypeOK
    <2>3. CASE Store
        BY <1>0, <2>1, <2>2, <2>3, CatchTyped, StoreTyped DEF TypeOK
    <2>4. CASE UNCHANGED <<rowVars, requestVars>>
        BY <1>0, <2>1, <2>2, <2>4, CatchTyped DEF TypeOK
    <2> QED
        BY <1>21, <2>3, <2>4 DEF RequestLost
<1> QED
    BY <1>1, <1>2, <1>3, <1>4, <1>5, <1>6, <1>7, <1>8, <1>9, <1>10, <1>11, <1>12, <1>13,
       <1>14, <1>15, <1>16, <1>17, <1>18, <1>19, <1>20, <1>21
    DEF Next, Composer, Server

-----------------------------------------------------------------------------
(* Submissions *)

\* When a submission is recorded as delivered.
LEMMA DeliveredEffects ==
    ASSUME [Next]_vars
    PROVE  delivered' = delivered \/ (Succeed /\ (BatchUploaded \/ Appended))
<1>1. CASE UNCHANGED vars
    BY <1>1 DEF vars
<1>2. CASE Composer
    BY <1>2 DEF Composer, AddFile, RemoveFile, SkipUploaded, SendUpload, Edit, Submit,
        Reload, UploadAnswered, UploadRefused, UploadLost, BatchUploaded
<1>3. CASE Server
    BY <1>3 DEF Server, Admit, RefuseUpload, PutObject, CommitRow, FailUpload,
        Created, Appended, Refused, RequestLost
<1> QED
    BY <1>1, <1>2, <1>3 DEF Next

LEMMA DeliveredStep ==
    ASSUME IInv, TypeOK', [Next]_vars
    PROVE  DeliveredInv'
<1>0. /\ key \in Nat /\ \A d \in delivered : d.key \in Nat /\ d.key < key
    BY DEF IInv, TypeOK, Keys, DeliveredInv
<1>1. CASE Succeed
    <2>1. /\ key' = key + 1
          /\ delivered' = delivered \cup {[key |-> key, text |-> text, files |-> batch]}
        BY <1>1 DEF Succeed
    <2> QED
        BY <1>0, <2>1 DEF DeliveredInv
<1>2. CASE delivered' = delivered /\ UNCHANGED <<form, key>>
    BY <1>0, <1>2 DEF DeliveredInv
<1>3. CASE delivered' = delivered /\ Reload
    <2>1. key' = key + 1
        BY <1>3 DEF Reload
    <2> QED
        BY <1>0, <1>3, <2>1 DEF DeliveredInv
<1> QED
    BY <1>1, <1>2, <1>3, DeliveredEffects, KeyEffects

\* A stored request and its message stay, but for the initial message, which may get files.
LEMMA StoredRequestKept ==
    ASSUME IInv, [Next]_vars, NEW k \in stored
    PROVE  /\ k \in stored' /\ request'[k] = request[k]
           /\ k # initial' <=> k # initial
           /\ \/ Attached(k)' = Attached(k)
              \/ k = initial /\ Attached(k) \subseteq Attached(k)'
<1>0. TypeOK /\ InitialInv /\ ClaimInv
    BY DEF IInv
<1>1. k \in Keys /\ k # NoMessage
    BY <1>0 DEF TypeOK, Keys, NoMessage
<1>2. /\ k \in stored' /\ request'[k] = request[k]
      /\ k # initial' <=> k # initial
    <2>1. CASE UNCHANGED requestVars
        BY <2>1 DEF requestVars
    <2>2. CASE StoresRequest
        <3>1. /\ key \notin stored /\ stored' = stored \cup {key}
              /\ request' = [request EXCEPT ![key] = Hashed(text, SentRows)]
              /\ initial' = initial \/ (form = "new" /\ initial' = key)
            BY <2>2 DEF StoresRequest, Store
        <3>2. k # key
            BY <3>1
        <3>3. form = "new" => initial \in {NoMessage, key}
            BY <1>0 DEF InitialInv
        <3> QED
            BY <1>0, <1>1, <3>1, <3>2, <3>3 DEF TypeOK, InitialInv
    <2> QED
        BY <2>1, <2>2, RequestEffects
<1>3. CASE \A m : Attached(m)' = Attached(m)
    BY <1>2, <1>3
<1>4. ASSUME NEW u \in Uploads, CommitRow(u)
      PROVE  \/ Attached(k)' = Attached(k)
             \/ k = initial /\ Attached(k) \subseteq Attached(k)'
    <2>1. Attached(k)' = IF k = Target(u) THEN Attached(k) \cup {u} ELSE Attached(k)
        BY <1>0, <1>4, CommittedRow
    <2>2. k = Target(u) => k = initial
        BY <1>1, TargetTyped
    <2> QED
        BY <2>1, <2>2
<1>5. CASE StoresRequest /\ form = "conversation"
    <2>1. SentRows \in SUBSET Uploads /\ key \notin stored
        BY <1>5, SentRowsTyped DEF StoresRequest, Store
    <2>2. Attached(k)' = Attached(k)
        BY <1>0, <1>1, <1>5, <2>1, ClaimedRows
    <2> QED
        BY <1>2, <2>2
<1> QED
    BY <1>2, <1>3, <1>4, <1>5, RowEffects

\* The object of a row stays in the store.
LEMMA RowObjectKept ==
    ASSUME IInv, [Next]_vars, NEW u \in objects, HasRow(u)
    PROVE  u \in objects'
<1> USE DEF IInv
<1>1. CASE UNCHANGED <<uploadVars, rowVars, requestVars>>
    BY <1>1 DEF rowVars
<1>2. ASSUME NEW f \in Files, SendUpload(f) PROVE objects' = objects
    BY <1>2 DEF SendUpload, rowVars
<1>3. ASSUME NEW v \in Uploads,
             Admit(v) \/ RefuseUpload(v) \/ PutObject(v) \/ CommitRow(v) \/ FailUpload(v)
      PROVE  u \in objects'
    BY <1>3 DEF Admit, RefuseUpload, PutObject, CommitRow, FailUpload, RemoveObject, HasRow,
        rowVars
<1>4. CASE StoresRequest
    BY <1>4 DEF StoresRequest, Store
<1> QED
    BY <1>1, <1>2, <1>3, <1>4, ServerEffects

\* So a submission that has arrived stays so.
LEMMA ArrivedKept ==
    ASSUME IInv, [Next]_vars, NEW d \in delivered
    PROVE  Arrived(d)'
<1>1. Arrived(d) /\ d.key \in stored
    BY DEF IInv, SubmissionArrived, Arrived
<1> DEFINE k == d.key
<1>2. /\ k \in stored' /\ request'[k] = request[k]
      /\ k # initial' <=> k # initial
      /\ \/ Attached(k)' = Attached(k)
         \/ k = initial /\ Attached(k) \subseteq Attached(k)'
    BY <1>1, StoredRequestKept
<1>3. ASSUME NEW u \in Attached(k) PROVE fileOf'[u] = fileOf[u]
    BY <1>3, UploadKept, StoredWasSent DEF Attached, HasRow
<1>4. Attached(k) \subseteq Attached(k)'
    BY <1>2
<1>5. Attached(k) \cap objects \subseteq objects'
    BY RowObjectKept DEF Attached
<1>6. FilesOf(Attached(k) \cap objects) \subseteq FilesOf(Attached(k) \cap objects)'
    BY <1>3, <1>4, <1>5 DEF FilesOf
<1>7. ASSUME k # initial'
      PROVE  /\ FilesOf(Attached(k))' \subseteq d.files
             /\ \A u, v \in Attached(k)' : fileOf'[u] = fileOf'[v] => u = v
    <2>1. Attached(k)' = Attached(k)
        BY <1>2, <1>7
    <2>2. FilesOf(Attached(k))' = FilesOf(Attached(k))
        BY <1>3, <2>1 DEF FilesOf
    <2>3. /\ FilesOf(Attached(k)) \subseteq d.files
          /\ \A u, v \in Attached(k) : fileOf[u] = fileOf[v] => u = v
        BY <1>1, <1>2, <1>7 DEF Arrived
    <2> QED
        BY <1>3, <2>1, <2>2, <2>3
<1> QED
    BY <1>1, <1>2, <1>6, <1>7 DEF Arrived

\* The new-project form has uploaded its batch to the initial message.
LEMMA NewArrives ==
    ASSUME IInv, BatchUploaded, form = "new",
           NEW d, d = [key |-> key, text |-> text, files |-> batch]
    PROVE  Arrived(d)'
<1>0. TypeOK /\ InitialInv /\ ComposerInv /\ SendInv /\ ObjectInv
    BY DEF IInv
<1>1. /\ phase = "uploading" /\ Unfinished = {}
      /\ UNCHANGED <<uploadVars, rowVars, requestVars>>
    BY DEF BatchUploaded, Idle
<1>2. key \in stored /\ request[key].text = text /\ initial = key
    BY <1>0, <1>1 DEF ComposerInv, InitialInv
<1>3. d.key = key /\ d.text = text /\ d.files = batch
    OBVIOUS
<1>4. ASSUME NEW f \in batch PROVE f \in FilesOf(Attached(d.key) \cap objects)
    <2>1. f \in Files /\ row[f] # NoUpload
        BY <1>0, <1>1 DEF TypeOK, ComposerInv, Unfinished
    <2>2. /\ row[f] \in Uploads /\ step[row[f]] = "stored" /\ fileOf[row[f]] = f
          /\ linked[row[f]]
        BY <1>0, <2>1 DEF TypeOK, ComposerInv
    <2>3. row[f] \in Attached(d.key) \cap objects
        BY <1>0, <1>2, <1>3, <2>2 DEF SendInv, Attached, HasRow, ObjectInv
    <2> QED
        BY <2>2, <2>3 DEF FilesOf
<1>5. /\ stored' = stored /\ request' = request /\ initial' = initial
      /\ FilesOf(Attached(d.key) \cap objects)' = FilesOf(Attached(d.key) \cap objects)
    BY <1>1 DEF uploadVars, rowVars, requestVars, Attached, HasRow, FilesOf
<1>6. d.files \subseteq FilesOf(Attached(d.key) \cap objects)'
    BY <1>3, <1>4, <1>5
<1> QED
    BY <1>2, <1>3, <1>5, <1>6 DEF Arrived

\* The conversation view has appended a message with its batch, now or when an earlier
\* answer was lost.
LEMMA AppendArrives ==
    ASSUME IInv, Appended,
           NEW d, d = [key |-> key, text |-> text, files |-> batch]
    PROVE  Arrived(d)'
<1>0. TypeOK /\ InitialInv /\ ClaimInv /\ ComposerInv
    BY DEF IInv
<1>1. /\ phase = "recording" /\ form = "conversation" /\ Accepted /\ UNCHANGED uploadVars
      /\ (Store \/ Replay)
    BY DEF Appended
<1>2. d.key = key /\ d.text = text /\ d.files = batch /\ key \in Keys
    BY <1>0 DEF TypeOK
<1>3. SentRows \in SUBSET Uploads
    BY <1>1, SentRowsTyped
<1>4. /\ d.key \in stored' /\ request'[d.key].text = text /\ initial' # d.key
      /\ Attached(d.key)' = SentRows
    <2>1. CASE Store
        <3>1. StoresRequest
            BY <1>1, <2>1 DEF StoresRequest
        <3>2. \A m \in Keys : Attached(m)' = IF m = key THEN SentRows ELSE Attached(m)
            BY <1>0, <1>1, <1>3, <3>1, ClaimedRows
        <3>3. /\ stored' = stored \cup {key} /\ initial' = initial
              /\ request' = [request EXCEPT ![key] = Hashed(text, SentRows)]
            BY <1>1, <2>1 DEF Store
        <3>4. request'[key].text = text
            BY <1>0, <1>2, <3>3 DEF TypeOK, Hashed
        <3> QED
            BY <1>0, <1>1, <1>2, <3>2, <3>3, <3>4 DEF InitialInv
    <2>2. CASE Replay
        <3>1. /\ key \in stored /\ request[key] = Hashed(text, SentRows) /\ initial # key
            BY <1>0, <1>1, <2>2 DEF Replay, Accepted, InitialInv
        <3>2. request[key].text = text /\ Attached(d.key) = SentRows
            BY <1>0, <1>2, <3>1 DEF ClaimInv, Hashed
        <3>3. Attached(d.key)' = Attached(d.key)
            BY <1>1, <2>2, AttachedPrimed DEF Replay, rowVars, uploadVars
        <3> QED
            BY <1>2, <2>2, <3>1, <3>2, <3>3 DEF Replay, requestVars
    <2> QED
        BY <1>1, <2>1, <2>2
<1>5. SentRows = {row[f] : f \in batch}
    BY <1>1 DEF SentRows
<1>6. \A f \in batch : fileOf'[row[f]] = f
    BY <1>0, <1>1 DEF ComposerInv, TypeOK, uploadVars
<1>7. SentRows \subseteq objects'
    <2>1. \A f \in batch : f \in Files /\ row[f] # NoUpload
        BY <1>0, <1>1 DEF ComposerInv, TypeOK
    <2>2. \A f \in batch : row[f] \in Uploads /\ step[row[f]] = "stored"
        BY <1>0, <2>1 DEF ComposerInv, TypeOK
    <2>3. SentRows \subseteq objects
        BY <1>5, <2>2 DEF IInv, ObjectInv
    <2> QED
        BY <1>1, <2>3 DEF Store, Replay, rowVars
<1>8. \A u, v \in Attached(d.key)' : fileOf'[u] = fileOf'[v] => u = v
    BY <1>4, <1>5, <1>6
<1>9. FilesOf(Attached(d.key))' = batch /\ FilesOf(Attached(d.key) \cap objects)' = batch
    BY <1>4, <1>5, <1>6, <1>7 DEF FilesOf
<1> QED
    BY <1>2, <1>4, <1>8, <1>9 DEF Arrived

LEMMA ArrivedStep ==
    ASSUME IInv, [Next]_vars
    PROVE  SubmissionArrived'
<1>1. ASSUME NEW d \in delivered', d \notin delivered PROVE Arrived(d)'
    <2>1. /\ Succeed /\ (BatchUploaded \/ Appended)
          /\ d = [key |-> key, text |-> text, files |-> batch]
        BY <1>1, DeliveredEffects DEF Succeed
    <2>2. CASE BatchUploaded /\ form = "new"
        BY <2>1, <2>2, NewArrives
    <2>3. CASE BatchUploaded /\ form # "new"
        <3>1. delivered' = delivered
            BY <2>3 DEF BatchUploaded
        <3> QED
            BY <1>1, <3>1
    <2>4. CASE Appended
        BY <2>1, <2>4, AppendArrives
    <2> QED
        BY <2>1, <2>2, <2>3, <2>4
<1>2. ASSUME NEW d \in delivered PROVE Arrived(d)'
    BY ArrivedKept
<1> QED
    BY <1>1, <1>2 DEF SubmissionArrived

-----------------------------------------------------------------------------
(* Theorems *)

\* The inductive invariant holds in every reachable state.
THEOREM Invariance == Spec => []IInv
<1>1. Init => IInv
    <2> SUFFICES ASSUME Init PROVE IInv
        OBVIOUS
    <2>1. TypeOK
        BY ConstantsAssumption DEF Init, TypeOK, Keys, Uploads, NoUpload, NoMessage
    <2>2. \A m : Attached(m) = {}
        BY DEF Init, Attached, HasRow
    <2>3. LimitHolds
        BY <2>2, FS_EmptySet, ConstantsAssumption DEF LimitHolds
    <2>4. LockInv
        BY DEF Init, LockInv, Uploads, NoUpload
    <2>5. ObjectInv /\ SendInv
        BY DEF Init, ObjectInv, SendInv
    <2>6. InitialInv /\ ClaimInv /\ ComposerInv /\ DeliveredInv /\ SubmissionArrived
        BY DEF Init, InitialInv, ClaimInv, ComposerInv, DeliveredInv, SubmissionArrived,
            NoMessage, NoUpload
    <2> QED
        BY <2>1, <2>3, <2>4, <2>5, <2>6 DEF IInv
<1>2. IInv /\ [Next]_vars => IInv'
    <2> SUFFICES ASSUME IInv, [Next]_vars PROVE IInv'
        OBVIOUS
    <2>1. TypeOK'
        BY TypedStep
    <2>2. LockInv' /\ ObjectInv' /\ SendInv' /\ InitialInv'
        BY <2>1, LockStep, ObjectStep, SendStep, InitialStep
    <2>3. ClaimInv' /\ ComposerInv' /\ DeliveredInv' /\ LimitHolds'
        BY <2>1, ClaimStep, ComposerStep, DeliveredStep, LimitStep
    <2>4. SubmissionArrived'
        BY ArrivedStep
    <2> QED
        BY <2>1, <2>2, <2>3, <2>4 DEF IInv
<1> QED
    BY <1>1, <1>2, PTL DEF Spec

\* Every reachable state is well typed.
THEOREM AttachmentsTyped == Spec => []TypeOK
<1>1. IInv => TypeOK
    BY DEF IInv
<1> QED
    BY <1>1, Invariance, PTL

\* No message has more attachments than the limit, nor are there more unclaimed ones,
\* whatever uploads and appends overlap, fail or go on after their answer was lost.
THEOREM LimitIsKept == Spec => []LimitHolds
<1>1. IInv => LimitHolds
    BY DEF IInv
<1> QED
    BY <1>1, Invariance, PTL

\* The message of a submission that succeeded has its text and, in the store, all its
\* files; a message of the conversation view has no other file.
THEOREM SubmissionsArrive == Spec => []SubmissionArrived
<1>1. IInv => SubmissionArrived
    BY DEF IInv
<1> QED
    BY <1>1, Invariance, PTL

\* A row lacks its object only if its commit was not acknowledged, and then no message of
\* the conversation view carries it.
THEOREM RowsKeepObjects == Spec => []RowsHaveObjects
<1>1. ASSUME IInv PROVE RowsHaveObjects
    <2>1. TypeOK /\ ObjectInv /\ ClaimInv
        BY <1>1 DEF IInv
    <2>2. \A k \in stored \ {initial} : k # NoMessage /\ k # initial
        BY <2>1 DEF TypeOK, Keys, NoMessage
    <2>3. \A k \in stored \ {initial} : \A u \in Attached(k) : step[u] = "stored"
        BY <2>1, <2>2 DEF ClaimInv, Attached, HasRow
    <2> QED
        BY <2>1, <2>3 DEF ObjectInv, RowsHaveObjects, HasRow, Attached
<1> QED
    BY <1>1, Invariance, PTL
=============================================================================
