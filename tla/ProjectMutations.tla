--------------------------- MODULE ProjectMutations ---------------------------
(***************************************************************************)
(* The owner's mutations of projects under idempotency keys: each request  *)
(* is one READ COMMITTED transaction that claims its key, reads the        *)
(* project, writes, stores its response under the key and commits.         *)
(* Duplicates of a request, sent while it is in flight or after a lost     *)
(* answer, and other requests for the same project fall between the steps. *)
(*                                                                         *)
(* Keys are those of one user and workspace; a key belongs to one          *)
(* operation (the unique index covers both).  A request the rate limiter   *)
(* or the validation refuses never gets here.                              *)
(***************************************************************************)
EXTENDS Naturals, Sequences, FiniteSets

CONSTANTS
    Keys,           \* idempotency keys
    OpOf,           \* the operation each key is used for
    Contents,       \* request texts and titles
    Slots,          \* requests the web processes handle at once
    NoSlot,         \* no transaction holds the key
    MaxProjects,    \* bound: projects ever created
    MaxRequests     \* bound: requests ever sent, duplicates included

Ops == {"create", "rename", "archive", "append", "start"}

ASSUME ConstantsAssumption ==
    /\ Keys # {}
    /\ OpOf \in [Keys -> Ops]
    /\ Contents # {}
    /\ NoSlot \notin Slots
    /\ MaxProjects \in Nat
    /\ MaxRequests \in Nat

Projects == 1..MaxProjects
NoProject == 0          \* the target of a create request

\* An archive request carries no content, and a start its kind of run.
NoContent == CHOOSE c \in Contents : TRUE

Requests == [key : Keys, target : Projects \cup {NoProject}, content : Contents]

Entries == [request : Requests, project : Projects]

VARIABLES
    \* table projects, in creation order: "absent", "active" or "archived", and title
    status, title,
    \* user messages of the project's conversation, whether it has an active run
    messages, running,
    \* table idempotency_keys: state, transaction holding an uncommitted row,
    \* request hashed, response (its project; for a start, the run's project)
    keyState, holder, hash, response,
    \* table audit_logs: the request of each committed mutation and its project
    audit,
    \* request slots: control point, request, answer: result code and project id
    pc, req, code, answer,
    \* requests sent so far
    sent

projectVars == <<status, title, messages, running>>
keyVars == <<keyState, holder, hash, response>>
slotVars == <<pc, req, code, answer>>
vars == <<projectVars, keyVars, audit, slotVars, sent>>

Codes == {"ok", "PROJECT_ARCHIVED", "RUN_ALREADY_ACTIVE", "IDEMPOTENCY_CONFLICT", "INTERNAL_ERROR"}

Op(s) == OpOf[req[s].key]

Init ==
    /\ status = [p \in Projects |-> "absent"]
    /\ title = [p \in Projects |-> NoContent]
    /\ messages = [p \in Projects |-> <<>>]
    /\ running = [p \in Projects |-> FALSE]
    /\ keyState = [k \in Keys |-> "free"]
    /\ holder = [k \in Keys |-> NoSlot]
    /\ hash = [k \in Keys |-> CHOOSE r \in Requests : r.key = k]
    /\ response = [k \in Keys |-> NoProject]
    /\ audit = <<>>
    /\ pc = [s \in Slots |-> "idle"]
    /\ req = [s \in Slots |-> CHOOSE r \in Requests : TRUE]
    /\ code = [s \in Slots |-> "ok"]
    /\ answer = [s \in Slots |-> NoProject]
    /\ sent = 0

-----------------------------------------------------------------------------
(* Clients *)

\* A request arrives: a first one, a double click, a retry, or an edited retry.
Send(s, r) ==
    /\ pc[s] = "idle"
    /\ sent < MaxRequests
    /\ OpOf[r.key] = "create" <=> r.target = NoProject
    /\ r.target # NoProject => status[r.target] # "absent"
    /\ OpOf[r.key] = "archive" => r.content = NoContent
    /\ sent' = sent + 1
    /\ pc' = [pc EXCEPT ![s] = "received"]
    /\ req' = [req EXCEPT ![s] = r]
    /\ UNCHANGED <<projectVars, keyVars, audit, code, answer>>

\* The answer reaches the client, or is lost.
Deliver(s) ==
    /\ pc[s] = "answered"
    /\ pc' = [pc EXCEPT ![s] = "idle"]
    /\ UNCHANGED <<projectVars, keyVars, audit, req, code, answer, sent>>

-----------------------------------------------------------------------------
(* The transaction of a request *)

Answer(s, p) ==
    /\ pc' = [pc EXCEPT ![s] = "answered"]
    /\ code' = [code EXCEPT ![s] = "ok"]
    /\ answer' = [answer EXCEPT ![s] = p]

Refuse(s, failure) ==
    /\ pc' = [pc EXCEPT ![s] = "answered"]
    /\ code' = [code EXCEPT ![s] = failure]
    /\ UNCHANGED answer

\* A failure returned instead of thrown: the transaction goes on with its claim.
KeepClaim(k) == UNCHANGED keyVars

\* Rolling back removes the uncommitted key.
Rollback(k) ==
    /\ keyState' = [keyState EXCEPT ![k] = "free"]
    /\ holder' = [holder EXCEPT ![k] = NoSlot]
    /\ UNCHANGED <<hash, response>>

\* beginIdempotent: insert the key; an uncommitted row of another transaction
\* blocks the insert, a committed one is compared and replayed.
ClaimKey(s) ==
    /\ keyState[req[s].key] = "free"
    /\ keyState' = [keyState EXCEPT ![req[s].key] = "held"]
    /\ holder' = [holder EXCEPT ![req[s].key] = s]
    /\ hash' = [hash EXCEPT ![req[s].key] = req[s]]
    /\ pc' = [pc EXCEPT ![s] = "claimed"]
    /\ UNCHANGED <<response, code, answer>>

\* A wrong ReplayKey, for a mutant: a repeated create is answered with the newest project.
ReplayNewest(s) ==
    /\ keyState[req[s].key] = "stored"
    /\ IF hash[req[s].key] # req[s] THEN Refuse(s, "IDEMPOTENCY_CONFLICT")
       ELSE \E p \in Projects :
                /\ IF Op(s) = "create" THEN \A q \in Projects : status[q] # "absent" <=> q <= p
                                       ELSE p = response[req[s].key]
                /\ Answer(s, p)
    /\ UNCHANGED keyVars

ReplayKey(s) ==
    /\ keyState[req[s].key] = "stored"
    /\ IF hash[req[s].key] = req[s] THEN Answer(s, response[req[s].key])
                                    ELSE Refuse(s, "IDEMPOTENCY_CONFLICT")
    /\ UNCHANGED keyVars

\* A key looked up first and inserted when the mutation commits.
LookupKeyOnly(s) ==
    /\ pc[s] = "received"
    /\ \/ /\ keyState[req[s].key] # "stored"
          /\ pc' = [pc EXCEPT ![s] = "claimed"]
          /\ hash' = [hash EXCEPT ![req[s].key] = req[s]]
          /\ UNCHANGED <<keyState, holder, response, code, answer>>
       \/ ReplayKey(s)
    /\ UNCHANGED <<projectVars, audit, req, sent>>

BeginIdempotent(s) ==
    /\ pc[s] = "received"
    /\ ClaimKey(s) \/ ReplayKey(s)
    /\ UNCHANGED <<projectVars, audit, req, sent>>

\* The project row is read without a lock; an archived one takes no mutation.
CheckProject(s) ==
    /\ pc[s] = "claimed"
    /\ IF Op(s) = "create" \/ status[req[s].target] = "active"
       THEN /\ pc' = [pc EXCEPT ![s] = "checked"]
            /\ UNCHANGED <<keyVars, code, answer>>
       ELSE /\ Rollback(req[s].key)
            /\ Refuse(s, "PROJECT_ARCHIVED")
    /\ UNCHANGED <<projectVars, audit, req, sent>>

\* What a mutation writes, and the project id it answers with.
CreateProject(s, p) ==
    /\ status[p] = "absent"
    /\ \A q \in Projects : q < p => status[q] # "absent"
    /\ status' = [status EXCEPT ![p] = "active"]
    /\ title' = [title EXCEPT ![p] = req[s].content]
    /\ messages' = [messages EXCEPT ![p] = <<req[s].content>>]
    /\ UNCHANGED running

RenameProject(s, p) ==
    /\ title' = [title EXCEPT ![p] = req[s].content]
    /\ UNCHANGED <<status, messages, running>>

DeleteProject(p) ==
    /\ status' = [status EXCEPT ![p] = "deleted"]
    /\ UNCHANGED <<title, messages, running>>

ArchiveProject(p) ==
    /\ status' = [status EXCEPT ![p] = "archived"]
    /\ UNCHANGED <<title, messages, running>>

AppendRequirement(s, p) ==
    /\ messages' = [messages EXCEPT ![p] = Append(@, req[s].content)]
    /\ UNCHANGED <<status, title, running>>

\* runs_one_active_per_project refuses a second active run.
StartRun(p) ==
    /\ ~running[p]
    /\ running' = [running EXCEPT ![p] = TRUE]
    /\ UNCHANGED <<status, title, messages>>

Mutate(s, p) ==
    \/ Op(s) = "create"  /\ CreateProject(s, p)
    \/ Op(s) = "rename"  /\ p = req[s].target /\ RenameProject(s, p)
    \/ Op(s) = "archive" /\ p = req[s].target /\ ArchiveProject(p)
    \/ Op(s) = "append"  /\ p = req[s].target /\ AppendRequirement(s, p)
    \/ Op(s) = "start"   /\ p = req[s].target /\ StartRun(p)

\* completeIdempotent in the same transaction, and its commit.
StoreResponse(s, p) ==
    /\ keyState' = [keyState EXCEPT ![req[s].key] = "stored"]
    /\ holder' = [holder EXCEPT ![req[s].key] = NoSlot]
    /\ response' = [response EXCEPT ![req[s].key] = p]
    /\ UNCHANGED hash

Commit(s) ==
    /\ pc[s] = "checked"
    /\ \E p \in Projects :
        /\ Mutate(s, p)
        /\ StoreResponse(s, p)
        /\ Answer(s, p)
        /\ audit' = Append(audit, [request |-> req[s], project |-> p])
    /\ UNCHANGED <<req, sent>>

RunConflict(s) ==
    /\ pc[s] = "checked"
    /\ Op(s) = "start"
    /\ running[req[s].target]
    /\ Rollback(req[s].key)
    /\ Refuse(s, "RUN_ALREADY_ACTIVE")
    /\ UNCHANGED <<projectVars, audit, req, sent>>

\* The database fails, or the web process dies: PostgreSQL rolls back.
Fail(s) ==
    /\ pc[s] \in {"received", "claimed", "checked"}
    /\ IF pc[s] = "received" THEN UNCHANGED keyVars ELSE Rollback(req[s].key)
    /\ Refuse(s, "INTERNAL_ERROR")
    /\ UNCHANGED <<projectVars, audit, req, sent>>

-----------------------------------------------------------------------------
\* The worker settles the active run.
RunSettles(p) ==
    /\ running[p]
    /\ running' = [running EXCEPT ![p] = FALSE]
    /\ UNCHANGED <<status, title, messages, keyVars, audit, slotVars, sent>>

RequestStep(s) == BeginIdempotent(s) \/ CheckProject(s) \/ Commit(s) \/ RunConflict(s)

Next ==
    \/ \E s \in Slots, r \in Requests : Send(s, r)
    \/ \E s \in Slots : RequestStep(s) \/ Deliver(s) \/ Fail(s)
    \/ \E p \in Projects : RunSettles(p)

Spec == Init /\ [][Next]_vars

-----------------------------------------------------------------------------
(* Properties *)

Phases == {"idle", "received", "claimed", "checked", "answered"}

\* Every variable stays in its type.
TypeOK ==
    /\ status \in [Projects -> {"absent", "active", "archived"}]
    /\ title \in [Projects -> Contents]
    /\ messages \in [Projects -> Seq(Contents)]
    /\ running \in [Projects -> BOOLEAN]
    /\ keyState \in [Keys -> {"free", "held", "stored"}]
    /\ holder \in [Keys -> Slots \cup {NoSlot}]
    /\ hash \in [Keys -> Requests]
    /\ response \in [Keys -> Projects \cup {NoProject}]
    /\ audit \in Seq(Entries)
    /\ pc \in [Slots -> Phases]
    /\ req \in [Slots -> Requests]
    /\ code \in [Slots -> Codes]
    /\ answer \in [Slots -> Projects \cup {NoProject}]
    /\ sent \in 0..MaxRequests

\* A key takes effect at most once, however often its request is sent, in
\* parallel, after lost answers or with other contents.
EffectAtMostOnce ==
    \A i, j \in 1..Len(audit) : audit[i].request.key = audit[j].request.key => i = j

Creates(i) == OpOf[audit[i].request.key] = "create"

\* Request r took effect on project p: the project it named or, for a create, one that no
\* other request created and that begins with its text.
Effective(r, p) ==
    /\ \E i \in 1..Len(audit) : audit[i] = [request |-> r, project |-> p]
    /\ p \in Projects
    /\ status[p] # "absent"
    /\ IF r.target # NoProject
       THEN p = r.target
       ELSE /\ \A i \in 1..Len(audit) : Creates(i) /\ audit[i].project = p => audit[i].request = r
            /\ messages[p] # <<>> /\ messages[p][1] = r.content

\* A request answered with success took effect, as this very request and not as
\* another one under its key, and is answered with the project it took effect on: after
\* a create, the project that this request created.
AnswerIsTheEffect ==
    \A s \in Slots : pc[s] = "answered" /\ code[s] = "ok" =>
        Effective(req[s], answer[s])

\* A key without a transaction in flight is either free for a retry or stored
\* with its effect: no failure leaves it claimed for ever.
NoAbandonedKey ==
    \A k \in Keys : keyState[k] = "held" =>
        \E s \in Slots : holder[k] = s /\ req[s].key = k /\ pc[s] \in {"claimed", "checked"}

-----------------------------------------------------------------------------
(* The inductive invariant behind the safety properties. *)

InTransaction == {"claimed", "checked"}

\* A transaction past its claim holds the key with its own request.
ClaimsHeld ==
    \A s \in Slots : pc[s] \in InTransaction =>
        /\ keyState[req[s].key] = "held"
        /\ holder[req[s].key] = s
        /\ hash[req[s].key] = req[s]

\* A request names a project unless it creates one.
TargetsExist ==
    \A s \in Slots : pc[s] # "idle" =>
        IF Op(s) = "create" THEN req[s].target = NoProject
                            ELSE req[s].target \in Projects /\ status[req[s].target] # "absent"

\* The audit log and the stored keys tell the same story.
AuditMatchesKeys ==
    \A i \in 1..Len(audit) : LET r == audit[i].request IN
        /\ keyState[r.key] = "stored"
        /\ hash[r.key] = r
        /\ status[audit[i].project] # "absent"

\* A stored key has the effect it answers replays with.
StoredHasEffect == \A k \in Keys : keyState[k] = "stored" => Effective(hash[k], response[k])

IInv ==
    /\ TypeOK
    /\ ClaimsHeld
    /\ TargetsExist
    /\ AuditMatchesKeys
    /\ StoredHasEffect
    /\ EffectAtMostOnce
    /\ AnswerIsTheEffect
    /\ NoAbandonedKey
=============================================================================
