---------------------------- MODULE Administration ----------------------------
(***************************************************************************)
(* The administrator's server actions on accounts, projects and runs       *)
(* (retryRunAdminAction is in RunBackbone).  An action reads the actor's   *)
(* account, then runs one READ COMMITTED transaction without row locks:    *)
(* read the target, count the active administrators where the action could *)
(* remove one, write, append a row to the audit ledger, commit.  Other     *)
(* requests, the owners and the worker act between its statements.         *)
(*                                                                         *)
(* The row lock an UPDATE takes is held to the commit only, so the update, *)
(* the audit row and the commit are one step.                              *)
(***************************************************************************)
EXTENDS Naturals, Sequences, FiniteSets

CONSTANTS
    Users,              \* accounts, all of them signed in
    Projects, Runs,     \* of whatever workspace
    Limits,             \* monthly cost limits, null included
    InitialAccounts,    \* the accounts once the first administrator is provisioned
    Asked,              \* bound: the requests that are ever sent
    MaxRequests,        \* bound: how many
    Slots               \* requests the web processes handle at once

Roles == {"user", "support", "admin"}
Statuses == {"active", "suspended"}
Plans == {"free", "pro", "business"}
Accounts == [role : Roles, status : Statuses, plan : Plans, limit : Limits]

AccountFields == {"role", "status", "plan", "limit"}

ActiveAdminsOf(accounts) ==
    {u \in Users : accounts[u].role = "admin" /\ accounts[u].status = "active"}

Request(field, targets, values) ==
    [actor : Users, field : {field}, target : targets, value : values]

AccountRequests ==
    UNION {Request("role", Users, Roles), Request("status", Users, Statuses),
           Request("plan", Users, Plans), Request("limit", Users, Limits)}

Requests ==
    UNION {AccountRequests, Request("project", Projects, {"archived"}),
           Request("run", Runs, {"cancelled"})}

ASSUME ConstantsAssumption ==
    /\ IsFiniteSet(Users)
    /\ InitialAccounts \in [Users -> Accounts]
    /\ ActiveAdminsOf(InitialAccounts) # {}
    /\ Asked \subseteq Requests /\ Asked # {}
    /\ MaxRequests \in Nat

VARIABLES
    account,        \* table users: role, status, plan, monthly limit
    archived,       \* projects that are archived
    settled,        \* runs that are neither queued nor running
    cancelled,      \* runs with cancel_requested_at
    ledger,         \* table admin_audit_logs in the order of commits
    pc, req,        \* request slots: control point and request
    before,         \* what the transaction read of the field it changes
    sent,           \* requests so far
    \* history: the actor was an active administrator since its request came;
    \* a transaction wrote while another was between its read and its write
    entitled, overlapped

tables == <<account, archived, settled, cancelled, ledger>>
history == <<entitled, overlapped>>
vars == <<tables, pc, req, before, sent, history>>

ActiveAdmins == ActiveAdminsOf(account)

Init ==
    /\ account = InitialAccounts
    /\ archived = {} /\ settled = {} /\ cancelled = {}
    /\ ledger = <<>>
    /\ pc = [s \in Slots |-> "idle"]
    /\ req = [s \in Slots |-> CHOOSE r \in Asked : TRUE]
    /\ before = [s \in Slots |-> "none"]
    /\ sent = 0
    /\ entitled = [s \in Slots |-> FALSE]
    /\ overlapped = FALSE

Goto(s, phase) == pc' = [pc EXCEPT ![s] = phase]
Finish(s) == Goto(s, "idle")

-----------------------------------------------------------------------------
(* Before the transaction *)

Submit(s, r) ==
    /\ pc[s] = "idle"
    /\ sent < MaxRequests
    /\ sent' = sent + 1
    /\ req' = [req EXCEPT ![s] = r]
    /\ entitled' = [entitled EXCEPT ![s] = r.actor \in ActiveAdmins]
    /\ Goto(s, "received")
    /\ UNCHANGED <<tables, before, overlapped>>

\* A guard that takes the role and forgets the status of the account.
AnyAdmin(u) == account[u].role = "admin"

\* requireAdminAction: the role's permissions, and the account's status.
MayAdminister(u) == account[u].role = "admin" /\ account[u].status # "suspended"

\* guard, then the rate limit and the validation, which may refuse as well.
Guard(s) ==
    /\ pc[s] = "received"
    /\ \/ MayAdminister(req[s].actor) /\ Goto(s, "authorized")
       \/ Finish(s)
    /\ UNCHANGED <<tables, req, before, sent, history>>

-----------------------------------------------------------------------------
(* The transaction *)

\* The count that keeps an administrator is due.
MustCount(r, target) ==
    /\ target.role = "admin"
    /\ \/ r.field = "status" /\ r.value = "suspended"
       \/ r.field = "role" /\ r.value # "admin" /\ target.status = "active"

\* A limit that was never set, read as undefined instead of null.
ReadAccountUndefined(s) ==
    LET r == req[s]
        target == account[r.target]
    IN  /\ r \in AccountRequests
        /\ IF r.field # "limit" /\ target[r.field] = r.value
           THEN Finish(s) /\ UNCHANGED before
           ELSE /\ Goto(s, IF MustCount(r, target) THEN "counting" ELSE "writing")
                /\ before' = [before EXCEPT ![s] =
                       IF r.field = "limit" THEN "undefined" ELSE target[r.field]]

\* Read the account; nothing is written when it has the value already (a limit
\* is written all the same).
ReadAccount(s) ==
    LET r == req[s]
        target == account[r.target]
    IN  /\ r \in AccountRequests
        /\ IF r.field # "limit" /\ target[r.field] = r.value
           THEN Finish(s) /\ UNCHANGED before
           ELSE /\ Goto(s, IF MustCount(r, target) THEN "counting" ELSE "writing")
                /\ before' = [before EXCEPT ![s] = target[r.field]]

ReadProject(s) ==
    /\ req[s].field = "project"
    /\ IF req[s].target \in archived
       THEN Finish(s) /\ UNCHANGED before
       ELSE Goto(s, "writing") /\ before' = [before EXCEPT ![s] = "active"]

ReadRun(s) ==
    /\ req[s].field = "run"
    /\ IF req[s].target \in settled \cup cancelled
       THEN Finish(s) /\ UNCHANGED before
       ELSE Goto(s, "writing") /\ before' = [before EXCEPT ![s] = "active"]

ReadTarget(s) ==
    /\ pc[s] = "authorized"
    /\ ReadAccount(s) \/ ReadProject(s) \/ ReadRun(s)
    /\ UNCHANGED <<tables, req, sent, history>>

\* The count taken with the administrator that is about to go left over.
CountNone(s) ==
    /\ pc[s] = "counting"
    /\ IF Cardinality(ActiveAdmins) < 1 THEN Finish(s) ELSE Goto(s, "writing")
    /\ UNCHANGED <<tables, req, before, sent, history>>

CountAdmins(s) ==
    /\ pc[s] = "counting"
    /\ IF Cardinality(ActiveAdmins) <= 1 THEN Finish(s) ELSE Goto(s, "writing")
    /\ UNCHANGED <<tables, req, before, sent, history>>

WriteAccount(r) ==
    /\ r \in AccountRequests
    /\ account' = [account EXCEPT ![r.target][r.field] = r.value]
    /\ UNCHANGED <<archived, cancelled>>

ArchiveProject(r) ==
    /\ r.field = "project"
    /\ archived' = archived \cup {r.target}
    /\ UNCHANGED <<account, cancelled>>

\* A cancellation that takes any run it has read as active.
CancelUnconditionally(r) ==
    /\ r.field = "run"
    /\ cancelled' = cancelled \cup {r.target}
    /\ UNCHANGED <<account, archived>>

\* UPDATE ... WHERE status IN ('queued', 'running'); the audit row follows even
\* when no row matches.
CancelRun(r) ==
    /\ r.field = "run"
    /\ cancelled' = cancelled \cup ({r.target} \ settled)
    /\ UNCHANGED <<account, archived>>

AuditRow(s) ==
    [actor |-> req[s].actor, field |-> req[s].field, target |-> req[s].target,
     before |-> before[s], after |-> req[s].value]

\* An audit row that is lost when the connection breaks after the mutation.
WriteAuditAfterwards(s) == ledger' \in {ledger, Append(ledger, AuditRow(s))}

WriteAdminAudit(s) == ledger' = Append(ledger, AuditRow(s))

Commit(s) ==
    /\ pc[s] = "writing"
    /\ WriteAccount(req[s]) \/ ArchiveProject(req[s]) \/ CancelRun(req[s])
    /\ WriteAdminAudit(s)
    /\ Finish(s)
    /\ entitled' = [t \in Slots |->
           entitled[t] \/ (pc[t] # "idle" /\ req[t].actor \in ActiveAdminsOf(account'))]
    /\ overlapped' = (overlapped \/ \E t \in Slots \ {s} : pc[t] \in {"counting", "writing"})
    /\ UNCHANGED <<settled, req, before, sent>>

\* A statement rejects, or the process dies: PostgreSQL rolls back.
Fail(s) ==
    /\ pc[s] # "idle"
    /\ Finish(s)
    /\ UNCHANGED <<tables, req, before, sent, history>>

-----------------------------------------------------------------------------
(* The owners and the worker *)

OwnerArchives(p) ==
    /\ p \notin archived
    /\ archived' = archived \cup {p}
    /\ UNCHANGED <<account, settled, cancelled, ledger, pc, req, before, sent, history>>

OwnerCancels(r) ==
    /\ r \notin settled \cup cancelled
    /\ cancelled' = cancelled \cup {r}
    /\ UNCHANGED <<account, archived, settled, ledger, pc, req, before, sent, history>>

RunSettles(r) ==
    /\ r \notin settled
    /\ settled' = settled \cup {r}
    /\ UNCHANGED <<account, archived, cancelled, ledger, pc, req, before, sent, history>>

Next ==
    \/ \E s \in Slots : \/ \E r \in Asked : Submit(s, r)
                        \/ Guard(s) \/ ReadTarget(s) \/ CountAdmins(s) \/ Commit(s) \/ Fail(s)
    \/ \E p \in Projects : OwnerArchives(p)
    \/ \E r \in Runs : OwnerCancels(r) \/ RunSettles(r)

Spec == Init /\ [][Next]_vars

-----------------------------------------------------------------------------
(* Properties *)

Phases == {"idle", "received", "authorized", "counting", "writing"}
Values == UNION {Roles, Statuses, Plans, Limits, {"archived", "cancelled", "none"}}

AuditRows ==
    [actor : Users, field : AccountFields \cup {"project", "run"},
     target : UNION {Users, Projects, Runs}, before : Values, after : Values]

\* Every variable stays in its type.
TypeOK ==
    /\ account \in [Users -> Accounts]
    /\ archived \subseteq Projects
    /\ settled \subseteq Runs
    /\ cancelled \subseteq Runs
    /\ ledger \in Seq(AuditRows)
    /\ pc \in [Slots -> Phases]
    /\ req \in [Slots -> Requests]
    /\ before \in [Slots -> Values]
    /\ sent \in 0..MaxRequests
    /\ entitled \in [Slots -> BOOLEAN]
    /\ overlapped \in BOOLEAN

RowsOn(u, field) == {i \in 1..Len(ledger) : ledger[i].target = u /\ ledger[i].field = field}

\* The ledger, in the order of commits, explains every account: a field holds what
\* its last audit row says, and what it was provisioned with if there is none,
\* although requests overlap, fail between two statements and write from stale
\* reads.
LedgerExplainsAccounts ==
    \A u \in Users : \A field \in AccountFields :
        /\ RowsOn(u, field) = {} => account[u][field] = InitialAccounts[u][field]
        /\ \A i \in RowsOn(u, field) :
              (\A j \in RowsOn(u, field) : j <= i) => account[u][field] = ledger[i].after

\* A request of an account that was no active administrator at any time since it
\* came never gets to write: a demotion or suspension stops the next request.
OnlyAdministratorsWrite ==
    \A s \in Slots : pc[s] \in {"authorized", "counting", "writing"} => entitled[s]

\* As long as no two transactions overlap, an active administrator remains.
SerialLeavesAnAdmin == ~overlapped => ActiveAdmins # {}

\* A run that settled without a request to cancel it never gets one afterwards.
SettledRunsStayUncancelled ==
    [][\A r \in settled : r \in cancelled' => r \in cancelled]_vars

\* The last active administrator can be neither suspended nor demoted.
AnAdminRemains == ActiveAdmins # {}

-----------------------------------------------------------------------------
(* The inductive invariant behind the safety properties. *)

\* A transaction about to write removes no administrator, or another one is left.
WritersSpareAnAdmin ==
    ~overlapped => \A s \in Slots : pc[s] = "writing" /\ req[s] \in AccountRequests =>
        \/ ~MustCount(req[s], account[req[s].target])
        \/ ActiveAdmins \ {req[s].target} # {}

\* A pending request of an active administrator is one of an administrator.
AdministratorsEntitled ==
    \A s \in Slots : pc[s] # "idle" /\ req[s].actor \in ActiveAdmins => entitled[s]

IInv ==
    /\ TypeOK
    /\ AdministratorsEntitled
    /\ OnlyAdministratorsWrite
    /\ LedgerExplainsAccounts
    /\ SerialLeavesAnAdmin
    /\ WritersSpareAnAdmin
=============================================================================
