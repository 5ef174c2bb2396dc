-------------------------- MODULE AdministrationProofs --------------------------
(***************************************************************************)
(* What Administration keeps for every number of accounts, projects, runs, *)
(* slots and requests.                                                     *)
(***************************************************************************)
EXTENDS Administration, TLAPS, FiniteSetTheorems

-----------------------------------------------------------------------------
(* Requests and writes *)

LEMMA AccountRequestTyped ==
    ASSUME NEW r \in AccountRequests
    PROVE  /\ r \in Requests
           /\ r.actor \in Users /\ r.target \in Users /\ r.field \in AccountFields
           /\ r.field = "role" => r.value \in Roles
           /\ r.field = "status" => r.value \in Statuses
           /\ r.field = "plan" => r.value \in Plans
           /\ r.field = "limit" => r.value \in Limits
<1>1. r \in Requests
    BY DEF AccountRequests, Requests
<1> QED
    BY <1>1 DEF AccountRequests, Request, AccountFields

LEMMA RequestTyped ==
    ASSUME NEW r \in Requests
    PROVE  /\ r.actor \in Users
           /\ r.field \in AccountFields \cup {"project", "run"}
           /\ r.target \in UNION {Users, Projects, Runs}
           /\ r.value \in Values
           /\ r.field = "project" => r.target \in Projects
           /\ r.field = "run" => r.target \in Runs
           /\ r.field \in AccountFields => r \in AccountRequests
<1>1. CASE r \in AccountRequests
    BY <1>1, AccountRequestTyped DEF Values, AccountFields
<1>2. CASE r \in Request("project", Projects, {"archived"})
    BY <1>2 DEF Request, Values, AccountFields
<1>3. CASE r \in Request("run", Runs, {"cancelled"})
    BY <1>3 DEF Request, Values, AccountFields
<1> QED
    BY <1>1, <1>2, <1>3 DEF Requests

\* What a field of an account may hold.
LEMMA FieldTyped ==
    ASSUME NEW a \in Accounts, NEW field \in AccountFields
    PROVE  a[field] \in Values
BY DEF Accounts, AccountFields, Values

\* A write changes one field of one account.
LEMMA WriteEffect ==
    ASSUME account \in [Users -> Accounts], NEW r \in AccountRequests, WriteAccount(r)
    PROVE  /\ account' \in [Users -> Accounts]
           /\ \A u \in Users : \A f \in AccountFields :
                account'[u][f] = IF u = r.target /\ f = r.field THEN r.value ELSE account[u][f]
<1> DEFINE t == r.target
<1>1. account' = [account EXCEPT ![t] = [account[t] EXCEPT ![r.field] = r.value]]
    BY DEF WriteAccount
<1>2. t \in Users /\ account[t] \in Accounts
    BY AccountRequestTyped
<1>3. ASSUME NEW f \in AccountFields, r.field = f
      PROVE  /\ [account[t] EXCEPT ![f] = r.value] \in Accounts
             /\ \A g \in AccountFields :
                  [account[t] EXCEPT ![f] = r.value][g] = IF g = f THEN r.value ELSE account[t][g]
    <2>1. CASE f = "role"
        BY <1>2, <1>3, <2>1, AccountRequestTyped DEF Accounts, AccountFields
    <2>2. CASE f = "status"
        BY <1>2, <1>3, <2>2, AccountRequestTyped DEF Accounts, AccountFields
    <2>3. CASE f = "plan"
        BY <1>2, <1>3, <2>3, AccountRequestTyped DEF Accounts, AccountFields
    <2>4. CASE f = "limit"
        BY <1>2, <1>3, <2>4, AccountRequestTyped DEF Accounts, AccountFields
    <2> QED
        BY <2>1, <2>2, <2>3, <2>4 DEF AccountFields
<1>4. r.field \in AccountFields
    BY AccountRequestTyped
<1> DEFINE changed == [account[t] EXCEPT ![r.field] = r.value]
<1>5. /\ changed \in Accounts
      /\ \A g \in AccountFields : changed[g] = IF g = r.field THEN r.value ELSE account[t][g]
    BY <1>3, <1>4
<1>6. account' = [account EXCEPT ![t] = changed]
    BY <1>1
<1> HIDE DEF changed
<1> QED
    BY <1>2, <1>5, <1>6

-----------------------------------------------------------------------------
(* The ledger *)

\* An audit row of a slot is added behind the others.
LEMMA RowsAfterAudit ==
    ASSUME ledger \in Seq(AuditRows), NEW s \in Slots, AuditRow(s) \in AuditRows,
           WriteAdminAudit(s), NEW u, NEW field
    PROVE  /\ ledger' \in Seq(AuditRows)
           /\ Len(ledger') = Len(ledger) + 1
           /\ \A i \in 1..Len(ledger) : ledger'[i] = ledger[i]
           /\ ledger'[Len(ledger) + 1] = AuditRow(s)
           /\ RowsOn(u, field)' =
                IF req[s].target = u /\ req[s].field = field
                THEN RowsOn(u, field) \cup {Len(ledger) + 1} ELSE RowsOn(u, field)
<1>1. /\ ledger' \in Seq(AuditRows)
      /\ Len(ledger') = Len(ledger) + 1
      /\ \A i \in 1..Len(ledger) : ledger'[i] = ledger[i]
      /\ ledger'[Len(ledger) + 1] = AuditRow(s)
    BY DEF WriteAdminAudit
<1>2. /\ AuditRow(s).target = req[s].target
      /\ AuditRow(s).field = req[s].field
    BY DEF AuditRow
<1>3. RowsOn(u, field)' =
        {i \in 1..(Len(ledger) + 1) : ledger'[i].target = u /\ ledger'[i].field = field}
    BY <1>1 DEF RowsOn
<1>4. 1..(Len(ledger) + 1) = (1..Len(ledger)) \cup {Len(ledger) + 1}
    OBVIOUS
<1> QED
    BY <1>1, <1>2, <1>3, <1>4 DEF RowsOn

-----------------------------------------------------------------------------
(* Initial states *)

LEMMA InitIInv == Init => IInv
<1> SUFFICES ASSUME Init PROVE IInv
    OBVIOUS
<1>1. TypeOK
    <2>1. (CHOOSE r \in Asked : TRUE) \in Requests
        BY ConstantsAssumption
    <2>2. "none" \in Values
        BY DEF Values
    <2>3. ledger \in Seq(AuditRows) /\ sent \in 0..MaxRequests
        BY ConstantsAssumption DEF Init
    <2> QED
        BY <2>1, <2>2, <2>3, ConstantsAssumption DEF Init, TypeOK, Phases
<1>2. OnlyAdministratorsWrite /\ AdministratorsEntitled /\ WritersSpareAnAdmin
    BY DEF Init, OnlyAdministratorsWrite, AdministratorsEntitled, WritersSpareAnAdmin
<1>3. LedgerExplainsAccounts
    BY DEF Init, LedgerExplainsAccounts, RowsOn
<1>4. SerialLeavesAnAdmin
    BY ConstantsAssumption DEF Init, SerialLeavesAnAdmin, ActiveAdmins
<1> QED
    BY <1>1, <1>2, <1>3, <1>4 DEF IInv

-----------------------------------------------------------------------------
(* Steps that leave the accounts and the ledger alone *)

\* A slot that neither writes nor counts, or gives up, disturbs nothing.
LEMMA QuietStep ==
    ASSUME IInv, TypeOK',
           UNCHANGED <<account, ledger, overlapped>>,
           NEW s \in Slots, NEW phase \in Phases \ {"writing"}, Goto(s, phase),
           \A t \in Slots \ {s} : req'[t] = req[t] /\ entitled'[t] = entitled[t],
           phase \in {"authorized", "counting"} => entitled'[s],
           phase # "idle" /\ req'[s].actor \in ActiveAdmins => entitled'[s]
    PROVE  IInv'
<1>1. \A t \in Slots : pc'[t] = IF t = s THEN phase ELSE pc[t]
    BY DEF IInv, TypeOK, Goto
<1>2. OnlyAdministratorsWrite' /\ AdministratorsEntitled'
    BY <1>1 DEF IInv, OnlyAdministratorsWrite, AdministratorsEntitled, ActiveAdmins
<1>3. LedgerExplainsAccounts'
    BY DEF IInv, LedgerExplainsAccounts, RowsOn
<1>4. SerialLeavesAnAdmin'
    BY DEF IInv, SerialLeavesAnAdmin, ActiveAdmins
<1>5. WritersSpareAnAdmin'
    <2> SUFFICES ASSUME ~overlapped, NEW t \in Slots, pc'[t] = "writing",
                        req'[t] \in AccountRequests
                 PROVE  \/ ~MustCount(req'[t], account[req'[t].target])
                        \/ ActiveAdmins \ {req'[t].target} # {}
        BY DEF WritersSpareAnAdmin, ActiveAdmins
    <2>1. t # s /\ pc[t] = "writing" /\ req'[t] = req[t]
        BY <1>1
    <2> QED
        BY <2>1 DEF IInv, WritersSpareAnAdmin
<1> QED
    BY <1>2, <1>3, <1>4, <1>5 DEF IInv

LEMMA SubmitIInv ==
    ASSUME IInv, NEW s \in Slots, NEW r \in Asked, Submit(s, r)
    PROVE  IInv'
<1>1. r \in Requests
    BY ConstantsAssumption
<1>2. (r.actor \in ActiveAdmins) \in BOOLEAN
    OBVIOUS
<1>3. sent' \in 0..MaxRequests
    BY ConstantsAssumption DEF Submit, IInv, TypeOK
<1>4. TypeOK'
    BY <1>1, <1>2, <1>3 DEF Submit, Goto, IInv, TypeOK, Phases, tables
<1> QED
    BY <1>4, QuietStep DEF Submit, Phases, IInv, TypeOK, tables

LEMMA AdministerIsActive ==
    ASSUME TypeOK, NEW u \in Users, MayAdminister(u)
    PROVE  u \in ActiveAdmins
BY DEF TypeOK, MayAdminister, ActiveAdmins, ActiveAdminsOf, Accounts, Statuses

LEMMA GuardIInv ==
    ASSUME IInv, NEW s \in Slots, Guard(s)
    PROVE  IInv'
<1>1. req[s].actor \in Users
    BY RequestTyped DEF IInv, TypeOK
<1>2. TypeOK'
    BY DEF Guard, Goto, Finish, IInv, TypeOK, Phases, tables, history
<1>3. CASE MayAdminister(req[s].actor) /\ Goto(s, "authorized")
    <2>1. req[s].actor \in ActiveAdmins /\ entitled[s]
        BY <1>1, <1>3, AdministerIsActive DEF IInv, AdministratorsEntitled, Guard
    <2> QED
        BY <1>2, <1>3, <2>1, QuietStep DEF Guard, tables, history, Phases
<1>4. CASE Finish(s)
    BY <1>2, <1>4, QuietStep DEF Guard, Finish, tables, history, Phases
<1> QED
    BY <1>3, <1>4 DEF Guard

LEMMA FailIInv ==
    ASSUME IInv, NEW s \in Slots, Fail(s)
    PROVE  IInv'
<1>1. TypeOK'
    BY DEF Fail, Goto, Finish, IInv, TypeOK, Phases, tables, history
<1> QED
    BY <1>1, QuietStep DEF Fail, Finish, tables, history, Phases

\* The owners and the worker touch neither accounts nor slots.
LEMMA OthersIInv ==
    ASSUME IInv,
           \/ \E p \in Projects : OwnerArchives(p)
           \/ \E r \in Runs : OwnerCancels(r) \/ RunSettles(r)
    PROVE  IInv'
<1>1. UNCHANGED <<account, ledger, pc, req, before, sent, entitled, overlapped>>
    BY DEF OwnerArchives, OwnerCancels, RunSettles, history
<1>2. archived' \subseteq Projects /\ settled' \subseteq Runs /\ cancelled' \subseteq Runs
    BY DEF OwnerArchives, OwnerCancels, RunSettles, IInv, TypeOK
<1>3. TypeOK'
    BY <1>1, <1>2 DEF IInv, TypeOK
<1> QED
    BY <1>1, <1>3 DEF IInv, OnlyAdministratorsWrite, LedgerExplainsAccounts, RowsOn,
       SerialLeavesAnAdmin, WritersSpareAnAdmin, AdministratorsEntitled, ActiveAdmins

-----------------------------------------------------------------------------
(* The statements of a transaction *)

\* Reading the target or counting may make a slot ready to write; what it is
\* about to write spares an administrator.
LEMMA ReadyToWrite ==
    ASSUME IInv, TypeOK', NEW s \in Slots, Goto(s, "writing"),
           UNCHANGED <<tables, req, history>>,
           pc[s] \in {"authorized", "counting"},
           req[s] \in AccountRequests =>
               \/ ~MustCount(req[s], account[req[s].target])
               \/ ActiveAdmins \ {req[s].target} # {}
    PROVE  IInv'
<1>1. \A t \in Slots : pc'[t] = IF t = s THEN "writing" ELSE pc[t]
    BY DEF IInv, TypeOK, Goto
<1>2. UNCHANGED <<account, ledger, entitled, overlapped>>
    BY DEF tables, history
<1>3. OnlyAdministratorsWrite' /\ AdministratorsEntitled'
    BY <1>1, <1>2 DEF IInv, OnlyAdministratorsWrite, AdministratorsEntitled, ActiveAdmins
<1>4. LedgerExplainsAccounts' /\ SerialLeavesAnAdmin'
    BY <1>2 DEF IInv, LedgerExplainsAccounts, RowsOn, SerialLeavesAnAdmin, ActiveAdmins
<1>5. WritersSpareAnAdmin'
    <2> SUFFICES ASSUME ~overlapped, NEW t \in Slots, pc'[t] = "writing",
                        req[t] \in AccountRequests
                 PROVE  \/ ~MustCount(req[t], account[req[t].target])
                        \/ ActiveAdmins \ {req[t].target} # {}
        BY <1>2 DEF WritersSpareAnAdmin, ActiveAdmins
    <2> QED
        BY <1>1 DEF IInv, WritersSpareAnAdmin
<1> QED
    BY <1>3, <1>4, <1>5 DEF IInv

LEMMA ReadTargetIInv ==
    ASSUME IInv, NEW s \in Slots, ReadTarget(s)
    PROVE  IInv'
<1> DEFINE r == req[s]
<1>1. r \in Requests /\ pc[s] = "authorized" /\ UNCHANGED <<tables, req, sent, history>>
    BY DEF ReadTarget, IInv, TypeOK
<1>2. before' \in [Slots -> Values]
    <2>1. CASE ReadAccount(s)
        <3>1. account[r.target][r.field] \in Values
            BY <2>1, AccountRequestTyped, FieldTyped DEF ReadAccount, IInv, TypeOK
        <3> QED
            BY <2>1, <3>1 DEF ReadAccount, IInv, TypeOK
    <2>2. CASE ReadProject(s) \/ ReadRun(s)
        <3>1. "active" \in Values
            BY DEF Values, Statuses
        <3> QED
            BY <2>2, <3>1 DEF ReadProject, ReadRun, IInv, TypeOK
    <2> QED
        BY <2>1, <2>2 DEF ReadTarget
<1>3. \/ Finish(s)
      \/ Goto(s, "counting")
      \/ /\ Goto(s, "writing")
         /\ r \in AccountRequests => ~MustCount(r, account[r.target])
    <2>1. CASE ReadAccount(s)
        BY <2>1 DEF ReadAccount
    <2>2. CASE ReadProject(s) \/ ReadRun(s)
        <3>1. r \notin AccountRequests
            BY <2>2, AccountRequestTyped DEF ReadProject, ReadRun, AccountFields
        <3> QED
            BY <2>2, <3>1 DEF ReadProject, ReadRun
    <2> QED
        BY <2>1, <2>2 DEF ReadTarget
<1>4. pc' \in [Slots -> Phases]
    BY <1>3 DEF Finish, Goto, IInv, TypeOK, Phases
<1>5. TypeOK'
    BY <1>1, <1>2, <1>4 DEF IInv, TypeOK, tables, history
<1>6. CASE Finish(s)
    BY <1>1, <1>5, <1>6, QuietStep DEF Finish, Phases, tables, history
<1>7. CASE Goto(s, "counting")
    BY <1>1, <1>5, <1>7, QuietStep DEF Phases, tables, history, IInv, OnlyAdministratorsWrite,
       AdministratorsEntitled
<1>8. CASE Goto(s, "writing") /\ (r \in AccountRequests => ~MustCount(r, account[r.target]))
    BY <1>1, <1>5, <1>8, ReadyToWrite
<1> QED
    BY <1>3, <1>6, <1>7, <1>8

\* More than one administrator: one of them is not the target.
LEMMA AnotherAdmin ==
    ASSUME Cardinality(ActiveAdmins) > 1, NEW u
    PROVE  ActiveAdmins \ {u} # {}
<1>1. SUFFICES ASSUME ActiveAdmins \subseteq {u} PROVE FALSE
    OBVIOUS
<1>2. IsFiniteSet({u}) /\ Cardinality({u}) = 1
    BY FS_Singleton
<1>3. Cardinality(ActiveAdmins) <= 1
    BY <1>1, <1>2, FS_Subset
<1>4. Cardinality(ActiveAdmins) \in Nat
    BY <1>1, <1>2, FS_Subset, FS_CardinalityType
<1> QED
    BY <1>3, <1>4

LEMMA CountAdminsIInv ==
    ASSUME IInv, NEW s \in Slots, CountAdmins(s)
    PROVE  IInv'
<1>1. /\ pc[s] = "counting"
      /\ UNCHANGED <<tables, req, before, sent, history>>
    BY DEF CountAdmins
<1>2. TypeOK'
    BY DEF CountAdmins, Finish, Goto, IInv, TypeOK, Phases, tables, history
<1>3. CASE Cardinality(ActiveAdmins) <= 1
    BY <1>1, <1>2, <1>3, QuietStep DEF CountAdmins, Finish, Phases, tables, history
<1>4. CASE ~(Cardinality(ActiveAdmins) <= 1)
    <2>1. ActiveAdmins \subseteq Users /\ IsFiniteSet(Users)
        BY ConstantsAssumption DEF ActiveAdmins, ActiveAdminsOf
    <2>2. Cardinality(ActiveAdmins) \in Nat
        BY <2>1, FS_Subset, FS_CardinalityType
    <2>3. ActiveAdmins \ {req[s].target} # {}
        BY <1>4, <2>2, AnotherAdmin
    <2> QED
        BY <1>1, <1>2, <1>4, <2>3, ReadyToWrite DEF CountAdmins
<1> QED
    BY <1>3, <1>4

\* A commit of an account request.
LEMMA WriteLeavesAnAdmin ==
    ASSUME IInv, NEW s \in Slots, pc[s] = "writing", ~overlapped,
           req[s] \in AccountRequests, WriteAccount(req[s])
    PROVE  ActiveAdmins' # {}
<1> DEFINE r == req[s]
<1>1. \A u \in Users : \A f \in AccountFields :
         account'[u][f] = IF u = r.target /\ f = r.field THEN r.value ELSE account[u][f]
    BY WriteEffect DEF IInv, TypeOK
<1>2. {"role", "status"} \subseteq AccountFields
    BY DEF AccountFields
<1>3. ActiveAdmins \ {r.target} \subseteq ActiveAdmins'
    BY <1>1, <1>2 DEF ActiveAdmins, ActiveAdminsOf
<1>4. CASE ActiveAdmins \ {r.target} # {}
    BY <1>3, <1>4
<1>5. CASE ~MustCount(r, account[r.target])
    <2>1. PICK u \in Users : u \in ActiveAdmins
        BY DEF IInv, SerialLeavesAnAdmin, ActiveAdmins, ActiveAdminsOf
    <2>2. /\ r.field = "role" => r.value = "admin" \/ r.target \notin ActiveAdmins
          /\ r.field = "status" => r.value = "active" \/ r.target \notin ActiveAdmins
        BY <1>5, AccountRequestTyped DEF MustCount, ActiveAdmins, ActiveAdminsOf, Statuses
    <2>3. u \in ActiveAdmins'
        BY <1>1, <1>2, <2>1, <2>2 DEF ActiveAdmins, ActiveAdminsOf
    <2> QED
        BY <2>3
<1> QED
    BY <1>4, <1>5 DEF IInv, WritersSpareAnAdmin

LEMMA CommitIInv ==
    ASSUME IInv, NEW s \in Slots, Commit(s)
    PROVE  IInv'
<1> DEFINE r == req[s]
<1>1. /\ pc[s] = "writing" /\ r \in Requests
      /\ UNCHANGED <<settled, req, before, sent>>
      /\ WriteAdminAudit(s)
      /\ overlapped' = (overlapped \/ \E t \in Slots \ {s} : pc[t] \in {"counting", "writing"})
      /\ \A t \in Slots : pc'[t] = IF t = s THEN "idle" ELSE pc[t]
    BY DEF Commit, Finish, Goto, IInv, TypeOK
<1>2. AuditRow(s) \in AuditRows
    BY <1>1, RequestTyped DEF AuditRow, AuditRows, IInv, TypeOK
<1>3. \/ r \in AccountRequests /\ WriteAccount(r)
      \/ r.field \notin AccountFields /\ UNCHANGED account
    BY DEF Commit, WriteAccount, ArchiveProject, CancelRun, AccountFields
<1>4. TypeOK'
    <2>1. account' \in [Users -> Accounts]
        BY <1>3, WriteEffect DEF IInv, TypeOK
    <2>2. archived' \subseteq Projects /\ cancelled' \subseteq Runs
        BY <1>1, RequestTyped
           DEF Commit, WriteAccount, ArchiveProject, CancelRun, IInv, TypeOK
    <2>3. ledger' \in Seq(AuditRows)
        BY <1>1, <1>2, RowsAfterAudit DEF IInv, TypeOK
    <2>4. pc' \in [Slots -> Phases] /\ entitled' \in [Slots -> BOOLEAN]
        BY DEF Commit, Finish, Goto, IInv, TypeOK, Phases
    <2>5. overlapped' \in BOOLEAN
        BY <1>1 DEF IInv, TypeOK
    <2> QED
        BY <1>1, <2>1, <2>2, <2>3, <2>4, <2>5 DEF IInv, TypeOK
<1>5. LedgerExplainsAccounts'
    <2> SUFFICES ASSUME NEW u \in Users, NEW field \in AccountFields
                 PROVE  /\ RowsOn(u, field)' = {} =>
                              account'[u][field] = InitialAccounts[u][field]
                        /\ \A i \in RowsOn(u, field)' :
                              (\A j \in RowsOn(u, field)' : j <= i) =>
                                  account'[u][field] = ledger'[i].after
        BY DEF LedgerExplainsAccounts
    <2>1. /\ RowsOn(u, field) = {} => account[u][field] = InitialAccounts[u][field]
          /\ \A i \in RowsOn(u, field) :
                (\A j \in RowsOn(u, field) : j <= i) => account[u][field] = ledger[i].after
        BY DEF IInv, LedgerExplainsAccounts
    <2>2. /\ Len(ledger) \in Nat
          /\ \A i \in 1..Len(ledger) : ledger'[i] = ledger[i]
          /\ ledger'[Len(ledger) + 1] = AuditRow(s)
          /\ RowsOn(u, field)' = IF r.target = u /\ r.field = field
                                 THEN RowsOn(u, field) \cup {Len(ledger) + 1}
                                 ELSE RowsOn(u, field)
        BY <1>1, <1>2, RowsAfterAudit DEF IInv, TypeOK
    <2>3. RowsOn(u, field) \subseteq 1..Len(ledger)
        BY DEF RowsOn
    <2>4. CASE r.target = u /\ r.field = field
        <3>1. account'[u][field] = r.value
            BY <1>3, <2>4, WriteEffect DEF IInv, TypeOK
        <3>2. AuditRow(s).after = r.value
            BY DEF AuditRow
        <3> QED
            BY <2>2, <2>3, <2>4, <3>1, <3>2
    <2>5. CASE ~(r.target = u /\ r.field = field)
        <3>1. account'[u][field] = account[u][field]
            BY <1>3, <2>5, WriteEffect DEF IInv, TypeOK
        <3> QED
            BY <2>1, <2>2, <2>3, <2>5, <3>1
    <2> QED
        BY <2>4, <2>5
<1>6. OnlyAdministratorsWrite' /\ AdministratorsEntitled'
    <2>1. entitled' = [t \in Slots |->
              entitled[t] \/ (pc[t] # "idle" /\ req[t].actor \in ActiveAdmins')]
        BY DEF Commit, ActiveAdmins
    <2>2. \A t \in Slots :
              /\ entitled[t] => entitled'[t]
              /\ pc[t] # "idle" /\ req[t].actor \in ActiveAdmins' => entitled'[t]
        BY <2>1
    <2> QED
        BY <1>1, <2>2, Zenon DEF IInv, OnlyAdministratorsWrite, AdministratorsEntitled
<1>7. SerialLeavesAnAdmin'
    <2>1. CASE r \in AccountRequests /\ WriteAccount(r)
        BY <1>1, <2>1, WriteLeavesAnAdmin DEF SerialLeavesAnAdmin
    <2>2. CASE UNCHANGED account
        BY <1>1, <2>2 DEF IInv, SerialLeavesAnAdmin, ActiveAdmins
    <2> QED
        BY <1>3, <2>1, <2>2
<1>8. WritersSpareAnAdmin'
    BY <1>1 DEF WritersSpareAnAdmin
<1> QED
    BY <1>4, <1>5, <1>6, <1>7, <1>8 DEF IInv

-----------------------------------------------------------------------------
(* The theorems *)

LEMMA NextIInv == IInv /\ [Next]_vars => IInv'
<1> SUFFICES ASSUME IInv, [Next]_vars PROVE IInv'
    OBVIOUS
<1>1. CASE UNCHANGED vars
    BY <1>1 DEF vars, tables, history, IInv, TypeOK, OnlyAdministratorsWrite,
       LedgerExplainsAccounts, RowsOn, SerialLeavesAnAdmin, WritersSpareAnAdmin,
       AdministratorsEntitled, ActiveAdmins
<1>2. ASSUME NEW s \in Slots, NEW r \in Asked, Submit(s, r) PROVE IInv'
    BY <1>2, SubmitIInv
<1>3. ASSUME NEW s \in Slots,
             Guard(s) \/ ReadTarget(s) \/ CountAdmins(s) \/ Commit(s) \/ Fail(s)
      PROVE  IInv'
    BY <1>3, GuardIInv, ReadTargetIInv, CountAdminsIInv, CommitIInv, FailIInv
<1>4. CASE \/ \E p \in Projects : OwnerArchives(p)
           \/ \E r \in Runs : OwnerCancels(r) \/ RunSettles(r)
    BY <1>4, OthersIInv
<1> QED
    BY <1>1, <1>2, <1>3, <1>4 DEF Next

LEMMA Invariance == Spec => []IInv
<1>1. IInv /\ [Next]_vars => IInv'
    BY NextIInv
<1> QED
    BY InitIInv, <1>1, PTL DEF Spec

\* Every reachable state of the administrator's actions is well typed.
THEOREM AdministrationTyped == Spec => []TypeOK
<1>1. IInv => TypeOK
    BY DEF IInv
<1> QED
    BY Invariance, <1>1, PTL

\* The audit ledger accounts for every field of every account, whatever overlaps
\* and fails (writeAdminAudit inside the transaction of its mutation).
THEOREM LedgerIsComplete == Spec => []LedgerExplainsAccounts
<1>1. IInv => LedgerExplainsAccounts
    BY DEF IInv
<1> QED
    BY Invariance, <1>1, PTL

\* An account that is demoted or suspended before it sends a request gets nowhere
\* (requireAdminAction reads the account on every request).
THEOREM AuthorityIsFresh == Spec => []OnlyAdministratorsWrite
<1>1. IInv => OnlyAdministratorsWrite
    BY DEF IInv
<1> QED
    BY Invariance, <1>1, PTL

\* Transactions that do not overlap keep an active administrator (the counts in
\* changeUserStatusAction and changeUserRoleAction).
THEOREM SerialActionsKeepAnAdmin == Spec => []SerialLeavesAnAdmin
<1>1. IInv => SerialLeavesAnAdmin
    BY DEF IInv
<1> QED
    BY Invariance, <1>1, PTL

\* Nothing requests the cancellation of a run after it settled (the condition of
\* cancelRunAdminAction's UPDATE).
THEOREM SettledRunsAreLeftAlone == Spec => SettledRunsStayUncancelled
<1>1. [Next]_vars => [\A r \in settled : r \in cancelled' => r \in cancelled]_vars
    BY DEF Next, Submit, Guard, ReadTarget, CountAdmins, Commit, Fail, OwnerArchives,
       OwnerCancels, RunSettles, WriteAccount, ArchiveProject, CancelRun, tables, vars
<1> QED
    BY <1>1, PTL DEF Spec, SettledRunsStayUncancelled
=============================================================================
