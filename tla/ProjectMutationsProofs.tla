------------------------ MODULE ProjectMutationsProofs ------------------------
(***************************************************************************)
(* Theorems about ProjectMutations: whatever is duplicated, retried, edited*)
(* or aborted, a key takes effect at most once, a success names its effect *)
(* and no key stays claimed.                                               *)
(***************************************************************************)
EXTENDS ProjectMutations, TLAPS

-----------------------------------------------------------------------------
(* Sequences *)

LEMMA AuditEntries ==
    ASSUME TypeOK, NEW i \in 1..Len(audit)
    PROVE  audit[i].request \in Requests /\ audit[i].project \in Projects
<1>1. audit[i] \in Entries
    BY DEF TypeOK
<1> QED
    BY <1>1 DEF Entries

LEMMA FirstKept ==
    ASSUME NEW S, NEW m \in Seq(S), m # <<>>, NEW c \in S
    PROVE  Append(m, c) # <<>> /\ Append(m, c)[1] = m[1]
<1>1. Len(m) \in Nat /\ Len(m) # 0
    OBVIOUS
<1>2. 1 \in 1..Len(m)
    BY <1>1
<1>3. Len(Append(m, c)) = Len(m) + 1 /\ Append(m, c)[1] = m[1]
    BY <1>2
<1> QED
    BY <1>1, <1>3

-----------------------------------------------------------------------------
(* Initial states *)

LEMMA InitIInv == Init => IInv
<1> SUFFICES ASSUME Init PROVE IInv
    OBVIOUS
<1>1. \A k \in Keys : \E r \in Requests : r.key = k
    <2> SUFFICES ASSUME NEW k \in Keys PROVE \E r \in Requests : r.key = k
        OBVIOUS
    <2>1. PICK c \in Contents : TRUE
        BY ConstantsAssumption
    <2>2. [key |-> k, target |-> NoProject, content |-> c] \in Requests
        BY DEF Requests
    <2> QED
        BY <2>2
<1>2. hash \in [Keys -> Requests]
    <2>1. \A k \in Keys : (CHOOSE r \in Requests : r.key = k) \in Requests
        BY <1>1
    <2> QED
        BY <2>1 DEF Init
<1>3. title \in [Projects -> Contents]
    <2>1. (CHOOSE c \in Contents : TRUE) \in Contents
        BY ConstantsAssumption
    <2> QED
        BY <2>1 DEF Init, NoContent
<1>4. TypeOK
    <2>1. /\ status \in [Projects -> {"absent", "active", "archived"}]
          /\ messages \in [Projects -> Seq(Contents)]
          /\ running \in [Projects -> BOOLEAN]
          /\ audit \in Seq(Entries)
          /\ sent \in 0..MaxRequests
        BY ConstantsAssumption DEF Init
    <2>2. /\ keyState \in [Keys -> {"free", "held", "stored"}]
          /\ holder \in [Keys -> Slots \cup {NoSlot}]
          /\ response \in [Keys -> Projects \cup {NoProject}]
        BY DEF Init
    <2>3. /\ pc \in [Slots -> Phases]
          /\ code \in [Slots -> Codes]
          /\ answer \in [Slots -> Projects \cup {NoProject}]
        BY DEF Init, Phases, Codes
    <2>4. req \in [Slots -> Requests]
        <3>1. Requests # {}
            BY <1>1, ConstantsAssumption
        <3>2. (CHOOSE r \in Requests : TRUE) \in Requests
            BY <3>1
        <3> QED
            BY <3>2 DEF Init
    <2> QED
        BY <1>2, <1>3, <2>1, <2>2, <2>3, <2>4 DEF TypeOK
<1>5. ClaimsHeld /\ TargetsExist /\ AnswerIsTheEffect
    BY DEF Init, ClaimsHeld, TargetsExist, AnswerIsTheEffect, InTransaction
<1>6. AuditMatchesKeys /\ StoredHasEffect /\ EffectAtMostOnce /\ NoAbandonedKey
    BY DEF Init, AuditMatchesKeys, StoredHasEffect, EffectAtMostOnce, NoAbandonedKey
<1> QED
    BY <1>4, <1>5, <1>6 DEF IInv

-----------------------------------------------------------------------------
(* Requests come and go *)

LEMMA SendIInv ==
    ASSUME IInv, NEW s \in Slots, NEW r \in Requests, Send(s, r) PROVE IInv'
<1>1. /\ pc[s] = "idle" /\ pc'[s] = "received" /\ req'[s] = r
      /\ \A t \in Slots \ {s} : pc'[t] = pc[t] /\ req'[t] = req[t]
      /\ pc' \in [Slots -> Phases] /\ req' \in [Slots -> Requests] /\ sent' \in 0..MaxRequests
    BY ConstantsAssumption DEF Send, IInv, TypeOK, Phases
<1>2. UNCHANGED <<status, title, messages, running, keyState, holder, hash, response, audit, code,
                  answer>>
    BY DEF Send, projectVars, keyVars
<1>3. TypeOK'
    BY <1>1, <1>2 DEF IInv, TypeOK
<1>4. ClaimsHeld'
    BY <1>1, <1>2 DEF IInv, ClaimsHeld, InTransaction
<1>5. TargetsExist'
    <2>1. IF OpOf[r.key] = "create" THEN r.target = NoProject
                                    ELSE r.target \in Projects /\ status[r.target] # "absent"
        BY DEF Send, Requests
    <2> QED
        BY <1>1, <1>2, <2>1 DEF IInv, TargetsExist, Op
<1>6. AuditMatchesKeys' /\ StoredHasEffect' /\ EffectAtMostOnce'
    BY <1>2 DEF IInv, AuditMatchesKeys, StoredHasEffect, EffectAtMostOnce, Effective, Creates
<1>7. AnswerIsTheEffect'
    BY <1>1, <1>2 DEF IInv, AnswerIsTheEffect, Effective, Creates
<1>8. NoAbandonedKey'
    BY <1>1, <1>2 DEF IInv, NoAbandonedKey
<1> QED
    BY <1>3, <1>4, <1>5, <1>6, <1>7, <1>8 DEF IInv

LEMMA DeliverIInv == ASSUME IInv, NEW s \in Slots, Deliver(s) PROVE IInv'
<1>1. /\ pc[s] = "answered" /\ pc'[s] = "idle"
      /\ \A t \in Slots \ {s} : pc'[t] = pc[t]
      /\ pc' \in [Slots -> Phases]
    BY DEF Deliver, IInv, TypeOK, Phases
<1>2. UNCHANGED <<status, title, messages, running, keyState, holder, hash, response, audit, req,
                  code, answer, sent>>
    BY DEF Deliver, projectVars, keyVars
<1>3. TypeOK'
    BY <1>1, <1>2 DEF IInv, TypeOK
<1>4. ClaimsHeld' /\ TargetsExist'
    BY <1>1, <1>2 DEF IInv, ClaimsHeld, TargetsExist, InTransaction, Op
<1>5. AuditMatchesKeys' /\ StoredHasEffect' /\ EffectAtMostOnce'
    BY <1>2 DEF IInv, AuditMatchesKeys, StoredHasEffect, EffectAtMostOnce, Effective, Creates
<1>6. AnswerIsTheEffect'
    BY <1>1, <1>2 DEF IInv, AnswerIsTheEffect, Effective, Creates
<1>7. NoAbandonedKey'
    BY <1>1, <1>2 DEF IInv, NoAbandonedKey
<1> QED
    BY <1>3, <1>4, <1>5, <1>6, <1>7 DEF IInv

LEMMA RunSettlesIInv == ASSUME IInv, NEW p \in Projects, RunSettles(p) PROVE IInv'
<1>1. UNCHANGED <<status, title, messages, keyState, holder, hash, response, audit, pc, req,
                  code, answer, sent>>
    BY DEF RunSettles, keyVars, slotVars
<1>2. running' \in [Projects -> BOOLEAN]
    BY DEF RunSettles, IInv, TypeOK
<1>3. TypeOK'
    BY <1>1, <1>2 DEF IInv, TypeOK
<1>4. /\ ClaimsHeld' /\ TargetsExist' /\ AuditMatchesKeys' /\ StoredHasEffect'
      /\ EffectAtMostOnce' /\ AnswerIsTheEffect' /\ NoAbandonedKey'
    BY <1>1 DEF IInv, ClaimsHeld, TargetsExist, AuditMatchesKeys, StoredHasEffect, EffectAtMostOnce,
                AnswerIsTheEffect, NoAbandonedKey, Effective, Creates, Op
<1> QED
    BY <1>3, <1>4 DEF IInv

-----------------------------------------------------------------------------
(* A transaction begins, or replays a stored key *)

LEMMA ClaimKeyIInv ==
    ASSUME IInv, NEW s \in Slots, pc[s] = "received", ClaimKey(s),
           UNCHANGED <<projectVars, audit, req, sent>>
    PROVE  IInv'
<1> DEFINE k == req[s].key
<1>1. k \in Keys /\ req[s] \in Requests
    BY DEF IInv, TypeOK, Requests
<1>2. /\ keyState[k] = "free" /\ keyState'[k] = "held" /\ holder'[k] = s /\ hash'[k] = req[s]
      /\ \A q \in Keys \ {k} :
            keyState'[q] = keyState[q] /\ holder'[q] = holder[q] /\ hash'[q] = hash[q]
      /\ pc'[s] = "claimed" /\ \A t \in Slots \ {s} : pc'[t] = pc[t]
    BY <1>1 DEF ClaimKey, IInv, TypeOK
<1>3. UNCHANGED <<status, title, messages, running, response, audit, req, code, answer, sent>>
    BY DEF ClaimKey, projectVars
<1>4. TypeOK'
    <2>1. /\ keyState' \in [Keys -> {"free", "held", "stored"}]
          /\ holder' \in [Keys -> Slots \cup {NoSlot}]
          /\ hash' \in [Keys -> Requests]
          /\ pc' \in [Slots -> Phases]
        BY <1>1 DEF ClaimKey, IInv, TypeOK, Phases
    <2> QED
        BY <1>3, <2>1 DEF IInv, TypeOK
<1>5. ClaimsHeld'
    <2>1. \A t \in Slots : pc[t] \in InTransaction => req[t].key # k
        BY <1>2 DEF IInv, ClaimsHeld
    <2>2. \A t \in Slots : req[t].key \in Keys
        BY DEF IInv, TypeOK, Requests
    <2> QED
        BY <1>2, <1>3, <2>1, <2>2 DEF IInv, ClaimsHeld
<1>6. TargetsExist'
    BY <1>2, <1>3 DEF IInv, TargetsExist, Op
<1>7. AuditMatchesKeys'
    <2>1. \A i \in 1..Len(audit) : audit[i].request \in Requests
        BY AuditEntries DEF IInv
    <2>2. \A i \in 1..Len(audit) : audit[i].request.key \in Keys /\ audit[i].request.key # k
        BY <1>2, <2>1 DEF IInv, AuditMatchesKeys, Requests
    <2> QED
        BY <1>2, <1>3, <2>2 DEF IInv, AuditMatchesKeys
<1>8. StoredHasEffect'
    BY <1>2, <1>3 DEF IInv, StoredHasEffect, Effective, Creates
<1>9. EffectAtMostOnce' /\ AnswerIsTheEffect'
    BY <1>2, <1>3 DEF IInv, EffectAtMostOnce, AnswerIsTheEffect, Effective, Creates
<1>10. NoAbandonedKey'
    BY <1>2, <1>3 DEF IInv, NoAbandonedKey
<1> QED
    BY <1>4, <1>5, <1>6, <1>7, <1>8, <1>9, <1>10 DEF IInv

LEMMA ReplayKeyIInv ==
    ASSUME IInv, NEW s \in Slots, pc[s] = "received", ReplayKey(s),
           UNCHANGED <<projectVars, audit, req, sent>>
    PROVE  IInv'
<1>1. /\ pc'[s] = "answered" /\ \A t \in Slots \ {s} : pc'[t] = pc[t]
      /\ \A t \in Slots \ {s} : code'[t] = code[t] /\ answer'[t] = answer[t]
      /\ pc' \in [Slots -> Phases]
    <2>1. /\ pc \in [Slots -> Phases] /\ code \in [Slots -> Codes]
          /\ answer \in [Slots -> Projects \cup {NoProject}]
        BY DEF IInv, TypeOK
    <2>2. pc' = [pc EXCEPT ![s] = "answered"] /\ "answered" \in Phases
        BY DEF ReplayKey, Answer, Refuse, Phases
    <2>3. \A t \in Slots \ {s} : code'[t] = code[t] /\ answer'[t] = answer[t]
        BY <2>1 DEF ReplayKey, Answer, Refuse
    <2> QED
        BY <2>1, <2>2, <2>3
<1>2. UNCHANGED <<status, title, messages, running, keyState, holder, hash, response, audit, req,
                  sent>>
    BY DEF ReplayKey, projectVars, keyVars
<1>3. req[s].key \in Keys
    BY DEF IInv, TypeOK, Requests
<1>4. TypeOK'
    <2>1. code' \in [Slots -> Codes] /\ answer' \in [Slots -> Projects \cup {NoProject}]
        BY <1>3 DEF ReplayKey, Answer, Refuse, IInv, TypeOK, Codes
    <2> QED
        BY <1>1, <1>2, <2>1 DEF IInv, TypeOK
<1>5. ClaimsHeld' /\ TargetsExist'
    BY <1>1, <1>2 DEF IInv, ClaimsHeld, TargetsExist, InTransaction, Op
<1>6. AuditMatchesKeys' /\ StoredHasEffect' /\ EffectAtMostOnce'
    BY <1>2 DEF IInv, AuditMatchesKeys, StoredHasEffect, EffectAtMostOnce, Effective, Creates
<1>7. AnswerIsTheEffect'
    <2>1. CASE hash[req[s].key] = req[s]
        <3>1. answer'[s] = response[req[s].key]
            BY <2>1 DEF ReplayKey, Answer, IInv, TypeOK
        <3>2. Effective(req[s], response[req[s].key])
            BY <1>3, <2>1 DEF ReplayKey, IInv, StoredHasEffect
        <3> QED
            BY <1>1, <1>2, <3>1, <3>2 DEF IInv, AnswerIsTheEffect, Effective, Creates
    <2>2. CASE hash[req[s].key] # req[s]
        <3>1. code'[s] = "IDEMPOTENCY_CONFLICT"
            BY <2>2 DEF ReplayKey, Refuse, IInv, TypeOK
        <3> QED
            BY <1>1, <1>2, <3>1 DEF IInv, AnswerIsTheEffect, Effective, Creates
    <2> QED
        BY <2>1, <2>2
<1>8. NoAbandonedKey'
    BY <1>1, <1>2 DEF IInv, NoAbandonedKey
<1> QED
    BY <1>4, <1>5, <1>6, <1>7, <1>8 DEF IInv

-----------------------------------------------------------------------------
(* A transaction ends without effect *)

\* The steps that roll a claimed transaction back.
Abandons(s, failure) ==
    /\ pc[s] \in InTransaction
    /\ Rollback(req[s].key)
    /\ Refuse(s, failure)
    /\ UNCHANGED <<projectVars, audit, req, sent>>

LEMMA AbandonIInv ==
    ASSUME IInv, NEW s \in Slots, NEW failure \in Codes \ {"ok"}, Abandons(s, failure)
    PROVE  IInv'
<1> DEFINE k == req[s].key
<1>1. k \in Keys /\ keyState[k] = "held" /\ holder[k] = s
    BY DEF Abandons, IInv, TypeOK, Requests, ClaimsHeld
<1>2. /\ keyState'[k] = "free"
      /\ \A q \in Keys \ {k} : keyState'[q] = keyState[q] /\ holder'[q] = holder[q]
      /\ pc'[s] = "answered" /\ \A t \in Slots \ {s} : pc'[t] = pc[t]
      /\ code'[s] # "ok" /\ \A t \in Slots \ {s} : code'[t] = code[t]
    BY <1>1 DEF Abandons, Rollback, Refuse, IInv, TypeOK
<1>3. UNCHANGED <<status, title, messages, running, hash, response, audit, req, answer, sent>>
    BY DEF Abandons, Rollback, Refuse, projectVars
<1>4. TypeOK'
    <2>1. /\ keyState' \in [Keys -> {"free", "held", "stored"}]
          /\ holder' \in [Keys -> Slots \cup {NoSlot}]
        BY DEF Abandons, Rollback, IInv, TypeOK
    <2>2. /\ pc' \in [Slots -> Phases]
          /\ code' \in [Slots -> Codes]
        BY DEF Abandons, Refuse, IInv, TypeOK, Phases
    <2> QED
        BY <1>3, <2>1, <2>2 DEF IInv, TypeOK
<1>5. ClaimsHeld'
    <2>1. \A t \in Slots \ {s} : pc[t] \in InTransaction => req[t].key # k
        BY <1>1 DEF IInv, ClaimsHeld
    <2>2. \A t \in Slots : req[t].key \in Keys
        BY DEF IInv, TypeOK, Requests
    <2>3. "answered" \notin InTransaction
        BY DEF InTransaction
    <2> QED
        BY <1>2, <1>3, <2>1, <2>2, <2>3 DEF IInv, ClaimsHeld
<1>6. TargetsExist'
    <2>1. pc[s] # "idle"
        BY DEF Abandons, InTransaction
    <2> QED
        BY <1>2, <1>3, <2>1 DEF IInv, TargetsExist, Op
<1>7. AuditMatchesKeys'
    <2>1. \A i \in 1..Len(audit) : audit[i].request \in Requests
        BY AuditEntries DEF IInv
    <2>2. \A i \in 1..Len(audit) : audit[i].request.key \in Keys /\ audit[i].request.key # k
        BY <1>1, <2>1 DEF IInv, AuditMatchesKeys, Requests
    <2> QED
        BY <1>2, <1>3, <2>2 DEF IInv, AuditMatchesKeys
<1>8. StoredHasEffect'
    BY <1>2, <1>3 DEF IInv, StoredHasEffect, Effective, Creates
<1>9. EffectAtMostOnce' /\ AnswerIsTheEffect'
    BY <1>2, <1>3 DEF IInv, EffectAtMostOnce, AnswerIsTheEffect, Effective, Creates
<1>10. NoAbandonedKey'
    <2>1. \A q \in Keys \ {k} : holder[q] = s => keyState[q] # "held"
        BY DEF IInv, NoAbandonedKey
    <2> QED
        BY <1>2, <1>3, <2>1 DEF IInv, NoAbandonedKey
<1> QED
    BY <1>4, <1>5, <1>6, <1>7, <1>8, <1>9, <1>10 DEF IInv

LEMMA RunConflictIInv == ASSUME IInv, NEW s \in Slots, RunConflict(s) PROVE IInv'
<1>1. Abandons(s, "RUN_ALREADY_ACTIVE")
    BY DEF RunConflict, Abandons, InTransaction
<1> QED
    BY <1>1, AbandonIInv DEF Codes

LEMMA CheckProjectIInv == ASSUME IInv, NEW s \in Slots, CheckProject(s) PROVE IInv'
<1>1. CASE Op(s) = "create" \/ status[req[s].target] = "active"
    <2>1. /\ pc[s] = "claimed" /\ pc'[s] = "checked" /\ \A t \in Slots \ {s} : pc'[t] = pc[t]
          /\ pc' \in [Slots -> Phases]
        BY <1>1 DEF CheckProject, IInv, TypeOK, Phases
    <2>2. UNCHANGED <<status, title, messages, running, keyState, holder, hash, response, audit,
                      req, code, answer, sent>>
        BY <1>1 DEF CheckProject, projectVars, keyVars
    <2>3. TypeOK'
        BY <2>1, <2>2 DEF IInv, TypeOK
    <2>4. ClaimsHeld' /\ TargetsExist'
        BY <2>1, <2>2 DEF IInv, ClaimsHeld, TargetsExist, InTransaction, Op
    <2>5. AuditMatchesKeys' /\ StoredHasEffect' /\ EffectAtMostOnce'
        BY <2>2 DEF IInv, AuditMatchesKeys, StoredHasEffect, EffectAtMostOnce, Effective, Creates
    <2>6. AnswerIsTheEffect'
        BY <2>1, <2>2 DEF IInv, AnswerIsTheEffect, Effective, Creates
    <2>7. NoAbandonedKey'
        BY <2>1, <2>2 DEF IInv, NoAbandonedKey
    <2> QED
        BY <2>3, <2>4, <2>5, <2>6, <2>7 DEF IInv
<1>2. CASE ~(Op(s) = "create" \/ status[req[s].target] = "active")
    <2>1. Abandons(s, "PROJECT_ARCHIVED")
        BY <1>2 DEF CheckProject, Abandons, InTransaction
    <2> QED
        BY <2>1, AbandonIInv DEF Codes
<1> QED
    BY <1>1, <1>2

LEMMA FailIInv == ASSUME IInv, NEW s \in Slots, Fail(s) PROVE IInv'
<1>1. CASE pc[s] = "received"
    <2>1. /\ pc'[s] = "answered" /\ code'[s] # "ok"
          /\ \A t \in Slots \ {s} : pc'[t] = pc[t] /\ code'[t] = code[t]
          /\ pc' \in [Slots -> Phases] /\ code' \in [Slots -> Codes]
        BY <1>1 DEF Fail, Refuse, IInv, TypeOK, Phases, Codes
    <2>2. UNCHANGED <<status, title, messages, running, keyState, holder, hash, response, audit,
                      req, answer, sent>>
        BY <1>1 DEF Fail, Refuse, projectVars, keyVars
    <2>3. TypeOK'
        BY <2>1, <2>2 DEF IInv, TypeOK
    <2>4. ClaimsHeld' /\ TargetsExist'
        BY <1>1, <2>1, <2>2 DEF IInv, ClaimsHeld, TargetsExist, InTransaction, Op
    <2>5. AuditMatchesKeys' /\ StoredHasEffect' /\ EffectAtMostOnce'
        BY <2>2 DEF IInv, AuditMatchesKeys, StoredHasEffect, EffectAtMostOnce, Effective, Creates
    <2>6. AnswerIsTheEffect'
        <3>1. ASSUME NEW t \in Slots, pc'[t] = "answered", code'[t] = "ok"
              PROVE  t # s /\ Effective(req[t], answer[t])
            BY <2>1, <3>1 DEF IInv, AnswerIsTheEffect
        <3> QED
            BY <2>2, <3>1 DEF AnswerIsTheEffect, Effective, Creates
    <2>7. NoAbandonedKey'
        BY <1>1, <2>1, <2>2 DEF IInv, NoAbandonedKey
    <2> QED
        BY <2>3, <2>4, <2>5, <2>6, <2>7 DEF IInv
<1>2. CASE pc[s] # "received"
    <2>1. Abandons(s, "INTERNAL_ERROR")
        BY <1>2 DEF Fail, Abandons, InTransaction
    <2> QED
        BY <2>1, AbandonIInv DEF Codes
<1> QED
    BY <1>1, <1>2

-----------------------------------------------------------------------------
(* A transaction commits *)

\* A mutation keeps the project types, and projects never disappear.
LEMMA MutateProjects ==
    ASSUME IInv, NEW s \in Slots, NEW p \in Projects, pc[s] = "checked", Mutate(s, p)
    PROVE  /\ status' \in [Projects -> {"absent", "active", "archived"}]
           /\ title' \in [Projects -> Contents]
           /\ messages' \in [Projects -> Seq(Contents)]
           /\ running' \in [Projects -> BOOLEAN]
           /\ \A q \in Projects : status[q] # "absent" => status'[q] # "absent"
           /\ status'[p] # "absent"
           /\ \A q \in Projects : status[q] # "absent" /\ messages[q] # <<>> =>
                  messages'[q] # <<>> /\ messages'[q][1] = messages[q][1]
           /\ IF Op(s) = "create"
              THEN /\ status[p] = "absent" /\ req[s].target = NoProject
                   /\ messages'[p] = <<req[s].content>>
              ELSE req[s].target # NoProject /\ p = req[s].target
<1> USE DEF IInv, TypeOK
<1>1. req[s].content \in Contents
    BY DEF Requests
<1>2. IF Op(s) = "create" THEN req[s].target = NoProject
                          ELSE req[s].target \in Projects /\ status[req[s].target] # "absent"
    BY DEF TargetsExist
<1>3. CASE Op(s) = "create" /\ CreateProject(s, p)
    <2>1. <<req[s].content>> \in Seq(Contents)
        BY <1>1
    <2>2. /\ status[p] = "absent" /\ messages'[p] = <<req[s].content>>
          /\ \A q \in Projects \ {p} : messages'[q] = messages[q] /\ status'[q] = status[q]
        BY <1>3 DEF CreateProject
    <2>3. /\ status' \in [Projects -> {"absent", "active", "archived"}] /\ status'[p] # "absent"
          /\ title' \in [Projects -> Contents] /\ running' \in [Projects -> BOOLEAN]
          /\ messages' \in [Projects -> Seq(Contents)]
        BY <1>1, <1>3, <2>1 DEF CreateProject
    <2> QED
        BY <1>2, <1>3, <2>2, <2>3
<1>4. CASE Op(s) = "rename" /\ p = req[s].target /\ RenameProject(s, p)
    BY <1>1, <1>2, <1>4 DEF RenameProject, Projects, NoProject
<1>5. CASE Op(s) = "archive" /\ p = req[s].target /\ ArchiveProject(p)
    BY <1>2, <1>5 DEF ArchiveProject, Projects, NoProject
<1>6. CASE Op(s) = "append" /\ p = req[s].target /\ AppendRequirement(s, p)
    <2>1. Append(messages[p], req[s].content) \in Seq(Contents)
        BY <1>1
    <2>2. messages' = [messages EXCEPT ![p] = Append(messages[p], req[s].content)]
        BY <1>6 DEF AppendRequirement
    <2>3. ASSUME NEW q \in Projects, messages[q] # <<>>
          PROVE  messages'[q] # <<>> /\ messages'[q][1] = messages[q][1]
        <3>1. messages[q] \in Seq(Contents)
            OBVIOUS
        <3>2. messages'[q] \in {messages[q], Append(messages[q], req[s].content)}
            BY <2>2
        <3> QED
            <4>1. CASE messages'[q] = messages[q]
                BY <2>3, <4>1
            <4>2. CASE messages'[q] = Append(messages[q], req[s].content)
                <5>1. /\ Append(messages[q], req[s].content) # <<>>
                      /\ Append(messages[q], req[s].content)[1] = messages[q][1]
                    BY <1>1, <2>3, <3>1, FirstKept
                <5> QED
                    BY <4>2, <5>1
            <4> QED
                BY <3>2, <4>1, <4>2
    <2> QED
        BY <1>2, <1>6, <2>1, <2>2, <2>3 DEF AppendRequirement, Projects, NoProject
<1>7. CASE Op(s) = "start" /\ p = req[s].target /\ StartRun(p)
    BY <1>2, <1>7 DEF StartRun, Projects, NoProject
<1> QED
    BY <1>3, <1>4, <1>5, <1>6, <1>7 DEF Mutate

LEMMA CommitIInv == ASSUME IInv, NEW s \in Slots, Commit(s) PROVE IInv'
<1> DEFINE k == req[s].key
<1>1. PICK p \in Projects :
          /\ Mutate(s, p) /\ StoreResponse(s, p) /\ Answer(s, p)
          /\ audit' = Append(audit, [request |-> req[s], project |-> p])
    BY DEF Commit
<1>2. pc[s] = "checked" /\ UNCHANGED <<req, sent>>
    BY DEF Commit
<1>3. /\ status' \in [Projects -> {"absent", "active", "archived"}]
      /\ title' \in [Projects -> Contents]
      /\ messages' \in [Projects -> Seq(Contents)]
      /\ running' \in [Projects -> BOOLEAN]
      /\ \A q \in Projects : status[q] # "absent" => status'[q] # "absent"
      /\ status'[p] # "absent"
      /\ \A q \in Projects : status[q] # "absent" /\ messages[q] # <<>> =>
             messages'[q] # <<>> /\ messages'[q][1] = messages[q][1]
      /\ IF Op(s) = "create"
         THEN /\ status[p] = "absent" /\ req[s].target = NoProject
              /\ messages'[p] = <<req[s].content>>
         ELSE req[s].target # NoProject /\ p = req[s].target
    BY <1>1, <1>2, MutateProjects
<1>4. /\ k \in Keys /\ req[s] \in Requests
      /\ keyState[k] = "held" /\ holder[k] = s /\ hash[k] = req[s]
    BY <1>2 DEF IInv, TypeOK, Requests, ClaimsHeld, InTransaction
<1>5. /\ keyState'[k] = "stored" /\ response'[k] = p /\ UNCHANGED hash
      /\ \A q \in Keys \ {k} :
            keyState'[q] = keyState[q] /\ holder'[q] = holder[q] /\ response'[q] = response[q]
    BY <1>1, <1>4 DEF StoreResponse, IInv, TypeOK
<1>6. /\ pc'[s] = "answered" /\ answer'[s] = p
      /\ \A t \in Slots \ {s} : pc'[t] = pc[t] /\ code'[t] = code[t] /\ answer'[t] = answer[t]
    BY <1>1 DEF Answer, IInv, TypeOK
<1>7. /\ audit \in Seq(Entries)
      /\ Len(audit') = Len(audit) + 1
      /\ audit'[Len(audit) + 1] = [request |-> req[s], project |-> p]
      /\ \A i \in 1..Len(audit) : audit'[i] = audit[i]
      /\ Len(audit) \in Nat
      /\ [request |-> req[s], project |-> p] \in Entries
    BY <1>1, <1>4 DEF IInv, TypeOK, Entries
<1>8. TypeOK'
    <2>1. /\ keyState' \in [Keys -> {"free", "held", "stored"}]
          /\ holder' \in [Keys -> Slots \cup {NoSlot}]
          /\ response' \in [Keys -> Projects \cup {NoProject}]
        BY <1>1 DEF StoreResponse, IInv, TypeOK
    <2>2. /\ pc' \in [Slots -> Phases]
          /\ code' \in [Slots -> Codes]
          /\ answer' \in [Slots -> Projects \cup {NoProject}]
        BY <1>1 DEF Answer, IInv, TypeOK, Phases, Codes
    <2>3. audit' \in Seq(Entries)
        BY <1>1, <1>7
    <2> QED
        BY <1>2, <1>3, <1>5, <2>1, <2>2, <2>3 DEF IInv, TypeOK
<1>9. ClaimsHeld'
    <2>1. \A t \in Slots \ {s} : pc[t] \in InTransaction => req[t].key # k
        BY <1>4 DEF IInv, ClaimsHeld
    <2>2. \A t \in Slots : req[t].key \in Keys
        BY DEF IInv, TypeOK, Requests
    <2>3. "answered" \notin InTransaction
        BY DEF InTransaction
    <2> QED
        BY <1>2, <1>5, <1>6, <2>1, <2>2, <2>3 DEF IInv, ClaimsHeld
<1>10. TargetsExist'
    BY <1>2, <1>3, <1>6 DEF IInv, TargetsExist, Op
<1>11. \A i \in 1..Len(audit) :
           /\ audit[i].request.key \in Keys /\ audit[i].request.key # k
           /\ audit[i].project \in Projects /\ status[audit[i].project] # "absent"
    <2>1. \A i \in 1..Len(audit) : audit[i].request \in Requests /\ audit[i].project \in Projects
        BY AuditEntries DEF IInv
    <2> QED
        BY <1>4, <2>1 DEF IInv, AuditMatchesKeys, Requests
<1>12. AuditMatchesKeys'
    <2>1. ASSUME NEW i \in 1..Len(audit')
          PROVE  /\ keyState'[audit'[i].request.key] = "stored"
                 /\ hash'[audit'[i].request.key] = audit'[i].request
                 /\ status'[audit'[i].project] # "absent"
        <3>1. CASE i = Len(audit) + 1
            BY <1>3, <1>4, <1>5, <1>7, <3>1
        <3>2. CASE i \in 1..Len(audit)
            <4>1. /\ keyState[audit[i].request.key] = "stored"
                  /\ hash[audit[i].request.key] = audit[i].request
                BY <3>2 DEF IInv, AuditMatchesKeys
            <4>2. /\ audit[i].request.key \in Keys \ {k}
                  /\ status'[audit[i].project] # "absent" /\ audit'[i] = audit[i]
                BY <1>3, <1>7, <1>11, <3>2
            <4> QED
                BY <1>5, <4>1, <4>2
        <3> QED
            BY <1>7, <3>1, <3>2
    <2> QED
        BY <2>1 DEF AuditMatchesKeys
<1>13. EffectAtMostOnce'
    BY <1>7, <1>11 DEF IInv, EffectAtMostOnce
<1>14. ASSUME NEW r \in Requests, NEW q \in Projects, Effective(r, q) PROVE Effective(r, q)'
    <2>1. /\ \E i \in 1..Len(audit) : audit[i] = [request |-> r, project |-> q]
          /\ status[q] # "absent"
        BY <1>14 DEF Effective
    <2>2. \E i \in 1..Len(audit') : audit'[i] = [request |-> r, project |-> q]
        BY <1>7, <2>1
    <2>3. CASE r.target # NoProject
        BY <1>3, <1>14, <2>1, <2>2, <2>3 DEF Effective
    <2>4. CASE r.target = NoProject
        <3>1. messages'[q] # <<>> /\ messages'[q][1] = r.content
            BY <1>3, <1>14, <2>1, <2>4 DEF Effective
        <3>2. Op(s) = "create" => p # q
            BY <1>3, <2>1
        <3>3. \A i \in 1..Len(audit') : Creates(i)' /\ audit'[i].project = q => audit'[i].request = r
            BY <1>7, <1>14, <2>4, <3>2 DEF Effective, Creates, Op
        <3> QED
            BY <1>3, <2>1, <2>2, <2>4, <3>1, <3>3 DEF Effective
    <2> QED
        BY <2>3, <2>4
<1>15. Effective(req[s], p)'
    <2>1. \E i \in 1..Len(audit') : audit'[i] = [request |-> req[s], project |-> p]
        BY <1>7
    <2>2. CASE Op(s) # "create"
        BY <1>2, <1>3, <2>1, <2>2 DEF Effective
    <2>3. CASE Op(s) = "create"
        <3>1. messages'[p] # <<>> /\ messages'[p][1] = req[s].content
            BY <1>3, <2>3
        <3>2. \A i \in 1..Len(audit) : audit[i].project # p
            BY <1>3, <1>11, <2>3
        <3>3. \A i \in 1..Len(audit') : audit'[i].project = p => audit'[i].request = req[s]
            BY <1>7, <3>2
        <3> QED
            BY <1>2, <1>3, <2>1, <2>3, <3>1, <3>3 DEF Effective
    <2> QED
        BY <2>2, <2>3
<1>16. StoredHasEffect'
    <2>1. ASSUME NEW q \in Keys, q # k, keyState'[q] = "stored"
          PROVE  Effective(hash[q], response[q])'
        <3>1. Effective(hash[q], response[q]) /\ hash[q] \in Requests /\ response[q] \in Projects
            BY <1>5, <2>1 DEF IInv, StoredHasEffect, Effective, TypeOK
        <3>2. hash'[q] = hash[q] /\ response'[q] = response[q]
            BY <1>5, <2>1
        <3>3. Effective(hash[q], response[q])'
            BY <1>14, <3>1, <3>2 DEF Effective, Creates
        <3> QED
            BY <3>3
    <2>2. Effective(hash[k], response[k])'
        BY <1>2, <1>4, <1>5, <1>15 DEF Effective, Creates
    <2> QED
        BY <1>2, <2>1, <2>2 DEF StoredHasEffect
<1>17. AnswerIsTheEffect'
    <2>1. Effective(req[s], answer[s])'
        BY <1>2, <1>6, <1>15 DEF Effective, Creates
    <2>2. ASSUME NEW t \in Slots, t # s, pc'[t] = "answered" /\ code'[t] = "ok"
          PROVE  Effective(req[t], answer[t])'
        <3>1. Effective(req[t], answer[t])
            BY <1>6, <2>2 DEF IInv, AnswerIsTheEffect
        <3>2. req'[t] = req[t] /\ answer'[t] = answer[t]
            BY <1>2, <1>6, <2>2
        <3>3. req[t] \in Requests /\ answer[t] \in Projects
            BY <3>1 DEF IInv, TypeOK, Effective
        <3> QED
            BY <1>14, <3>1, <3>2, <3>3 DEF Effective, Creates
    <2> QED
        BY <2>1, <2>2 DEF AnswerIsTheEffect
<1>18. NoAbandonedKey'
    <2>1. \A q \in Keys \ {k} : holder[q] = s => keyState[q] # "held"
        BY DEF IInv, NoAbandonedKey
    <2> QED
        BY <1>2, <1>5, <1>6, <2>1 DEF IInv, NoAbandonedKey
<1> QED
    BY <1>8, <1>9, <1>10, <1>12, <1>13, <1>16, <1>17, <1>18 DEF IInv

-----------------------------------------------------------------------------
(* The theorems *)

LEMMA NextIInv == IInv /\ [Next]_vars => IInv'
<1> SUFFICES ASSUME IInv, [Next]_vars PROVE IInv'
    OBVIOUS
<1>1. CASE UNCHANGED vars
    <2>1. UNCHANGED <<status, title, messages, running, keyState, holder, hash, response, audit,
                      pc, req, code, answer, sent>>
        BY <1>1 DEF vars, projectVars, keyVars, slotVars
    <2> QED
        <3>1. TypeOK'
            BY <2>1 DEF IInv, TypeOK
        <3>2. ClaimsHeld' /\ TargetsExist' /\ NoAbandonedKey'
            BY <2>1 DEF IInv, ClaimsHeld, TargetsExist, NoAbandonedKey, Op
        <3>3. AuditMatchesKeys' /\ StoredHasEffect' /\ EffectAtMostOnce' /\ AnswerIsTheEffect'
            BY <2>1 DEF IInv, AuditMatchesKeys, StoredHasEffect, EffectAtMostOnce,
                AnswerIsTheEffect, Effective, Creates
        <3> QED
            BY <3>1, <3>2, <3>3 DEF IInv
<1>2. ASSUME NEW s \in Slots, NEW r \in Requests, Send(s, r) PROVE IInv'
    BY <1>2, SendIInv
<1>3. ASSUME NEW s \in Slots, BeginIdempotent(s) PROVE IInv'
    BY <1>3, ClaimKeyIInv, ReplayKeyIInv DEF BeginIdempotent
<1>4. ASSUME NEW s \in Slots, RequestStep(s) \/ Deliver(s) \/ Fail(s) PROVE IInv'
    BY <1>3, <1>4, CheckProjectIInv, CommitIInv, RunConflictIInv, DeliverIInv, FailIInv
       DEF RequestStep
<1>5. ASSUME NEW p \in Projects, RunSettles(p) PROVE IInv'
    BY <1>5, RunSettlesIInv
<1> QED
    BY <1>1, <1>2, <1>4, <1>5 DEF Next

LEMMA SpecIInv == Spec => []IInv
<1> QED
    BY InitIInv, NextIInv, PTL DEF Spec

\* Every variable stays in its type, for every number of requests and projects.
THEOREM MutationsTyped == Spec => []TypeOK
<1>1. IInv => TypeOK
    BY DEF IInv
<1> QED
    BY <1>1, SpecIInv, PTL

\* beginIdempotent and completeIdempotent in one transaction make every mutation
\* take effect at most once per key, however its request is repeated.
THEOREM KeysTakeEffectOnce == Spec => []EffectAtMostOnce
<1>1. IInv => EffectAtMostOnce
    BY DEF IInv
<1> QED
    BY <1>1, SpecIInv, PTL

\* A success, replayed or not, is the answer to the request's own effect.
THEOREM SuccessIsTruthful == Spec => []AnswerIsTheEffect
<1>1. IInv => AnswerIsTheEffect
    BY DEF IInv
<1> QED
    BY <1>1, SpecIInv, PTL

\* A failed request leaves its key free: the client may retry with it.
THEOREM FailureFreesTheKey == Spec => []NoAbandonedKey
<1>1. IInv => NoAbandonedKey
    BY DEF IInv
<1> QED
    BY <1>1, SpecIInv, PTL
=============================================================================
