------------------------------- MODULE MCServices -------------------------------
(***************************************************************************)
(* The services around the runs, each on its own instance: a behaviour is  *)
(* one of them, its scene.  They share no state, so nothing is lost, and   *)
(* one run of TLC checks them all.                                         *)
(***************************************************************************)
EXTENDS ArtifactDelivery, RateLimit, SignIn, WorkerProcess, StorageCheck, AdminReports

VARIABLE scene

servicesVars == <<scene, deliveryVars, limiterVars, signInVars, processVars, storageVars,
                  reportVars>>

ServicesInit ==
    /\ scene \in {"delivery", "limiter", "sign-in", "worker", "storage", "reports"}
    /\ DeliveryInit /\ LimiterInit /\ SignInInit /\ ProcessInit /\ StorageInit /\ ReportsInit

InDelivery(A) == scene = "delivery" /\ A
    /\ UNCHANGED <<scene, limiterVars, signInVars, processVars, storageVars, reportVars>>
InLimiter(A) == scene = "limiter" /\ A
    /\ UNCHANGED <<scene, deliveryVars, signInVars, processVars, storageVars, reportVars>>
InSignIn(A) == scene = "sign-in" /\ A
    /\ UNCHANGED <<scene, deliveryVars, limiterVars, processVars, storageVars, reportVars>>
InWorker(A) == scene = "worker" /\ A
    /\ UNCHANGED <<scene, deliveryVars, limiterVars, signInVars, storageVars, reportVars>>
InStorage(A) == scene = "storage" /\ A
    /\ UNCHANGED <<scene, deliveryVars, limiterVars, signInVars, processVars, reportVars>>
InReports(A) == scene = "reports" /\ A
    /\ UNCHANGED <<scene, deliveryVars, limiterVars, signInVars, processVars, storageVars>>

ServicesNext ==
    \/ InDelivery(DeliveryNext) \/ InLimiter(LimiterNext) \/ InSignIn(SignInNext)
    \/ InWorker(ProcessNext) \/ InStorage(StorageNext) \/ InReports(ReportsNext)

\* The close of a BullMQ worker may wait for Redis; no other step of main does for long.
MainIsNotHeld == step = "closing worker" /\ "worker" \in open => "redis" \in up

ServicesSpec ==
    /\ ServicesInit /\ [][ServicesNext]_servicesVars
    /\ WF_servicesVars(InDelivery(DeliveryStep)) /\ WF_servicesVars(InDelivery(SandboxExpires))
    /\ \A c \in Callers : WF_servicesVars(InLimiter(CallStep(c)))
    /\ WF_servicesVars(InLimiter(WindowEnds))
    /\ WF_servicesVars(InWorker(MainStep /\ MainIsNotHeld))
    /\ WF_servicesVars(InWorker(SweepEnds)) /\ WF_servicesVars(InWorker(JobEnds))
    /\ WF_servicesVars(InStorage(CheckStep))
    /\ WF_servicesVars(InReports(HealthStep))

\* What each service has begun comes to an end: the sandbox is deleted or expires, a
\* refused caller is let in again, the worker exits, the store's check ends and says what
\* it left, and the system page's snapshot comes.
ServicesSettle == SandboxIsGone /\ RefusalEnds /\ ProcessExits /\ CheckEnds /\ SnapshotComes

-----------------------------------------------------------------------------
(* The instance of ArtifactDelivery *)

Attachment(name, type, halves, slides, intact, faults) ==
    [name |-> name, mediaType |-> type, halves |-> halves, slides |-> slides,
     intact |-> intact, faults |-> faults]

MCFiles ==
    {<<>>,
     <<Attachment("a", "text", 3, <<>>, TRUE, {})>>,
     <<Attachment("a", "pdf", 2, <<>>, TRUE, {}), Attachment("b", "image", 2, <<>>, TRUE, {}),
       Attachment("c", "csv", 1, <<>>, TRUE, {}), Attachment("d", "text", 2, <<>>, TRUE, {})>>,
     <<Attachment("a", "presentation", 1, <<3, 1, 2>>, TRUE, {})>>,
     <<Attachment("a", "presentation", 1, [i \in 1..10 |-> 11 - i], TRUE, {})>>,
     <<Attachment("a", "text", 0, <<>>, TRUE, {})>>,
     <<Attachment("a", "document", 1, <<>>, FALSE, {})>>,
     <<Attachment("a", "spreadsheet", 1, <<>>, TRUE, {"macro"})>>}

\* Files go with file outputs; a budget is tight or the default.
MCDeliveryRequests ==
    {r \in [kind : FileKinds \cup {"static_site"}, runtime : BOOLEAN,
            budget : {1, 300, DefaultBudget}, finds : {{"arabic"}, {"pdf"}},
            files : MCFiles, workspace : {"w1"}] :
        /\ r.files # <<>> => r.finds = {"arabic"} /\ r.kind \in {"pdf", "spreadsheet"}
        /\ r.budget # DefaultBudget => r.runtime /\ Len(r.files) \in {0, 1}}

\* A good page and those that lack one trait of it or have a bad one.
MCDeliveryPages ==
    {page \in {Good} \cup {Good \ {a} : a \in Good} \cup {Good \cup {t} : t \in BadTraits} :
        Consistent(page)}

Section(p, b) == [paragraphs |-> p, bullets |-> b]
Sheet(name, headers, rows) == [name |-> name, headers |-> headers, rows |-> rows]
Slide(subtitle, bullets, notes) == [subtitle |-> subtitle, bullets |-> bullets, notes |-> notes]
Draft(kind, parts, faults) == [kind |-> kind, parts |-> parts, faults |-> faults]

MCDeliveryDrafts ==
    {Draft(k, parts, f) : k \in {"pdf", "document"}, f \in SUBSET {"placeholder", "little arabic"},
                          parts \in {<<Section(1, 2)>>, <<Section(0, 0), Section(2, 0)>>}}
        \cup {Draft("spreadsheet", parts, f) : f \in SUBSET {"placeholder", "ragged rows"},
                  parts \in {<<Sheet("s", 2, <<2, 3, 0>>)>>,
                             <<Sheet("s", 1, <<1>>), Sheet("t", 1, <<>>)>>,
                             <<Sheet("s", 1, <<1>>), Sheet("s", 1, <<>>)>>,
                             <<Sheet("s", 1, [i \in 1..101 |-> 1])>>}}
        \cup {Draft("presentation", parts, f) : f \in SUBSET {"empty slide", "crowded slide"},
                  parts \in {<<Slide(TRUE, 0, TRUE), Slide(FALSE, 2, FALSE)>>}}

-----------------------------------------------------------------------------
(* The instance of AdminReports *)

Run(age, status, kind, cost, p, events) ==
    [age |-> age, status |-> status, kind |-> kind,
     model |-> IF status \in {"queued", "running"} THEN "null" ELSE "model", cost |-> cost,
     project |-> p, events |-> events,
     ending |-> IF status \in {"queued", "running"} THEN 0 ELSE events]

\* A run of last month, one with more events than are shown, one that is about to succeed.
MCFirstRuns ==
    <<Run("before", "succeeded", "execution", 1, 1, 4),
      Run("month", "succeeded", "execution", 2, 2, 5),
      Run("month", "succeeded", "planning", 1, 3, 4), Run("today", "failed", "planning", 0, 1, 2),
      Run("today", "queued", "planning", 0, 3, 1), Run("today", "running", "execution", 0, 1, 2)>>

MCFirstArtifacts == <<1, 2>>

Project(owner, kind, found) ==
    [owner |-> owner, kind |-> kind, status |-> "active", found |-> found]
MCFirstProjects ==
    <<Project(1, "pdf", TRUE), Project(2, "static_site", TRUE), Project(1, "pdf", TRUE)>>

User(role) == [role |-> role, status |-> "active", plan |-> "free", found |-> TRUE]
MCFirstUsers == <<User("admin"), User("user"), User("user")>>

MCFilters ==
    [runs |-> {<<>>, [status |-> "failed"], [age |-> "today"],
               [status |-> "running", kind |-> "execution", model |-> "null"]},
     users |-> {<<>>, [status |-> "active"], [role |-> "user", plan |-> "free", found |-> TRUE]},
     projects |-> {<<>>, [status |-> "active"], [found |-> TRUE, kind |-> "pdf"]},
     audit |-> {<<>>, [action |-> "run.retried", targetType |-> "run", targetId |-> 1]}]

=============================================================================
