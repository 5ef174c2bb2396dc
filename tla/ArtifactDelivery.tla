--------------------------- MODULE ArtifactDelivery ---------------------------
(***************************************************************************)
(* One execution run from its request to the link the user follows: the    *)
(* text read from the attached files, the skills loaded into the prompt,   *)
(* the draft and its review, the sandbox that validates a page, the file   *)
(* or ZIP built from the draft, the two objects stored, the artifact row   *)
(* and the download.  How the run is claimed, cancelled and recovered is   *)
(* RunBackbone's, how the model is called Generation's.                    *)
(***************************************************************************)
EXTENDS Skills, SiteReview, FileArtifacts

CONSTANTS
    DeliveryRequests,   \* [kind, runtime, budget, finds, files, workspace]
    DeliveryPages,      \* pages a model may write, as sets of traits
    DeliveryDrafts,     \* [kind, parts, faults]: drafts a model may write
    Workspaces          \* whose members follow links

\* The entries of an archive have different names; SlideKey orders the first 99 slides.
AttachmentOK(a) ==
    /\ a.halves \in Nat /\ a.slides \in Seq(1..99)
    /\ \A i, j \in DOMAIN a.slides : a.slides[i] = a.slides[j] => i = j

ASSUME DeliveryAssumption ==
    /\ \A r \in DeliveryRequests :
        /\ r.runtime \in BOOLEAN /\ r.kind \in FileKinds \cup {"static_site"}
        /\ r.budget \in Nat /\ r.files \in Seq(ToSet(r.files))
        /\ \A a \in ToSet(r.files) : AttachmentOK(a)
    /\ \A d \in DeliveryDrafts : d.kind = "spreadsheet" =>
            \A i \in DOMAIN d.parts : d.parts[i].rows \in Seq(Nat)

DefaultBudget == 6000

VARIABLES
    request,    \* what the run was asked for
    stage,      \* where processExecutionRun stands
    context,    \* what was read of the files, in order
    addendum,   \* the skills in the prompt; "used" tells a fallback
    draft,      \* <<>>, or the page's traits or the file's draft
    verdict,    \* the review: whether there was one, of what, and its result
    sandbox,    \* of the page: [state, ttl]
    bundle,     \* what is to be stored
    objects,    \* what object storage holds: key -> content
    artifact,   \* the row of the artifacts table
    result,     \* status and error code of the run
    links       \* signed links handed out: [to, key]

deliveryVars == <<request, stage, context, addendum, draft, verdict, sandbox, bundle,
                  objects, artifact, result, links>>
workVars == <<request, context, addendum, draft, verdict>>
storeVars == <<objects, artifact, links>>

NoRequest == [kind |-> "none", runtime |-> FALSE, budget |-> 0, finds |-> {},
              files |-> <<>>, workspace |-> "none"]
NoVerdict == [made |-> FALSE, of |-> <<>>, passed |-> FALSE]
NoAddendum == [block |-> <<>>, used |-> FALSE]
NoSandbox == [state |-> "none", ttl |-> FALSE]
NoArtifact == [workspace |-> "none", preview |-> <<>>, download |-> <<>>]
Site == request.kind = "static_site"

DeliveryInit ==
    /\ request = NoRequest /\ stage = "idle"
    /\ context = <<>> /\ addendum = NoAddendum
    /\ draft = <<>> /\ verdict = NoVerdict
    /\ sandbox = NoSandbox /\ bundle = NoBundle
    /\ objects = <<>> /\ artifact = NoArtifact
    /\ result = [status |-> "running", code |-> "none"] /\ links = {}

\* finalizeFailure
Finish(status, code) ==
    /\ stage' = "done"
    /\ result' = [status |-> status, code |-> code]
Reject(code) == Finish("failed", code)
Proceed(next) == stage' = next /\ UNCHANGED result

-----------------------------------------------------------------------------
(* The request and its sources *)

Start ==
    /\ stage = "idle"
    /\ request' \in DeliveryRequests
    /\ Proceed("sources")
    /\ UNCHANGED <<context, addendum, draft, verdict, sandbox, bundle, storeVars>>

Analyzable(a) == a.mediaType \in AnalyzableMediaTypes

\* The texts of the files, one after the other.
HalvesOf(files) == [of : {a.name : a \in ToSet(files)}, slides : Seq(Nat)]
TextOf(files) ==
    ForEach(files, <<>>,
            [a \in ToSet(files) |-> [text \in Seq(HalvesOf(files)) |->
                IF Analyzable(a) THEN text \o ExtractAttachmentText(a) ELSE text]])

\* sourceContextForMessage: the first 48 000 characters of the files' text.
SourceContextForMessage(files) ==
    [ok |-> \A a \in ToSet(files) : Analyzable(a) => a.intact /\ ~ExtractThrows(a),
     text |-> SubSeq(TextOf(files), 1, AtMost(Len(TextOf(files)), 4))]

ReadSources ==
    /\ stage = "sources"
    /\ LET read == IF Site THEN [ok |-> TRUE, text |-> <<>>]
                   ELSE SourceContextForMessage(request.files)
       IN  IF read.ok THEN context' = read.text /\ Proceed("prompt")
           ELSE Reject("INTERNAL_ERROR") /\ UNCHANGED context
    /\ UNCHANGED <<request, addendum, draft, verdict, sandbox, bundle, storeVars>>

\* The object cannot be read.
ReadSourcesFails ==
    /\ stage = "sources"
    /\ ~Site /\ \E a \in ToSet(request.files) : Analyzable(a)
    /\ Reject("INTERNAL_ERROR")
    /\ UNCHANGED <<workVars, sandbox, bundle, storeVars>>

\* What applySkillsRuntime asks of the router.
RouterInput ==
    [artifactType |-> request.kind,
     mode |-> IF Site THEN "none" ELSE IF context # <<>> THEN "analyze" ELSE "create",
     uploads |-> <<>>, finds |-> request.finds, budget |-> request.budget]

\* A compilation that fails leaves the prompt as it is.
ApplySkillsRuntime ==
    /\ stage = "prompt"
    /\ \/ /\ request.runtime
          /\ addendum' = [block |-> CompileSkillsAddendum(RouterInput).block, used |-> TRUE]
       \/ UNCHANGED addendum
    /\ Proceed("generate")
    /\ UNCHANGED <<request, context, draft, verdict, sandbox, bundle, storeVars>>

-----------------------------------------------------------------------------
(* The draft and its review *)

\* A page the agent accepts, secured, and its review.
GenerateSite ==
    /\ stage = "generate" /\ Site
    /\ \E page \in DeliveryPages :
        IF Refuses(page) THEN Reject("AGENT_INVALID_RESPONSE") /\ UNCHANGED <<draft, verdict>>
        ELSE /\ draft' = <<Secured(page)>>
             /\ verdict' = [made |-> request.runtime, of |-> <<Secured(page)>>,
                            passed |-> ReviewStaticSiteHtml(Secured(page)).passed]
             /\ Proceed("reviewed")
    /\ UNCHANGED <<request, context, addendum, sandbox, bundle, storeVars>>

ExpectArabic == "arabic" \in request.finds

GenerateFile ==
    /\ stage = "generate" /\ ~Site
    /\ \E d \in DeliveryDrafts :
        /\ d.kind = request.kind
        /\ draft' = <<d>>
        /\ verdict' = [made |-> request.runtime, of |-> <<d>>,
                       passed |-> ReviewGeneratedFileDraft(d.kind, d.faults,
                                                           ExpectArabic).passed]
    /\ Proceed("reviewed")
    /\ UNCHANGED <<request, context, addendum, sandbox, bundle, storeVars>>

GenerationFails ==
    /\ stage = "generate"
    /\ \/ \E code \in {"AGENT_LIMIT_EXCEEDED", "AGENT_REFUSED", "PROVIDER_UNAVAILABLE"} :
            Reject(code)
       \/ Finish("cancelled", "none")
    /\ UNCHANGED <<workVars, sandbox, bundle, storeVars>>

\* The gate: a review that was made must have passed.
ReviewGate ==
    /\ stage = "reviewed"
    /\ IF verdict.made /\ ~verdict.passed
       THEN Reject(IF Site THEN "DESIGN_VALIDATION_FAILED" ELSE "ARTIFACT_VALIDATION_FAILED")
       ELSE Proceed(IF Site THEN "sandbox" ELSE "build")
    /\ UNCHANGED <<workVars, sandbox, bundle, storeVars>>

\* isCancelRequested before the sandbox and before the upload.
StopCancelled ==
    /\ stage \in {"sandbox", "upload"}
    /\ Finish("cancelled", "none")
    /\ UNCHANGED <<workVars, sandbox, bundle, storeVars>>

-----------------------------------------------------------------------------
(* The sandbox *)

CreateSandbox == sandbox' = [state |-> "alive", ttl |-> TRUE]

\* create() answers; it fails; or it times out here and the sandbox starts all the same.
SandboxCreated ==
    /\ stage = "sandbox" /\ sandbox = NoSandbox
    /\ \/ CreateSandbox /\ Proceed("validating")
       \/ Reject("SANDBOX_UNAVAILABLE") /\ UNCHANGED sandbox
       \/ Reject("SANDBOX_TIMEOUT") /\ (CreateSandbox \/ UNCHANGED sandbox)
    /\ UNCHANGED <<workVars, bundle, storeVars>>

\* The finally block: what delete() answers is ignored.
DeleteSandbox ==
    \/ sandbox' = [sandbox EXCEPT !.state = "gone"]
    \/ UNCHANGED sandbox

\* onCreated, the upload and the command; the page is judged in the sandbox.
SandboxReports ==
    /\ stage = "validating"
    /\ \/ sandbox.state = "alive" /\ ~SandboxRefuses(draft[1]) /\ Proceed("build")
       \/ sandbox.state = "alive" /\ SandboxRefuses(draft[1])
            /\ Reject("SANDBOX_VALIDATION_FAILED")
       \/ Reject("SANDBOX_TIMEOUT")
       \/ Reject("SANDBOX_UNAVAILABLE")
    /\ DeleteSandbox
    /\ UNCHANGED <<workVars, bundle, storeVars>>

\* The provider ends a sandbox at the end of its time to live.
SandboxExpires ==
    /\ sandbox.state = "alive" /\ sandbox.ttl
    /\ sandbox' = [sandbox EXCEPT !.state = "gone"]
    /\ UNCHANGED <<workVars, stage, bundle, storeVars, result>>

-----------------------------------------------------------------------------
(* Building, storing and saving *)

\* The preview is the page, the ZIP has the page alone.
BuildStaticSiteBundle(page) == [ok |-> TRUE, download |-> {page}, preview |-> {page}]

Build ==
    /\ stage = "build"
    /\ \E faults \in SUBSET {"size", "compression ratio"} :
        LET built == IF Site THEN BuildStaticSiteBundle(draft[1])
                     ELSE BuildGeneratedFileBundle(draft[1], faults)
        IN  IF ~built.ok THEN Reject("ARTIFACT_GENERATION_ERROR") /\ UNCHANGED bundle
            ELSE \/ bundle' = built /\ Proceed("upload")
                 \/ Reject("ARTIFACT_TOO_LARGE") /\ UNCHANGED bundle
    /\ UNCHANGED <<workVars, sandbox, storeVars>>

FileExtensions == [pdf |-> "pdf", document |-> "docx", spreadsheet |-> "xlsx",
                   presentation |-> "pptx", static_site |-> "zip"]
ArtifactObjectKeys == [preview |-> <<"preview", "html">>,
                       download |-> <<"artifact", FileExtensions[request.kind]>>]

Put(key, content) ==
    objects' = [k \in DOMAIN objects \cup {key} |-> IF k = key THEN content ELSE objects[k]]

PutPreview ==
    /\ stage = "upload"
    /\ \/ Put(ArtifactObjectKeys.preview, bundle.preview) /\ Proceed("second put")
       \/ Reject("STORAGE_UNAVAILABLE") /\ UNCHANGED objects
    /\ UNCHANGED <<workVars, sandbox, bundle, artifact, links>>

\* The row is inserted before the second object is stored.
SaveArtifactEarly ==
    /\ stage = "second put"
    /\ artifact' = [workspace |-> request.workspace, preview |-> ArtifactObjectKeys.preview,
                    download |-> ArtifactObjectKeys.download]
    /\ Finish("succeeded", "none")
    /\ UNCHANGED <<workVars, sandbox, bundle, objects, links>>

\* A put that fails here may have stored its object, and leaves the preview.
PutDownload ==
    /\ stage = "second put"
    /\ \/ Put(ArtifactObjectKeys.download, bundle.download) /\ Proceed("save")
       \/ Reject("STORAGE_UNAVAILABLE") /\ UNCHANGED objects
       \/ Put(ArtifactObjectKeys.download, bundle.download) /\ Reject("STORAGE_UNAVAILABLE")
    /\ UNCHANGED <<workVars, sandbox, bundle, artifact, links>>

\* The transaction fails and processRun rejects: the run stays running.
SaveArtifactFails ==
    /\ stage = "save"
    /\ Proceed("done")
    /\ UNCHANGED <<workVars, sandbox, bundle, storeVars>>

\* One transaction: the row, the assistant's message and the run's success.
SaveArtifact ==
    /\ stage = "save"
    /\ artifact' = [workspace |-> request.workspace, preview |-> ArtifactObjectKeys.preview,
                    download |-> ArtifactObjectKeys.download]
    /\ Finish("succeeded", "none")
    /\ UNCHANGED <<workVars, sandbox, bundle, objects, links>>

-----------------------------------------------------------------------------
(* Downloads *)

\* getArtifactById
GetArtifactById(visitor) == artifact # NoArtifact /\ artifact.workspace = visitor

\* The download route and the preview page sign a link to the row's object.
Follow(visitor) ==
    /\ GetArtifactById(visitor)
    /\ \E key \in {artifact.preview, artifact.download} :
        links' = links \cup {[to |-> visitor, key |-> key]}
    /\ UNCHANGED <<workVars, stage, sandbox, bundle, objects, artifact, result>>

DeliveryStep ==
    \/ ReadSources \/ ReadSourcesFails \/ ApplySkillsRuntime
    \/ GenerateSite \/ GenerateFile \/ GenerationFails \/ ReviewGate \/ StopCancelled
    \/ SandboxCreated \/ SandboxReports \/ Build \/ PutPreview \/ PutDownload \/ SaveArtifact
    \/ SaveArtifactFails

DeliveryNext == Start \/ DeliveryStep \/ SandboxExpires \/ \E v \in Workspaces : Follow(v)

DeliverySpec ==
    /\ DeliveryInit /\ [][DeliveryNext]_deliveryVars
    /\ WF_deliveryVars(DeliveryStep)
    /\ WF_deliveryVars(SandboxExpires)

-----------------------------------------------------------------------------
(* Properties *)

DeliveryTypeOK ==
    /\ request \in DeliveryRequests \cup {NoRequest}
    /\ stage \in {"idle", "sources", "prompt", "generate", "reviewed", "sandbox",
                  "validating", "build", "upload", "second put", "save", "done"}
    /\ sandbox \in [state : {"none", "alive", "gone"}, ttl : BOOLEAN]
    /\ result.status \in {"running", "succeeded", "failed", "cancelled"}
    /\ links \subseteq [to : Workspaces, key : DOMAIN objects]

\* What a file-output run's model reads is the user's own files: no file whose bytes
\* are not those that were uploaded is quoted, and no more than 48 000 characters.
ContextIsTheUsersFiles ==
    /\ Len(context) <= 4
    /\ \A i \in DOMAIN context :
        \E a \in ToSet(request.files) : a.name = context[i].of /\ a.intact

\* The slides of an attached presentation are read in their order, as far as their
\* numbers have as many digits; the tenth sorts before the second.
SlidesAreReadInOrder ==
    \A i \in DOMAIN context :
        LET slides == context[i].slides
        IN  \A a, b \in DOMAIN slides :
                a < b /\ (slides[a] < 10 <=> slides[b] < 10) => slides[a] < slides[b]

\* The instructions in the prompt stay within the configured budget, unless a single
\* skill is already above it.
PromptWithinBudget == addendum.used => WithinBudget(RouterInput, addendum)

\* With the default budget the prompt has the skill that makes this kind of artifact,
\* its quality gate and, when files were read, the reader.
DestinationIsLoaded ==
    addendum.used /\ request.budget = DefaultBudget =>
        DestinationLoaded(RouterInput, addendum)

\* No page reaches the sandbox that the sandbox's own validator refuses: what
\* validateAndSecureStaticSite lets through, secured, is what the sandbox accepts.
SecuredSitePassesSandbox == result.code # "SANDBOX_VALIDATION_FAILED"

\* What is delivered was reviewed when review is on, passed, and is the very page or
\* draft that was reviewed and, for a page, validated in the sandbox.
DeliveredIsReviewed ==
    artifact # NoArtifact =>
        /\ request.runtime => verdict.made /\ verdict.passed /\ verdict.of = draft
        /\ Site => ~SandboxRefuses(draft[1]) /\ objects[artifact.download] = {draft[1]}

\* A row of the artifacts table has both of its objects, holding what was built, from
\* the moment users can see it, however the puts fail.
DeliveredHasItsObjects ==
    artifact # NoArtifact =>
        /\ {artifact.preview, artifact.download} \subseteq DOMAIN objects
        /\ objects[artifact.preview] = bundle.preview
        /\ objects[artifact.download] = bundle.download

\* The preview of a delivered file shows all of its content, except the rows of a
\* sheet after the hundredth, and nothing else but title and summary.
PreviewShowsTheFile == artifact # NoArtifact /\ ~Site => PreviewAgrees(bundle)

\* A link is given only to members of the workspace the run belongs to.
LinksStayInTheWorkspace == \A link \in links : link.to = request.workspace

\* No sandbox outlives its run for ever, whether its creation timed out here, its
\* deletion failed or the page was refused.
SandboxIsGone == []<>(sandbox.state # "alive")

\* What the model is told is the user's own matter and the instructions it needs: the
\* files as they were uploaded, their slides in order, the maker of the artifact among
\* the skills, all within the budget.
PromptIsFaithful ==
    /\ DeliveryTypeOK
    /\ ContextIsTheUsersFiles /\ SlidesAreReadInOrder
    /\ PromptWithinBudget /\ DestinationIsLoaded

\* What users can open is what was reviewed, validated and built, whole, and only theirs.
DeliveryIsSound ==
    /\ SecuredSitePassesSandbox /\ DeliveredIsReviewed
    /\ DeliveredHasItsObjects /\ PreviewShowsTheFile
    /\ LinksStayInTheWorkspace

-----------------------------------------------------------------------------
(* The inductive invariant of DeliveryIsSound *)

Delivered == artifact # NoArtifact

\* The draft is the one reviewed; a page is one the sandbox accepts.
Drafted ==
    /\ verdict.of = draft
    /\ IF Site THEN ~SandboxRefuses(draft[1]) ELSE draft[1] \in DeliveryDrafts

PassedReview == request.runtime => verdict.made /\ verdict.passed

Built == IF Site THEN bundle.download = {draft[1]} ELSE PreviewAgrees(bundle)

PreviewStored ==
    /\ ArtifactObjectKeys.preview \in DOMAIN objects
    /\ objects[ArtifactObjectKeys.preview] = bundle.preview
DownloadStored ==
    /\ ArtifactObjectKeys.download \in DOMAIN objects
    /\ objects[ArtifactObjectKeys.download] = bundle.download

\* What each stage has behind it, and a delivered artifact all of it.
StagesBehind ==
    /\ stage = "reviewed" => Drafted /\ verdict.made = request.runtime
    /\ stage \in {"sandbox", "validating"} => Site
    /\ stage \in {"sandbox", "validating", "build"} => Drafted /\ PassedReview
    /\ stage \in {"upload", "second put", "save"} \/ Delivered =>
        Drafted /\ PassedReview /\ Built
    /\ stage \in {"second put", "save"} \/ Delivered => PreviewStored
    /\ stage = "save" \/ Delivered => DownloadStored

RowIsOfTheRun ==
    /\ stage = "idle" => links = {}
    /\ Delivered =>
        /\ stage = "done"
        /\ artifact = [workspace |-> request.workspace, preview |-> ArtifactObjectKeys.preview,
                       download |-> ArtifactObjectKeys.download]

DeliveryIInv ==
    /\ DeliveryTypeOK
    /\ SecuredSitePassesSandbox /\ LinksStayInTheWorkspace
    /\ StagesBehind /\ RowIsOfTheRun

-----------------------------------------------------------------------------
(* The inductive invariant of PromptIsFaithful *)

\* Nothing is read before the sources are, no skill is compiled before the prompt is.
PromptIInv ==
    /\ stage # "idle" => request \in DeliveryRequests
    /\ stage \in {"idle", "sources"} => context = <<>>
    /\ stage \in {"idle", "sources", "prompt"} => ~addendum.used
    /\ ContextIsTheUsersFiles /\ SlidesAreReadInOrder
    /\ PromptWithinBudget /\ DestinationIsLoaded
=============================================================================
