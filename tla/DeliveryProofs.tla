---------------------------- MODULE DeliveryProofs ----------------------------
(***************************************************************************)
(* Proofs about ArtifactDelivery: what users can open is what was          *)
(* reviewed, validated and built, whole and only theirs, whatever requests *)
(* come, whatever the model writes and however the puts fail.              *)
(***************************************************************************)
EXTENDS ArtifactDelivery, FiniteSetTheorems, SequenceTheorems, WellFoundedInduction, TLAPS

-----------------------------------------------------------------------------
(* The judges and the builders *)

\* The sandbox's validator refuses no page that the agent's has accepted and secured.
LEMMA SecuredPasses ==
    ASSUME NEW page, ~Refuses(page)
    PROVE  ~SandboxRefuses(Secured(page))
BY DEF Refuses, SandboxRefuses, Secured

\* A section is shown as it is written, but for the numbers of a PDF.
LEMMA DocumentsAgree ==
    ASSUME NEW d, NEW b, b.preview = DocumentPreview(d),
           b.download = PdfLines(d) \/ b.download = DocxLines(d)
    PROVE  PreviewAgrees(b)
<1>1. CASE b.download = DocxLines(d)
    BY <1>1 DEF PreviewAgrees, DocumentPreview, PreviewShell, DocxLines
<1>2. CASE b.download = PdfLines(d)
    <2>1. b.preview \subseteq b.download
        BY <1>2 DEF DocumentPreview, PreviewShell, PdfLines, PartLines
    <2>2. ASSUME NEW line \in b.download, line \notin b.preview PROVE line[1] = "number"
        <3>1. PICK i \in DOMAIN d.parts : line \in Lines("number", i, 1)
            BY <1>2, <2>2 DEF DocumentPreview, PreviewShell, PdfLines, PartLines
        <3> QED
            BY <3>1 DEF Lines
    <2> QED
        BY <2>1, <2>2 DEF PreviewAgrees
<1> QED
    BY <1>1, <1>2

LEMMA PresentationsAgree ==
    ASSUME NEW d, NEW b, b.preview = PresentationPreview(d), b.download = PptxLines(d)
    PROVE  PreviewAgrees(b)
<1>1. b.preview \ {Title, Summary} \subseteq b.download
    BY DEF PresentationPreview, PreviewShell, PptxLines, PartLines
<1>2. ASSUME NEW line \in b.download, line \notin b.preview PROVE line[1] = "number"
    <2>1. PICK i \in DOMAIN d.parts : line \in Lines("number", i, 1)
        BY <1>2 DEF PresentationPreview, PreviewShell, PptxLines, PartLines
    <2> QED
        BY <2>1 DEF Lines
<1> QED
    BY <1>1, <1>2 DEF PreviewAgrees

\* A sheet is shown up to its hundredth row.
LEMMA SpreadsheetsAgree ==
    ASSUME NEW d, NEW b, b.preview = SpreadsheetPreview(d), b.download = XlsxLines(d),
           \A i \in DOMAIN d.parts : d.parts[i].rows \in Seq(Nat)
    PROVE  PreviewAgrees(b)
<1> DEFINE shown(i) == IF Len(d.parts[i].rows) > 100 THEN 100 ELSE Len(d.parts[i].rows)
<1>0. \A i \in DOMAIN d.parts : Len(d.parts[i].rows) \in Nat
    OBVIOUS
<1>1. \A i \in DOMAIN d.parts : /\ shown(i) \in Nat /\ shown(i) <= Len(d.parts[i].rows)
                                /\ \A j \in 1..Len(d.parts[i].rows) : j \in 1..shown(i) \/ j > 100
    BY <1>0
<1>2. b.preview = {Title, Summary}
          \cup UNION {SheetLines(i, d.parts[i], shown(i)) : i \in DOMAIN d.parts}
    BY DEF SpreadsheetPreview, PreviewShell, PartLines
<1>3. b.download = UNION {SheetLines(i, d.parts[i], Len(d.parts[i].rows)) : i \in DOMAIN d.parts}
    BY DEF XlsxLines, PartLines
<1> HIDE DEF shown
<1>4. ASSUME NEW i \in DOMAIN d.parts
      PROVE  /\ SheetLines(i, d.parts[i], shown(i))
                    \subseteq SheetLines(i, d.parts[i], Len(d.parts[i].rows))
             /\ \A line \in SheetLines(i, d.parts[i], Len(d.parts[i].rows)) :
                    line \in SheetLines(i, d.parts[i], shown(i))
                        \/ (line[1] = "row" /\ line[3] > 100)
    <2>1. 1..shown(i) \subseteq 1..Len(d.parts[i].rows)
        BY <1>0, <1>1
    <2>2. \A j \in 1..Len(d.parts[i].rows) : j \in 1..shown(i) \/ j > 100
        BY <1>1
    <2> QED
        BY <2>1, <2>2 DEF SheetLines
<1>5. ASSUME NEW line \in b.preview \ {Title, Summary} PROVE line \in b.download
    <2>1. PICK i \in DOMAIN d.parts : line \in SheetLines(i, d.parts[i], shown(i))
        BY <1>2, <1>5
    <2>2. line \in SheetLines(i, d.parts[i], Len(d.parts[i].rows))
        BY <1>4, <2>1
    <2> QED
        BY <1>3, <2>2
<1>6. ASSUME NEW line \in b.download, line \notin b.preview
      PROVE  line[1] = "row" /\ line[3] > 100
    <2>1. PICK i \in DOMAIN d.parts : line \in SheetLines(i, d.parts[i], Len(d.parts[i].rows))
        BY <1>3, <1>6
    <2>2. line \notin SheetLines(i, d.parts[i], shown(i))
        BY <1>2, <1>6
    <2> QED
        BY <1>4, <2>1, <2>2
<1> QED
    BY <1>5, <1>6 DEF PreviewAgrees

\* Whatever file is built, its preview shows it.
LEMMA BuiltFilesAgree ==
    ASSUME NEW d \in DeliveryDrafts, NEW faults, BuildGeneratedFileBundle(d, faults).ok
    PROVE  PreviewAgrees(BuildGeneratedFileBundle(d, faults))
<1> DEFINE b == [ok |-> TRUE, download |-> FileLines(d), preview |-> PreviewLines(d)]
<1>1. BuildGeneratedFileBundle(d, faults) = b
    BY Zenon DEF BuildGeneratedFileBundle, NoBundle
<1>2. b.download = FileLines(d) /\ b.preview = PreviewLines(d)
    OBVIOUS
<1> HIDE DEF b
<1>3. CASE d.kind = "spreadsheet"
    <2>1. FileLines(d) = XlsxLines(d) /\ PreviewLines(d) = SpreadsheetPreview(d)
        BY <1>3 DEF FileLines, PreviewLines
    <2> QED
        BY <1>1, <1>2, <1>3, <2>1, DeliveryAssumption, SpreadsheetsAgree
<1>4. CASE d.kind = "presentation"
    <2>1. FileLines(d) = PptxLines(d) /\ PreviewLines(d) = PresentationPreview(d)
        BY <1>4 DEF FileLines, PreviewLines
    <2> QED
        BY <1>1, <1>2, <2>1, PresentationsAgree
<1>5. CASE d.kind \notin {"spreadsheet", "presentation"}
    <2>1. /\ FileLines(d) = PdfLines(d) \/ FileLines(d) = DocxLines(d)
          /\ PreviewLines(d) = DocumentPreview(d)
        BY <1>5 DEF FileLines, PreviewLines
    <2> QED
        BY <1>1, <1>2, <2>1, DocumentsAgree
<1> QED
    BY <1>3, <1>4, <1>5

-----------------------------------------------------------------------------
(* The steps of the run *)

Stages == {"idle", "sources", "prompt", "generate", "reviewed", "sandbox", "validating",
           "build", "upload", "second put", "save", "done"}
SandboxOK == sandbox \in [state : {"none", "alive", "gone"}, ttl : BOOLEAN]
ResultOK ==
    /\ result.status \in {"running", "succeeded", "failed", "cancelled"}
    /\ result.code # "SANDBOX_VALIDATION_FAILED"

LEMMA DeliveryStarts == DeliveryInit => DeliveryIInv
<1> SUFFICES ASSUME DeliveryInit PROVE DeliveryIInv
    OBVIOUS
<1>1. ~Delivered /\ stage = "idle" /\ links = {}
    BY DEF DeliveryInit, Delivered
<1>2. DeliveryTypeOK
    BY DEF DeliveryInit, DeliveryTypeOK, NoSandbox
<1>3. SecuredSitePassesSandbox /\ LinksStayInTheWorkspace
    BY DEF DeliveryInit, SecuredSitePassesSandbox, LinksStayInTheWorkspace
<1> QED
    BY <1>1, <1>2, <1>3 DEF DeliveryIInv, StagesBehind, RowIsOfTheRun

LEMMA IInvFacts ==
    ASSUME DeliveryIInv
    PROVE  /\ stage \in Stages /\ SandboxOK /\ ResultOK
           /\ stage # "done" => ~Delivered
           /\ request.runtime \in BOOLEAN
<1>1. stage \in Stages /\ SandboxOK /\ ResultOK
    BY DEF DeliveryIInv, DeliveryTypeOK, SecuredSitePassesSandbox, Stages, SandboxOK, ResultOK
<1>2. stage # "done" => ~Delivered
    BY DEF DeliveryIInv, RowIsOfTheRun
<1>3. request \in DeliveryRequests \/ request = NoRequest
    BY DEF DeliveryIInv, DeliveryTypeOK
<1>4. NoRequest.runtime \in BOOLEAN
    BY Zenon DEF NoRequest
<1>5. request.runtime \in BOOLEAN
    BY <1>3, <1>4, DeliveryAssumption
<1> QED
    BY <1>1, <1>2, <1>5

\* A step of the run before its end: nothing is delivered, no link is given, no object
\* goes away.
LEMMA StageStep ==
    ASSUME DeliveryIInv, stage # "done", stage' \in Stages \ {"idle"},
           UNCHANGED <<request, artifact, links>>, DOMAIN objects \subseteq DOMAIN objects',
           SandboxOK', ResultOK', StagesBehind'
    PROVE  DeliveryIInv'
<1>1. ~Delivered' /\ ~Delivered
    BY IInvFacts DEF Delivered
<1>2. DeliveryTypeOK'
    BY DEF DeliveryIInv, DeliveryTypeOK, SandboxOK, ResultOK, Stages
<1>3. SecuredSitePassesSandbox' /\ LinksStayInTheWorkspace'
    BY DEF DeliveryIInv, SecuredSitePassesSandbox, ResultOK, LinksStayInTheWorkspace
<1> QED
    BY <1>1, <1>2, <1>3 DEF DeliveryIInv, RowIsOfTheRun

\* A run that fails or is cancelled delivers nothing.
LEMMA EndsWithout ==
    ASSUME DeliveryIInv, stage # "done", stage' = "done",
           UNCHANGED <<request, artifact, links>>, DOMAIN objects \subseteq DOMAIN objects',
           SandboxOK', ResultOK'
    PROVE  DeliveryIInv'
<1>1. ~Delivered'
    BY IInvFacts DEF Delivered
<1>2. StagesBehind'
    BY <1>1 DEF StagesBehind
<1> QED
    BY <1>2, StageStep DEF Stages

LEMMA FinishFacts ==
    ASSUME NEW status \in {"succeeded", "failed", "cancelled"}, NEW code,
           code # "SANDBOX_VALIDATION_FAILED", Finish(status, code)
    PROVE  stage' = "done" /\ ResultOK'
BY DEF Finish, ResultOK

LEMMA RejectEnds ==
    ASSUME DeliveryIInv, stage # "done", NEW code, code # "SANDBOX_VALIDATION_FAILED",
           Reject(code) \/ Finish("cancelled", code), UNCHANGED <<request, artifact, links>>,
           DOMAIN objects \subseteq DOMAIN objects', SandboxOK'
    PROVE  DeliveryIInv'
BY FinishFacts, EndsWithout DEF Reject

LEMMA StartKeeps == DeliveryIInv /\ Start => DeliveryIInv'
<1> SUFFICES ASSUME DeliveryIInv, Start PROVE DeliveryIInv'
    OBVIOUS
<1>1. /\ stage = "idle" /\ stage' = "sources" /\ request' \in DeliveryRequests
      /\ UNCHANGED <<result, sandbox, objects, artifact, links>>
    BY DEF Start, Proceed, storeVars
<1>2. links' = {} /\ ~Delivered'
    BY <1>1 DEF DeliveryIInv, RowIsOfTheRun, Delivered
<1>3. DeliveryTypeOK'
    BY <1>1, <1>2 DEF DeliveryIInv, DeliveryTypeOK
<1>4. SecuredSitePassesSandbox' /\ LinksStayInTheWorkspace'
    BY <1>1, <1>2 DEF DeliveryIInv, SecuredSitePassesSandbox, LinksStayInTheWorkspace
<1> QED
    BY <1>1, <1>2, <1>3, <1>4 DEF DeliveryIInv, StagesBehind, RowIsOfTheRun

\* Up to the draft nothing is promised of it.
LEMMA EarlyStepsKeep ==
    DeliveryIInv /\ (ReadSources \/ ReadSourcesFails \/ ApplySkillsRuntime \/ GenerationFails)
        => DeliveryIInv'
<1> SUFFICES ASSUME DeliveryIInv,
                    ReadSources \/ ReadSourcesFails \/ ApplySkillsRuntime \/ GenerationFails
             PROVE  DeliveryIInv'
    OBVIOUS
<1>1. /\ stage \in {"sources", "prompt", "generate"}
      /\ UNCHANGED <<request, artifact, links, objects, sandbox>> /\ SandboxOK'
    BY IInvFacts
    DEF ReadSources, ReadSourcesFails, ApplySkillsRuntime, GenerationFails, workVars, storeVars,
        SandboxOK
<1>2. ASSUME NEW next \in {"prompt", "generate"}, Proceed(next) PROVE DeliveryIInv'
    <2>1. stage' = next /\ ResultOK'
        BY <1>2, IInvFacts DEF Proceed, ResultOK
    <2>2. ~Delivered'
        BY <1>1, IInvFacts DEF Delivered
    <2>3. StagesBehind'
        BY <2>1, <2>2 DEF StagesBehind
    <2> QED
        BY <1>1, <2>1, <2>3, StageStep DEF Stages
<1>3. ASSUME NEW code \in {"INTERNAL_ERROR", "AGENT_LIMIT_EXCEEDED", "AGENT_REFUSED",
                           "PROVIDER_UNAVAILABLE", "none"},
             Reject(code) \/ Finish("cancelled", code)
      PROVE  DeliveryIInv'
    BY <1>1, <1>3, RejectEnds
<1> QED
    BY <1>2, <1>3 DEF ReadSources, ReadSourcesFails, ApplySkillsRuntime, GenerationFails

\* A page that goes on is one the sandbox accepts.
LEMMA GenerateSiteKeeps == DeliveryIInv /\ GenerateSite => DeliveryIInv'
<1> SUFFICES ASSUME DeliveryIInv, GenerateSite PROVE DeliveryIInv'
    OBVIOUS
<1>1. /\ stage = "generate" /\ Site
      /\ UNCHANGED <<request, artifact, links, objects, sandbox>> /\ SandboxOK'
    BY IInvFacts DEF GenerateSite, storeVars, SandboxOK
<1>2. PICK page \in DeliveryPages :
        IF Refuses(page) THEN Reject("AGENT_INVALID_RESPONSE") /\ UNCHANGED <<draft, verdict>>
        ELSE /\ draft' = <<Secured(page)>>
             /\ verdict' = [made |-> request.runtime, of |-> <<Secured(page)>>,
                            passed |-> ReviewStaticSiteHtml(Secured(page)).passed]
             /\ Proceed("reviewed")
    BY DEF GenerateSite
<1>3. CASE Refuses(page)
    BY <1>1, <1>2, <1>3, RejectEnds
<1>4. CASE ~Refuses(page)
    <2>1. stage' = "reviewed" /\ ResultOK'
        BY <1>2, <1>4, IInvFacts DEF Proceed, ResultOK
    <2>2. draft' = <<Secured(page)>> /\ draft'[1] = Secured(page)
        BY <1>2, <1>4
    <2>3. verdict'.of = draft' /\ verdict'.made = request.runtime
        BY <1>2, <1>4
    <2>4. ~SandboxRefuses(draft'[1])
        BY <1>4, <2>2, SecuredPasses
    <2>5. Site' /\ request' = request /\ ~Delivered'
        BY <1>1, IInvFacts DEF Site, Delivered
    <2>6. Drafted' /\ verdict'.made = request'.runtime
        BY <2>3, <2>4, <2>5 DEF Drafted
    <2>7. StagesBehind'
        BY <2>1, <2>5, <2>6 DEF StagesBehind
    <2> QED
        BY <1>1, <2>1, <2>7, StageStep DEF Stages
<1> QED
    BY <1>3, <1>4

LEMMA GenerateFileKeeps == DeliveryIInv /\ GenerateFile => DeliveryIInv'
<1> SUFFICES ASSUME DeliveryIInv, GenerateFile PROVE DeliveryIInv'
    OBVIOUS
<1>1. /\ stage = "generate" /\ ~Site
      /\ UNCHANGED <<request, artifact, links, objects, sandbox>> /\ SandboxOK'
    BY IInvFacts DEF GenerateFile, storeVars, SandboxOK
<1>2. PICK d \in DeliveryDrafts :
        /\ draft' = <<d>>
        /\ verdict' = [made |-> request.runtime, of |-> <<d>>,
                       passed |-> ReviewGeneratedFileDraft(d.kind, d.faults,
                                                           ExpectArabic).passed]
    BY DEF GenerateFile
<1>3. stage' = "reviewed" /\ ResultOK'
    BY IInvFacts DEF GenerateFile, Proceed, ResultOK
<1>4. verdict'.of = draft' /\ verdict'.made = request.runtime /\ draft'[1] \in DeliveryDrafts
    BY <1>2
<1>5. ~Site' /\ request' = request /\ ~Delivered'
    BY <1>1, IInvFacts DEF Site, Delivered
<1>6. Drafted' /\ verdict'.made = request'.runtime
    BY <1>4, <1>5 DEF Drafted
<1>7. StagesBehind'
    BY <1>3, <1>5, <1>6 DEF StagesBehind
<1> QED
    BY <1>1, <1>3, <1>7, StageStep DEF Stages

\* The gate lets through what passed its review, if there was to be one.
LEMMA ReviewGateKeeps == DeliveryIInv /\ ReviewGate => DeliveryIInv'
<1> SUFFICES ASSUME DeliveryIInv, ReviewGate PROVE DeliveryIInv'
    OBVIOUS
<1>1. /\ stage = "reviewed" /\ UNCHANGED <<request, draft, verdict>>
      /\ UNCHANGED <<artifact, links, objects, sandbox>> /\ SandboxOK'
    BY IInvFacts DEF ReviewGate, workVars, storeVars, SandboxOK
<1>2. CASE verdict.made /\ ~verdict.passed
    BY <1>1, <1>2, RejectEnds DEF ReviewGate
<1>3. CASE ~(verdict.made /\ ~verdict.passed)
    <2>1. stage' = (IF Site THEN "sandbox" ELSE "build") /\ ResultOK'
        BY <1>3, IInvFacts DEF ReviewGate, Proceed, ResultOK
    <2>2. Drafted /\ verdict.made = request.runtime /\ ~Delivered
        BY <1>1, IInvFacts DEF DeliveryIInv, StagesBehind
    <2>3. PassedReview
        BY <1>3, <2>2, Zenon DEF PassedReview
    <2>4. Drafted' /\ PassedReview' /\ ~Delivered' /\ (Site' <=> Site)
        BY <1>1, <2>2, <2>3 DEF Drafted, PassedReview, Delivered, Site
    <2>5. StagesBehind'
        BY <2>1, <2>4 DEF StagesBehind
    <2> QED
        BY <1>1, <2>1, <2>5, StageStep DEF Stages
<1> QED
    BY <1>2, <1>3

LEMMA StopCancelledKeeps == DeliveryIInv /\ StopCancelled => DeliveryIInv'
<1> SUFFICES ASSUME DeliveryIInv, StopCancelled PROVE DeliveryIInv'
    OBVIOUS
<1>1. /\ stage # "done" /\ UNCHANGED <<request, artifact, links, objects, sandbox>> /\ SandboxOK'
    BY IInvFacts DEF StopCancelled, workVars, storeVars, SandboxOK
<1> QED
    BY <1>1, RejectEnds DEF StopCancelled

\* What is behind a draft that passed stays so while only the sandbox, or the result,
\* changes.
LEMMA DraftStays ==
    ASSUME DeliveryIInv, stage \in {"sandbox", "validating", "build", "upload", "second put",
                                    "save"},
           UNCHANGED <<request, draft, verdict, artifact>>
    PROVE  Drafted /\ Drafted' /\ PassedReview' /\ ~Delivered' /\ (Site' <=> Site)
<1>1. Drafted /\ PassedReview /\ ~Delivered
    BY IInvFacts DEF DeliveryIInv, StagesBehind
<1> QED
    BY <1>1 DEF Drafted, PassedReview, Delivered, Site

LEMMA SandboxCreatedKeeps == DeliveryIInv /\ SandboxCreated => DeliveryIInv'
<1> SUFFICES ASSUME DeliveryIInv, SandboxCreated PROVE DeliveryIInv'
    OBVIOUS
<1>1. /\ stage = "sandbox" /\ UNCHANGED <<request, draft, verdict>>
      /\ UNCHANGED <<artifact, links, objects>>
    BY DEF SandboxCreated, workVars, storeVars
<1>2. SandboxOK'
    <2>1. TRUE \in BOOLEAN
        OBVIOUS
    <2>2. [state |-> "alive", ttl |-> TRUE] \in [state : {"none", "alive", "gone"}, ttl : BOOLEAN]
        BY <2>1
    <2>3. sandbox' = [state |-> "alive", ttl |-> TRUE] \/ sandbox' = sandbox
        BY Zenon DEF SandboxCreated, CreateSandbox
    <2> QED
        BY <2>2, <2>3, IInvFacts DEF SandboxOK
<1>3. CASE Proceed("validating")
    <2>1. stage' = "validating" /\ ResultOK'
        BY <1>3, IInvFacts DEF Proceed, ResultOK
    <2>2. Site
        BY <1>1 DEF DeliveryIInv, StagesBehind
    <2>3. StagesBehind'
        BY <1>1, <2>1, <2>2, DraftStays DEF StagesBehind
    <2> QED
        BY <1>1, <1>2, <2>1, <2>3, StageStep DEF Stages
<1>4. ASSUME NEW code \in {"SANDBOX_UNAVAILABLE", "SANDBOX_TIMEOUT"}, Reject(code)
      PROVE  DeliveryIInv'
    BY <1>1, <1>2, <1>4, RejectEnds
<1> QED
    BY <1>3, <1>4 DEF SandboxCreated

\* The sandbox never refuses the page.
LEMMA SandboxReportsKeeps == DeliveryIInv /\ SandboxReports => DeliveryIInv'
<1> SUFFICES ASSUME DeliveryIInv, SandboxReports PROVE DeliveryIInv'
    OBVIOUS
<1>1. /\ stage = "validating" /\ UNCHANGED <<request, draft, verdict>>
      /\ UNCHANGED <<artifact, links, objects>>
    BY DEF SandboxReports, workVars, storeVars
<1>2. SandboxOK'
    <2>1. sandbox \in [state : {"none", "alive", "gone"}, ttl : BOOLEAN]
        BY IInvFacts DEF SandboxOK
    <2>2. [sandbox EXCEPT !.state = "gone"] \in [state : {"none", "alive", "gone"}, ttl : BOOLEAN]
        BY <2>1
    <2> QED
        BY <2>1, <2>2 DEF SandboxOK, SandboxReports, DeleteSandbox
<1>3. CASE Proceed("build")
    <2>1. stage' = "build" /\ ResultOK'
        BY <1>3, IInvFacts DEF Proceed, ResultOK
    <2>2. StagesBehind'
        BY <1>1, <2>1, DraftStays DEF StagesBehind
    <2> QED
        BY <1>1, <1>2, <2>1, <2>2, StageStep DEF Stages
<1>4. ~SandboxRefuses(draft[1])
    BY <1>1, DraftStays DEF Drafted, DeliveryIInv, StagesBehind
<1>5. ASSUME NEW code \in {"SANDBOX_UNAVAILABLE", "SANDBOX_TIMEOUT"}, Reject(code)
      PROVE  DeliveryIInv'
    BY <1>1, <1>2, <1>5, RejectEnds
<1> QED
    BY <1>3, <1>4, <1>5 DEF SandboxReports

LEMMA SandboxExpiresKeeps == DeliveryIInv /\ SandboxExpires => DeliveryIInv'
<1> SUFFICES ASSUME DeliveryIInv, SandboxExpires PROVE DeliveryIInv'
    OBVIOUS
<1>1. UNCHANGED <<request, draft, verdict, stage, bundle, objects, artifact, links, result>>
    BY DEF SandboxExpires, workVars, storeVars
<1>2. sandbox' = [sandbox EXCEPT !.state = "gone"] /\ SandboxOK
    BY IInvFacts DEF SandboxExpires
<1>3. SandboxOK'
    BY <1>2 DEF SandboxOK
<1>4. DeliveryTypeOK'
    BY <1>1, <1>3 DEF DeliveryIInv, DeliveryTypeOK, SandboxOK
<1>5. /\ SecuredSitePassesSandbox' /\ LinksStayInTheWorkspace'
      /\ RowIsOfTheRun'
    BY <1>1
    DEF DeliveryIInv, SecuredSitePassesSandbox, LinksStayInTheWorkspace, RowIsOfTheRun,
        Delivered, ArtifactObjectKeys
<1>6. StagesBehind'
    BY <1>1
    DEF DeliveryIInv, StagesBehind, Drafted, PassedReview, Built, PreviewStored, DownloadStored,
        Delivered, Site, ArtifactObjectKeys
<1> QED
    BY <1>4, <1>5, <1>6 DEF DeliveryIInv

LEMMA BuildKeeps == DeliveryIInv /\ Build => DeliveryIInv'
<1> SUFFICES ASSUME DeliveryIInv, Build PROVE DeliveryIInv'
    OBVIOUS
<1>1. /\ stage = "build" /\ UNCHANGED <<request, draft, verdict>>
      /\ UNCHANGED <<artifact, links, objects, sandbox>> /\ SandboxOK'
    BY IInvFacts DEF Build, workVars, storeVars, SandboxOK
<1>2. PICK faults \in SUBSET {"size", "compression ratio"} :
        LET built == IF Site THEN BuildStaticSiteBundle(draft[1])
                     ELSE BuildGeneratedFileBundle(draft[1], faults)
        IN  IF ~built.ok THEN Reject("ARTIFACT_GENERATION_ERROR") /\ UNCHANGED bundle
            ELSE \/ bundle' = built /\ Proceed("upload")
                 \/ Reject("ARTIFACT_TOO_LARGE") /\ UNCHANGED bundle
    BY DEF Build
<1> DEFINE built == IF Site THEN BuildStaticSiteBundle(draft[1])
                    ELSE BuildGeneratedFileBundle(draft[1], faults)
<1>3. CASE built.ok /\ bundle' = built /\ Proceed("upload")
    <2>1. stage' = "upload" /\ ResultOK'
        BY <1>3, IInvFacts DEF Proceed, ResultOK
    <2>2. Drafted /\ Drafted' /\ PassedReview' /\ ~Delivered' /\ (Site' <=> Site)
        BY <1>1, DraftStays
    <2>3. Built'
        <3>1. CASE Site
            BY <1>1, <1>3, <2>2, <3>1 DEF Built, BuildStaticSiteBundle
        <3>2. CASE ~Site
            <4>1. draft[1] \in DeliveryDrafts
                BY <2>2, <3>2 DEF Drafted
            <4>2. PreviewAgrees(built)
                BY <1>3, <3>2, <4>1, BuiltFilesAgree
            <4>3. PreviewAgrees(bundle')
                BY <1>3, <4>2
            <4> QED
                BY <2>2, <3>2, <4>3 DEF Built, PreviewAgrees
        <3> QED
            BY <3>1, <3>2
    <2>4. StagesBehind'
        BY <2>1, <2>2, <2>3 DEF StagesBehind
    <2> QED
        BY <1>1, <2>1, <2>4, StageStep DEF Stages
<1>4. ASSUME NEW code \in {"ARTIFACT_GENERATION_ERROR", "ARTIFACT_TOO_LARGE"}, Reject(code)
      PROVE  DeliveryIInv'
    BY <1>1, <1>4, RejectEnds
<1> QED
    BY <1>2, <1>3, <1>4

\* A put stores its object and leaves the others.
LEMMA PutFacts ==
    ASSUME NEW key, NEW content, Put(key, content)
    PROVE  /\ DOMAIN objects \subseteq DOMAIN objects' /\ key \in DOMAIN objects'
           /\ objects'[key] = content
           /\ \A k \in DOMAIN objects : k # key => objects'[k] = objects[k]
BY DEF Put

LEMMA BundleStays ==
    ASSUME DeliveryIInv, stage \in {"upload", "second put", "save"},
           UNCHANGED <<request, draft, verdict, artifact, bundle>>
    PROVE  /\ Drafted' /\ PassedReview' /\ Built' /\ ~Delivered'
           /\ ArtifactObjectKeys' = ArtifactObjectKeys
<1>1. Built
    BY DEF DeliveryIInv, StagesBehind
<1>2. Built' /\ ArtifactObjectKeys' = ArtifactObjectKeys
    BY <1>1 DEF Built, ArtifactObjectKeys, Site
<1> QED
    BY <1>2, DraftStays

\* The two objects have different names.
LEMMA TwoKeys == ArtifactObjectKeys.preview # ArtifactObjectKeys.download
<1>1. <<"preview", "html">>[1] # <<"artifact", FileExtensions[request.kind]>>[1]
    OBVIOUS
<1> QED
    BY <1>1 DEF ArtifactObjectKeys

LEMMA PutPreviewKeeps == DeliveryIInv /\ PutPreview => DeliveryIInv'
<1> SUFFICES ASSUME DeliveryIInv, PutPreview PROVE DeliveryIInv'
    OBVIOUS
<1>1. /\ stage = "upload" /\ UNCHANGED <<request, draft, verdict, bundle>>
      /\ UNCHANGED <<artifact, links, sandbox>> /\ SandboxOK'
    BY IInvFacts DEF PutPreview, workVars, SandboxOK
<1>2. CASE Put(ArtifactObjectKeys.preview, bundle.preview) /\ Proceed("second put")
    <2>1. stage' = "second put" /\ ResultOK'
        BY <1>2, IInvFacts DEF Proceed, ResultOK
    <2>2. PreviewStored' /\ DOMAIN objects \subseteq DOMAIN objects'
        BY <1>1, <1>2, PutFacts, BundleStays DEF PreviewStored
    <2>3. StagesBehind'
        BY <1>1, <2>1, <2>2, BundleStays DEF StagesBehind
    <2> QED
        BY <1>1, <2>1, <2>2, <2>3, StageStep DEF Stages
<1>3. CASE Reject("STORAGE_UNAVAILABLE") /\ UNCHANGED objects
    BY <1>1, <1>3, RejectEnds
<1> QED
    BY <1>2, <1>3 DEF PutPreview

LEMMA PutDownloadKeeps == DeliveryIInv /\ PutDownload => DeliveryIInv'
<1> SUFFICES ASSUME DeliveryIInv, PutDownload PROVE DeliveryIInv'
    OBVIOUS
<1>1. /\ stage = "second put" /\ UNCHANGED <<request, draft, verdict, bundle>>
      /\ UNCHANGED <<artifact, links, sandbox>> /\ SandboxOK'
    BY IInvFacts DEF PutDownload, workVars, SandboxOK
<1>2. CASE Put(ArtifactObjectKeys.download, bundle.download) /\ Proceed("save")
    <2>1. stage' = "save" /\ ResultOK'
        BY <1>2, IInvFacts DEF Proceed, ResultOK
    <2>2. DownloadStored' /\ DOMAIN objects \subseteq DOMAIN objects'
        BY <1>1, <1>2, PutFacts, BundleStays DEF DownloadStored
    <2>3. PreviewStored
        BY <1>1 DEF DeliveryIInv, StagesBehind
    <2>4. PreviewStored'
        BY <1>1, <1>2, <2>3, PutFacts, BundleStays, TwoKeys DEF PreviewStored
    <2>5. StagesBehind'
        BY <1>1, <2>1, <2>2, <2>4, BundleStays DEF StagesBehind
    <2> QED
        BY <1>1, <2>1, <2>2, <2>5, StageStep DEF Stages
<1>3. CASE /\ Reject("STORAGE_UNAVAILABLE")
           /\ UNCHANGED objects \/ Put(ArtifactObjectKeys.download, bundle.download)
    <2>1. DOMAIN objects \subseteq DOMAIN objects'
        BY <1>3, PutFacts
    <2> QED
        BY <1>1, <1>3, <2>1, RejectEnds
<1> QED
    BY <1>2, <1>3 DEF PutDownload

LEMMA SaveArtifactFailsKeeps == DeliveryIInv /\ SaveArtifactFails => DeliveryIInv'
<1> SUFFICES ASSUME DeliveryIInv, SaveArtifactFails PROVE DeliveryIInv'
    OBVIOUS
<1>1. /\ stage # "done" /\ stage' = "done" /\ result' = result
      /\ UNCHANGED <<request, artifact, links, objects, sandbox>>
    BY DEF SaveArtifactFails, Proceed, workVars, storeVars
<1>2. SandboxOK' /\ ResultOK'
    BY <1>1, IInvFacts DEF SandboxOK, ResultOK
<1> QED
    BY <1>1, <1>2, EndsWithout

\* The row is inserted when both objects are stored.
LEMMA SaveArtifactKeeps == DeliveryIInv /\ SaveArtifact => DeliveryIInv'
<1> SUFFICES ASSUME DeliveryIInv, SaveArtifact PROVE DeliveryIInv'
    OBVIOUS
<1>1. /\ stage = "save" /\ UNCHANGED <<request, draft, verdict, bundle>>
      /\ UNCHANGED <<links, sandbox, objects>> /\ stage' = "done" /\ ResultOK'
    BY FinishFacts DEF SaveArtifact, workVars
<1>2. artifact' = [workspace |-> request'.workspace, preview |-> ArtifactObjectKeys'.preview,
                   download |-> ArtifactObjectKeys'.download]
    BY <1>1 DEF SaveArtifact, ArtifactObjectKeys
<1>3. Drafted /\ PassedReview /\ Built /\ PreviewStored /\ DownloadStored
    BY <1>1 DEF DeliveryIInv, StagesBehind
<1>4. Drafted' /\ PassedReview' /\ Built' /\ PreviewStored' /\ DownloadStored'
    BY <1>1, <1>3
    DEF Drafted, PassedReview, Built, PreviewStored, DownloadStored, Site, ArtifactObjectKeys
<1>5. StagesBehind'
    BY <1>1, <1>4 DEF StagesBehind
<1>6. DeliveryTypeOK' /\ LinksStayInTheWorkspace' /\ SecuredSitePassesSandbox'
    BY <1>1
    DEF DeliveryIInv, DeliveryTypeOK, ResultOK, LinksStayInTheWorkspace, SecuredSitePassesSandbox
<1> QED
    BY <1>1, <1>2, <1>5, <1>6 DEF DeliveryIInv, RowIsOfTheRun

\* A link is for the run's workspace, to an object that is stored.
LEMMA FollowKeeps == ASSUME DeliveryIInv, NEW v \in Workspaces, Follow(v) PROVE DeliveryIInv'
<1>1. UNCHANGED <<request, draft, verdict, stage, sandbox, bundle, objects, artifact, result>>
    BY DEF Follow, workVars
<1>2. PICK key \in {artifact.preview, artifact.download} :
        links' = links \cup {[to |-> v, key |-> key]}
    BY DEF Follow
<1>3. /\ Delivered /\ stage = "done" /\ artifact.workspace = v /\ artifact.workspace = request.workspace
      /\ artifact.preview = ArtifactObjectKeys.preview
      /\ artifact.download = ArtifactObjectKeys.download
    BY DEF Follow, GetArtifactById, DeliveryIInv, RowIsOfTheRun, Delivered
<1>4. key \in DOMAIN objects
    BY <1>3 DEF DeliveryIInv, StagesBehind, PreviewStored, DownloadStored
<1>5. DeliveryTypeOK'
    <2> DEFINE L == [to : Workspaces, key : DOMAIN objects]
    <2>a. links \subseteq L
        BY DEF DeliveryIInv, DeliveryTypeOK
    <2>b. [to |-> v, key |-> key] \in L
        BY <1>4
    <2>1. links' \subseteq L
      <3> HIDE DEF L
      <3> QED
        BY <1>2, <2>a, <2>b
    <2>2. UNCHANGED <<request, draft, verdict, stage, sandbox, bundle, objects, artifact, result>>
        BY <1>1
    <2> QED
        BY <2>1, <2>2 DEF DeliveryIInv, DeliveryTypeOK
<1>6. LinksStayInTheWorkspace' /\ SecuredSitePassesSandbox'
    BY <1>1, <1>2, <1>3 DEF DeliveryIInv, LinksStayInTheWorkspace, SecuredSitePassesSandbox
<1>7. StagesBehind' /\ RowIsOfTheRun'
    BY <1>1, <1>3
    DEF DeliveryIInv, StagesBehind, RowIsOfTheRun, Drafted, PassedReview, Built, PreviewStored,
        DownloadStored, Delivered, Site, ArtifactObjectKeys
<1> QED
    BY <1>5, <1>6, <1>7 DEF DeliveryIInv

LEMMA DeliveryKeepsIInv == DeliveryIInv /\ [DeliveryNext]_deliveryVars => DeliveryIInv'
<1> SUFFICES ASSUME DeliveryIInv, [DeliveryNext]_deliveryVars PROVE DeliveryIInv'
    OBVIOUS
<1>1. CASE UNCHANGED deliveryVars
    <2>1. /\ UNCHANGED <<request, draft, verdict, stage, sandbox, bundle>>
          /\ UNCHANGED <<objects, artifact, links, result>>
        BY <1>1 DEF deliveryVars
    <2>2. DeliveryTypeOK'
        BY <2>1 DEF DeliveryIInv, DeliveryTypeOK
    <2>3. SecuredSitePassesSandbox' /\ LinksStayInTheWorkspace' /\ RowIsOfTheRun'
        BY <2>1
        DEF DeliveryIInv, SecuredSitePassesSandbox, LinksStayInTheWorkspace, RowIsOfTheRun,
            Delivered, ArtifactObjectKeys
    <2>4. StagesBehind'
        BY <2>1
        DEF DeliveryIInv, StagesBehind, Drafted, PassedReview, Built, PreviewStored,
            DownloadStored, Delivered, Site, ArtifactObjectKeys
    <2> QED
        BY <2>2, <2>3, <2>4 DEF DeliveryIInv
<1> QED
    BY <1>1, StartKeeps, EarlyStepsKeep, GenerateSiteKeeps, GenerateFileKeeps, ReviewGateKeeps,
       StopCancelledKeeps, SandboxCreatedKeeps, SandboxReportsKeeps, SandboxExpiresKeeps,
       BuildKeeps, PutPreviewKeeps, PutDownloadKeeps, SaveArtifactFailsKeeps, SaveArtifactKeeps,
       FollowKeeps
    DEF DeliveryNext, DeliveryStep

LEMMA DeliveryIsSafe == DeliveryIInv => DeliveryIsSound
<1> SUFFICES ASSUME DeliveryIInv PROVE DeliveryIsSound
    OBVIOUS
<1>1. ASSUME Delivered
      PROVE  /\ Drafted /\ PassedReview /\ Built /\ PreviewStored /\ DownloadStored
             /\ artifact.preview = ArtifactObjectKeys.preview
             /\ artifact.download = ArtifactObjectKeys.download
    BY <1>1 DEF DeliveryIInv, StagesBehind, RowIsOfTheRun
<1>2. DeliveredIsReviewed
    BY <1>1 DEF DeliveredIsReviewed, Delivered, Drafted, PassedReview, Built, DownloadStored
<1>3. DeliveredHasItsObjects
    BY <1>1 DEF DeliveredHasItsObjects, Delivered, PreviewStored, DownloadStored
<1>4. PreviewShowsTheFile
    BY <1>1 DEF PreviewShowsTheFile, Delivered, Built
<1> QED
    BY <1>2, <1>3, <1>4 DEF DeliveryIInv, DeliveryIsSound

\* What users can open was reviewed and passed when review is on, is accepted by the
\* sandbox if it is a page, has both its objects as they were built, its preview shows all
\* of its file, and links to it are given only in its workspace: for any requests, pages
\* and drafts, and whatever fails on the way.
THEOREM WhatIsDeliveredIsSound == DeliverySpec => []DeliveryIsSound
BY DeliveryStarts, DeliveryKeepsIInv, DeliveryIsSafe, PTL DEF DeliverySpec

\* The state of the run, its links and its sandbox are what they should be.
THEOREM DeliveryTypeCorrect == DeliverySpec => []DeliveryTypeOK
<1>1. DeliveryIInv => DeliveryTypeOK
    BY DEF DeliveryIInv
<1> QED
    BY DeliveryStarts, DeliveryKeepsIInv, <1>1, PTL DEF DeliverySpec

-----------------------------------------------------------------------------
(* Loops and sorted arrays *)

LEMMA LeastElement ==
    ASSUME NEW S \in SUBSET Nat, S # {}
    PROVE  \E m \in S : \A n \in S : m <= n
<1>1. PICK m \in S : \A n \in S : <<n, m>> \notin OpToRel(<, Nat)
    BY WFMin, NatLessThanWellFounded
<1>2. \A n \in S : ~(n < m)
    BY <1>1 DEF OpToRel
<1> QED
    BY <1>2

\* What a loop has gathered before each of its rounds, and after the last.
Gathers(after, A, s, start, step) ==
    /\ after \in [0..Len(s) -> A]
    /\ after[0] = start
    /\ \A n \in 1..Len(s) : after[n] = step[s[n]][after[n - 1]]
    /\ ForEach(s, start, step) = after[Len(s)]

\* A loop has a value before each of its rounds, and answers the last.
LEMMA ForEachRuns ==
    ASSUME NEW A, NEW E, NEW s \in Seq(E), NEW start \in A, NEW step \in [E -> [A -> A]]
    PROVE  \E after : Gathers(after, A, s, start, step)
<1> DEFINE N == Len(s)
           Chain(f, m) == \A n \in 0..m : f[n] = IF n = 0 THEN start ELSE step[s[n]][f[n - 1]]
           Bad == {m \in 0..N : ~\E f \in [0..m -> A] : Chain(f, m)}
           Body(f) == [n \in 0..N |-> IF n = 0 THEN start ELSE step[s[n]][f[n - 1]]]
<1>0. N \in Nat /\ start \in A /\ \A n \in 1..N : s[n] \in E
    OBVIOUS
<1>1. ASSUME NEW n \in 1..N, NEW a \in A PROVE step[s[n]][a] \in A
    BY <1>0
<1> HIDE DEF N
<1>2. ASSUME Bad # {} PROVE FALSE
    <2>1. PICK m \in Bad : \A k \in Bad : m <= k
        <3>1. Bad \in SUBSET Nat
            BY <1>0
        <3> HIDE DEF Bad
        <3> QED
            BY <1>2, <3>1, LeastElement
    <2>2. m # 0
        <3>1. [n \in 0..0 |-> start] \in [0..0 -> A] /\ Chain([n \in 0..0 |-> start], 0)
            BY <1>0
        <3> QED
            BY <3>1
    <2>3. m - 1 \in 0..N /\ m - 1 \notin Bad
        <3>1. m \in 0..N /\ m - 1 \in 0..N /\ ~(m <= m - 1)
            BY <1>0, <2>2
        <3> HIDE DEF Bad
        <3> QED
            BY <2>1, <3>1
    <2>4. PICK f \in [0..(m - 1) -> A] : Chain(f, m - 1)
        BY <2>3
    <2> DEFINE g == [n \in 0..m |-> IF n = m THEN step[s[m]][f[m - 1]] ELSE f[n]]
    <2>5. m \in 1..N /\ m - 1 \in 0..(m - 1) /\ 0..m = (0..(m - 1)) \cup {m}
        BY <1>0, <2>1, <2>2
    <2>6. g \in [0..m -> A]
        BY <1>1, <2>4, <2>5
    <2>7. Chain(g, m)
        <3>1. ASSUME NEW n \in 0..m, n # 0 PROVE n - 1 \in 0..(m - 1) /\ n - 1 \in 0..m /\ n - 1 # m
            BY <2>5, <3>1
        <3>2. \A n \in 0..(m - 1) : f[n] = IF n = 0 THEN start ELSE step[s[n]][f[n - 1]]
            BY <2>4
        <3> DEFINE Right(n) == g[n] = IF n = 0 THEN start ELSE step[s[n]][g[n - 1]]
        <3>3. Right(m)
            BY <2>2, <2>5, <3>1
        <3>4. ASSUME NEW n \in 0..(m - 1) PROVE Right(n)
            <4>1. n \in 0..m /\ n # m /\ g[n] = f[n]
                BY <2>5
            <4>2. n # 0 => g[n - 1] = f[n - 1]
                BY <3>1, <4>1
            <4> QED
                BY <3>2, <4>1, <4>2
        <3> HIDE DEF Right
        <3>5. \A n \in 0..m : Right(n)
            BY <2>5, <3>3, <3>4
        <3> QED
            BY <3>5 DEF Right
    <2> QED
        BY <2>1, <2>6, <2>7
<1>3. PICK f \in [0..N -> A] : Chain(f, N)
    <2>1. N \in 0..N
        BY <1>0
    <2>2. N \notin Bad
        <3> HIDE DEF Bad
        <3> QED
            BY <1>2
    <2> HIDE DEF Chain
    <2> QED
        BY <2>1, <2>2
<1>4. f = Body(f)
    BY <1>3
<1> DEFINE after == CHOOSE g : g = Body(g)
<1>5. after = Body(after)
    <2> HIDE DEF Body
    <2> QED
    BY <1>4
<1>6. ForEach(s, start, step) = after[N]
    BY DEF ForEach, N
<1>7. /\ after[0] = start
      /\ \A n \in 1..N : after[n] = step[s[n]][after[n - 1]]
    <2>1. \A n \in 0..N : after[n] = IF n = 0 THEN start ELSE step[s[n]][after[n - 1]]
        <3> HIDE DEF after
        <3> QED
        BY <1>5
    <2> HIDE DEF after
    <2> QED
        BY <2>1, <1>0
<1>8. after \in [0..N -> A]
    <2>1. after = [n \in 0..N |-> IF n = 0 THEN start ELSE step[s[n]][after[n - 1]]]
        <3> HIDE DEF after
        <3> QED
            BY <1>5
    <2> HIDE DEF after
    <2> DEFINE Out == {n \in 0..N : after[n] \notin A}
    <2>2. ASSUME Out # {} PROVE FALSE
        <3>1. PICK m \in Out : \A k \in Out : m <= k
            <4>1. Out \in SUBSET Nat
                BY <1>0
            <4> HIDE DEF Out
            <4> QED
                BY <2>2, <4>1, LeastElement
        <3>2. m # 0
            BY <1>0, <1>7
        <3>3. m \in 1..N /\ m - 1 \in 0..N /\ m - 1 \notin Out
            <4>1. m \in 1..N /\ m - 1 \in 0..N /\ ~(m <= m - 1)
                BY <1>0, <3>2
            <4> HIDE DEF Out
            <4> QED
                BY <3>1, <4>1
        <3> QED
            <4>1. after[m - 1] \in A /\ after[m] = step[s[m]][after[m - 1]]
                BY <1>7, <3>3
            <4> QED
                BY <1>1, <3>1, <3>3, <4>1
    <2> QED
        BY <2>1, <2>2
<1> HIDE DEF after
<1> QED
    BY <1>6, <1>7, <1>8 DEF N, Gathers

\* What holds before the loop and is kept by each of its rounds holds after it.
LEMMA ForEachReaches ==
    ASSUME NEW A, NEW E, NEW s \in Seq(E), NEW start, NEW step \in [E -> [A -> A]],
           NEW inv \in [0..Len(s) -> SUBSET A], start \in inv[0],
           \A n \in 1..Len(s) : \A a \in inv[n - 1] : step[s[n]][a] \in inv[n]
    PROVE  ForEach(s, start, step) \in inv[Len(s)]
<1>1. Len(s) \in Nat /\ start \in A
    <2>1. 0 \in 0..Len(s) /\ Len(s) \in Nat
        OBVIOUS
    <2>2. inv[0] \in SUBSET A
        BY <2>1
    <2> QED
        BY <2>1, <2>2
<1>2. PICK after : Gathers(after, A, s, start, step)
    BY <1>1, ForEachRuns
<1>3. /\ after[0] = start
      /\ \A n \in 1..Len(s) : after[n] = step[s[n]][after[n - 1]]
      /\ ForEach(s, start, step) = after[Len(s)]
    BY <1>2 DEF Gathers
<1> DEFINE Out == {n \in 0..Len(s) : after[n] \notin inv[n]}
<1>4. ASSUME Out # {} PROVE FALSE
    <2>1. PICK m \in Out : \A k \in Out : m <= k
        <3>1. Out \in SUBSET Nat
            BY <1>1
        <3> HIDE DEF Out
        <3> QED
            BY <1>4, <3>1, LeastElement
    <2>2. m # 0
        BY <1>3
    <2>3. m \in 1..Len(s) /\ m - 1 \in 0..Len(s) /\ m - 1 \notin Out
        <3>1. m \in 1..Len(s) /\ m - 1 \in 0..Len(s) /\ ~(m <= m - 1)
            BY <1>1, <2>2
        <3> HIDE DEF Out
        <3> QED
            BY <2>1, <3>1
    <2> QED
        BY <1>3, <2>1, <2>3
<1> QED
    BY <1>1, <1>3, <1>4

\* How many of the elements have a lower key, plus one.
RankBy(key, n) == [j \in 1..n |-> Cardinality({k \in 1..n : key[k] < key[j]}) + 1]

\* Different keys have different ranks, in their order, and every rank is taken.
LEMMA RanksOfKeys ==
    ASSUME NEW n \in Nat, NEW key \in [1..n -> Nat],
           \A j, k \in 1..n : key[j] = key[k] => j = k
    PROVE  /\ RankBy(key, n) \in [1..n -> 1..n]
           /\ \A j, k \in 1..n : key[j] < key[k] <=> RankBy(key, n)[j] < RankBy(key, n)[k]
           /\ \A j, k \in 1..n : RankBy(key, n)[j] = RankBy(key, n)[k] => j = k
           /\ \A i \in 1..n : \E j \in 1..n : RankBy(key, n)[j] = i
<1> DEFINE Below(j) == {k \in 1..n : key[k] < key[j]}
           rank == RankBy(key, n)
<1>1. IsFiniteSet(1..n) /\ Cardinality(1..n) = n
    BY FS_Interval
<1>2. ASSUME NEW j \in 1..n
      PROVE  Cardinality(Below(j)) \in Nat /\ IsFiniteSet(Below(j)) /\ Cardinality(Below(j)) < n
    <2>1. Below(j) \in SUBSET (1..n) /\ j \notin Below(j) /\ j \in 1..n
        OBVIOUS
    <2> HIDE DEF Below
    <2>2. IsFiniteSet(Below(j)) /\ Cardinality(Below(j)) <= n
        BY <1>1, <2>1, FS_Subset
    <2>3. Cardinality(Below(j)) \in Nat
        BY <2>2, FS_CardinalityType
    <2>4. Cardinality(Below(j)) # n
        BY <1>1, <2>1, FS_Subset
    <2> QED
        BY <2>2, <2>3, <2>4
<1>3. \A j \in 1..n : rank[j] = Cardinality(Below(j)) + 1
    BY DEF RankBy
<1>4. ASSUME NEW j \in 1..n, NEW k \in 1..n, key[j] < key[k]
      PROVE  rank[j] < rank[k]
    <2>1. Below(j) \in SUBSET Below(k) /\ j \in Below(k) /\ j \notin Below(j)
        BY <1>4
    <2> HIDE DEF Below, rank
    <2>2. IsFiniteSet(Below(k)) /\ Cardinality(Below(j)) \in Nat /\ Cardinality(Below(k)) \in Nat
        BY <1>2
    <2>3. rank[j] = Cardinality(Below(j)) + 1 /\ rank[k] = Cardinality(Below(k)) + 1
        BY <1>3
    <2>4. Cardinality(Below(j)) <= Cardinality(Below(k))
          /\ Cardinality(Below(j)) # Cardinality(Below(k))
        BY <2>1, <2>2, FS_Subset
    <2> QED
        BY <2>2, <2>3, <2>4
<1>5. rank \in [1..n -> 1..n]
    <2>1. ASSUME NEW j \in 1..n PROVE Cardinality(Below(j)) + 1 \in 1..n
        <3> HIDE DEF Below
        <3> QED
            BY <1>2
    <2> QED
        BY <2>1 DEF RankBy
<1> HIDE DEF Below, rank
<1>6. \A j, k \in 1..n : key[j] < key[k] => rank[j] < rank[k]
    BY <1>4
<1>7. \A j \in 1..n : rank[j] \in Nat /\ key[j] \in Nat
    BY <1>5
<1>8. \A j, k \in 1..n : rank[j] = rank[k] => j = k
    <2>1. ASSUME NEW j \in 1..n, NEW k \in 1..n, j # k PROVE rank[j] # rank[k]
        <3>1. key[j] # key[k]
            BY <2>1
        <3>2. key[j] < key[k] \/ key[k] < key[j]
            BY <1>7, <3>1
        <3> QED
            BY <1>6, <1>7, <3>2
    <2> QED
        BY <2>1
<1>9. \A j, k \in 1..n : rank[j] < rank[k] => key[j] < key[k]
    <2>1. ASSUME NEW j \in 1..n, NEW k \in 1..n, ~(key[j] < key[k]) PROVE ~(rank[j] < rank[k])
        <3>1. key[k] < key[j] \/ j = k
            BY <1>7, <2>1
        <3> QED
            BY <1>6, <1>7, <3>1
    <2> QED
        BY <2>1
<1>10. rank \in Surjection(1..n, 1..n)
    <2>1. rank \in Injection(1..n, 1..n)
        BY <1>5, <1>8 DEF Injection, IsInjective
    <2> QED
        BY <1>1, <2>1, FS_Injection
<1>11. \A i \in 1..n : \E j \in 1..n : rank[j] = i
    BY <1>10 DEF Surjection
<1> QED
    BY <1>5, <1>6, <1>8, <1>9, <1>11 DEF rank

\* The elements of an array sorted by different keys are all in it, in their order.
LEMMA SortedByKey ==
    ASSUME NEW n \in Nat, NEW key \in [1..n -> Nat],
           \A j, k \in 1..n : key[j] = key[k] => j = k
    PROVE  \E at \in [1..n -> 1..n] :
               /\ \A i \in 1..n :
                    at[i] = CHOOSE j \in 1..n :
                                Cardinality({k \in 1..n : key[k] < key[j]}) = i - 1
               /\ \A i, j \in 1..n : i < j => key[at[i]] < key[at[j]]
               /\ \A j \in 1..n : \E i \in 1..n : at[i] = j
<1> DEFINE Below(j) == Cardinality({k \in 1..n : key[k] < key[j]})
           rank == RankBy(key, n)
           at == [i \in 1..n |-> CHOOSE j \in 1..n : Below(j) = i - 1]
<1>1. \A j \in 1..n : rank[j] = Below(j) + 1
    BY DEF RankBy
<1>2. \A i \in 1..n : at[i] = CHOOSE j \in 1..n : Below(j) = i - 1
    OBVIOUS
<1>0. \A j \in 1..n : Below(j) \in Nat
    <2>1. ASSUME NEW j \in 1..n PROVE Below(j) \in Nat
        <3>1. {k \in 1..n : key[k] < key[j]} \in SUBSET (1..n) /\ IsFiniteSet(1..n)
            BY FS_Interval
        <3>2. IsFiniteSet({k \in 1..n : key[k] < key[j]})
            BY <3>1, FS_Subset
        <3> QED
            BY <3>2, FS_CardinalityType
    <2> QED
        BY <2>1
<1> HIDE DEF Below, rank, at
<1>3. /\ rank \in [1..n -> 1..n]
      /\ \A j, k \in 1..n : key[j] < key[k] <=> rank[j] < rank[k]
      /\ \A j, k \in 1..n : rank[j] = rank[k] => j = k
      /\ \A i \in 1..n : \E j \in 1..n : rank[j] = i
    BY RanksOfKeys DEF rank
<1>4. \A i \in 1..n : at[i] \in 1..n /\ rank[at[i]] = i
    <2>1. ASSUME NEW i \in 1..n PROVE at[i] \in 1..n /\ rank[at[i]] = i
        <3>1. PICK j \in 1..n : rank[j] = i
            BY <1>3
        <3>2. \E k \in 1..n : Below(k) = i - 1
            <4>1. rank[j] = Below(j) + 1 /\ Below(j) \in Nat
                BY <1>0, <1>1
            <4>2. Below(j) = i - 1
                BY <3>1, <4>1
            <4> QED
                BY <4>2
        <3>3. at[i] \in 1..n /\ Below(at[i]) = i - 1
            BY <1>2, <3>2
        <3> QED
            BY <1>1, <3>3
    <2> QED
        BY <2>1
<1>5. at \in [1..n -> 1..n]
    BY <1>4 DEF at
<1>6. ASSUME NEW i \in 1..n, NEW j \in 1..n, i < j PROVE key[at[i]] < key[at[j]]
    <2>1. at[i] \in 1..n /\ at[j] \in 1..n /\ rank[at[i]] = i /\ rank[at[j]] = j
        BY <1>4
    <2>2. rank[at[i]] < rank[at[j]]
        BY <1>6, <2>1
    <2>3. \A a, b \in 1..n : rank[a] < rank[b] => key[a] < key[b]
        BY <1>3, Zenon
    <2> QED
        BY <2>1, <2>2, <2>3, Zenon
<1>7. ASSUME NEW j \in 1..n PROVE \E i \in 1..n : at[i] = j
    <2>1. rank[j] \in 1..n
        BY <1>3
    <2>2. at[rank[j]] \in 1..n /\ rank[at[rank[j]]] = rank[j]
        BY <1>4, <2>1
    <2>3. \A a, b \in 1..n : rank[a] = rank[b] => a = b
        BY <1>3, Zenon
    <2>4. at[rank[j]] = j
        BY <2>2, <2>3, Zenon
    <2> QED
        BY <2>1, <2>4
<1> QED
    BY <1>2, <1>5, <1>6, <1>7 DEF Below

-----------------------------------------------------------------------------
(* The files that are read *)

\* Two slides of a presentation have different names, in the order of their numbers
\* as far as these have as many digits.
LEMMA SlideKeysDiffer ==
    ASSUME NEW a \in 1..99, NEW b \in 1..99
    PROVE  /\ SlideKey(a) \in Nat
           /\ SlideKey(a) = SlideKey(b) => a = b
           /\ SlideKey(a) < SlideKey(b) /\ (a < 10 <=> b < 10) => a < b
<1>1. a = 10 * (a \div 10) + (a % 10) /\ a \div 10 \in 0..9 /\ a % 10 \in 0..9
    OBVIOUS
<1>2. b = 10 * (b \div 10) + (b % 10) /\ b \div 10 \in 0..9 /\ b % 10 \in 0..9
    OBVIOUS
<1> QED
    BY <1>1, <1>2 DEF SlideKey

\* The slides of an attached presentation are read in the order of their names.
LEMMA SlidesAreSorted ==
    ASSUME NEW slides \in Seq(1..99),
           \A i, j \in DOMAIN slides : slides[i] = slides[j] => i = j
    PROVE  /\ ExtractZipXml(slides) \in Seq(1..99)
           /\ \A i, j \in DOMAIN ExtractZipXml(slides) :
                i < j => SlideKey(ExtractZipXml(slides)[i]) < SlideKey(ExtractZipXml(slides)[j])
<1> DEFINE n == Len(slides)
           key == [j \in 1..n |-> SlideKey(slides[j])]
           sorted == ExtractZipXml(slides)
<1>1. n \in Nat /\ DOMAIN slides = 1..n /\ \A j \in 1..n : slides[j] \in 1..99
    <2>1. Len(slides) \in Nat /\ DOMAIN slides = 1..Len(slides)
        BY LenProperties
    <2> QED
        BY <2>1, ElementOfSeq
<1> HIDE DEF n
<1>2. \A j \in 1..n : key[j] = SlideKey(slides[j]) /\ key[j] \in Nat
    BY <1>1, SlideKeysDiffer
<1>3. key \in [1..n -> Nat]
    BY <1>2
<1>4. \A j, k \in 1..n : key[j] = key[k] => j = k
    BY <1>1, <1>2, SlideKeysDiffer
<1> HIDE DEF key
<1>5. PICK at \in [1..n -> 1..n] :
          /\ \A i \in 1..n :
                at[i] = CHOOSE j \in 1..n : Cardinality({k \in 1..n : key[k] < key[j]}) = i - 1
          /\ \A i, j \in 1..n : i < j => key[at[i]] < key[at[j]]
    BY <1>1, <1>3, <1>4, SortedByKey
<1>6. \A j \in 1..n : {k \in 1..n : key[k] < key[j]}
                        = {k \in 1..n : SlideKey(slides[k]) < SlideKey(slides[j])}
    BY <1>2
<1>7. \A i \in 1..n : at[i] = CHOOSE j \in 1..n :
            Cardinality({k \in 1..n : SlideKey(slides[k]) < SlideKey(slides[j])}) = i - 1
    BY <1>5, <1>6
<1>8. sorted = [i \in 1..n |-> slides[at[i]]]
    <2>1. sorted = [i \in 1..n |-> slides[CHOOSE j \in 1..n :
              Cardinality({k \in 1..n : SlideKey(slides[k]) < SlideKey(slides[j])}) = i - 1]]
        BY <1>1 DEF ExtractZipXml, Sort
    <2> QED
        BY <1>7, <2>1
<1> HIDE DEF sorted
<1>9. \A i \in 1..n : at[i] \in 1..n /\ sorted[i] = slides[at[i]]
    BY <1>5, <1>8
<1>10. sorted \in [1..n -> 1..99]
    BY <1>1, <1>8, <1>9
<1>11. sorted \in Seq(1..99) /\ DOMAIN sorted = 1..n
    BY <1>1, <1>10
<1>12. ASSUME NEW i \in 1..n, NEW j \in 1..n, i < j
       PROVE  SlideKey(sorted[i]) < SlideKey(sorted[j])
    <2>1. key[at[i]] < key[at[j]]
        BY <1>5, <1>12
    <2>2. /\ key[at[i]] = SlideKey(slides[at[i]]) /\ sorted[i] = slides[at[i]]
          /\ key[at[j]] = SlideKey(slides[at[j]]) /\ sorted[j] = slides[at[j]]
        BY <1>2, <1>9
    <2> QED
        BY <2>1, <2>2
<1> QED
    BY <1>11, <1>12 DEF sorted

\* What may stand in the context of a run: a half of one of its files, as it was uploaded,
\* with its slides in the order of their names.
Faithful(half, files) ==
    /\ \E a \in ToSet(files) : a.name = half.of /\ a.intact
    /\ half.slides \in Seq(1..99)
    /\ \A i, j \in DOMAIN half.slides :
          i < j => SlideKey(half.slides[i]) < SlideKey(half.slides[j])

LEMMA AttachmentsAreFaithful ==
    ASSUME NEW files, NEW a \in ToSet(files), AttachmentOK(a), a.intact
    PROVE  /\ ExtractAttachmentText(a) \in Seq(HalvesOf(files))
           /\ \A i \in DOMAIN ExtractAttachmentText(a) :
                Faithful(ExtractAttachmentText(a)[i], files)
<1> DEFINE n == AtMost(a.halves, 2)
           slides == IF a.mediaType = "presentation" THEN ExtractZipXml(a.slides) ELSE <<>>
           half == [of |-> a.name, slides |-> slides]
<1>1. n \in Nat
    BY DEF AttachmentOK, AtMost
<1>2. /\ slides \in Seq(1..99)
      /\ \A i, j \in DOMAIN slides : i < j => SlideKey(slides[i]) < SlideKey(slides[j])
    <2>1. CASE a.mediaType = "presentation"
        BY <2>1, SlidesAreSorted DEF AttachmentOK
    <2>2. CASE a.mediaType # "presentation"
        BY <2>2
    <2> QED
        BY <2>1, <2>2
<1>3. ExtractAttachmentText(a) = [i \in 1..n |-> half]
    BY DEF ExtractAttachmentText
<1> HIDE DEF n, slides
<1>4. half.of = a.name /\ half.slides = slides
    OBVIOUS
<1>5. half \in HalvesOf(files)
    <2>1. slides \in Seq(Nat)
        <3>1. 1..99 \subseteq Nat
            OBVIOUS
        <3> QED
            BY <1>2, <3>1, SeqMonotonic
    <2>2. a.name \in {b.name : b \in ToSet(files)}
        OBVIOUS
    <2> QED
        BY <2>1, <2>2 DEF HalvesOf
<1>6. Faithful(half, files)
    BY <1>2, <1>4 DEF Faithful
<1> HIDE DEF half
<1>7. [i \in 1..n |-> half] \in Seq(HalvesOf(files)) /\ DOMAIN [i \in 1..n |-> half] = 1..n
    BY <1>1, <1>5
<1> QED
    BY <1>3, <1>6, <1>7

\* Every half that is read is one of an intact file.
LEMMA TextIsFaithful ==
    ASSUME NEW files, files \in Seq(ToSet(files)),
           \A a \in ToSet(files) : AttachmentOK(a),
           \A a \in ToSet(files) : Analyzable(a) => a.intact
    PROVE  /\ TextOf(files) \in Seq(HalvesOf(files))
           /\ \A i \in DOMAIN TextOf(files) : Faithful(TextOf(files)[i], files)
<1> DEFINE A == Seq(HalvesOf(files))
           E == ToSet(files)
           Fine == {text \in A : \A i \in DOMAIN text : Faithful(text[i], files)}
           step == [a \in E |-> [text \in A |->
                       IF Analyzable(a) THEN text \o ExtractAttachmentText(a) ELSE text]]
           inv == [n \in 0..Len(files) |-> Fine]
<1>1. ASSUME NEW a \in E, Analyzable(a), NEW text \in A
      PROVE  /\ text \o ExtractAttachmentText(a) \in A
             /\ text \in Fine => text \o ExtractAttachmentText(a) \in Fine
    <2> DEFINE more == ExtractAttachmentText(a)
    <2>1. more \in A /\ \A i \in DOMAIN more : Faithful(more[i], files)
        BY <1>1, AttachmentsAreFaithful
    <2> HIDE DEF more
    <2>2. text \o more \in A
        BY <2>1
    <2>3. ASSUME text \in Fine, NEW i \in DOMAIN (text \o more)
          PROVE  Faithful((text \o more)[i], files)
        <3>1. \/ i \in DOMAIN text /\ (text \o more)[i] = text[i]
              \/ i - Len(text) \in DOMAIN more /\ (text \o more)[i] = more[i - Len(text)]
            BY <2>1
        <3> QED
            BY <2>1, <2>3, <3>1
    <2> QED
        BY <2>2, <2>3 DEF more
<1>2. step \in [E -> [A -> A]]
    BY <1>1
<1>3. Len(files) \in Nat /\ \A n \in 1..Len(files) : files[n] \in E /\ n - 1 \in 0..Len(files)
    BY LenProperties, ElementOfSeq
<1>4. /\ inv \in [0..Len(files) -> SUBSET A]
      /\ \A n \in 0..Len(files) : inv[n] = Fine
    OBVIOUS
<1>5. <<>> \in Fine
    OBVIOUS
<1>6. ASSUME NEW a \in E, NEW text \in Fine PROVE step[a][text] \in Fine
    <2>1. text \in A /\ step[a][text]
              = IF Analyzable(a) THEN text \o ExtractAttachmentText(a) ELSE text
        OBVIOUS
    <2> QED
        BY <1>1, <2>1
<1>7. TextOf(files) = ForEach(files, <<>>, step)
    BY DEF TextOf
<1> HIDE DEF E, A, Fine, step, inv
<1>8. files \in Seq(E) /\ <<>> \in inv[0] /\ inv[Len(files)] = Fine
    BY <1>3, <1>4, <1>5 DEF E
<1>9. \A n \in 1..Len(files) : \A text \in inv[n - 1] : step[files[n]][text] \in inv[n]
    BY <1>3, <1>4, <1>6
<1>10. TextOf(files) \in Fine
    BY <1>2, <1>4, <1>7, <1>8, <1>9, ForEachReaches
<1> QED
    BY <1>10 DEF Fine, A

-----------------------------------------------------------------------------
(* The skills *)

\* The registry has twelve skills.
LEMMA Registry ==
    /\ RuntimeSkills[1] = DefineSkill("website-design", 100, 222)
    /\ RuntimeSkills[2] = DefineSkill("arabic-rtl-ui", 95, 260)
    /\ RuntimeSkills[3] = DefineSkill("design-system-generator", 70, 112)
    /\ RuntimeSkills[4] = DefineSkill("premium-depth-shadow", 60, 188)
    /\ RuntimeSkills[5] = DefineSkill("design-critic", 85, 235)
    /\ RuntimeSkills[6] = DefineSkill("website-quality-gate", 80, 96)
    /\ RuntimeSkills[7] = DefineSkill("document-reader", 100, 148)
    /\ RuntimeSkills[8] = DefineSkill("pdf-studio", 100, 240)
    /\ RuntimeSkills[9] = DefineSkill("spreadsheet-studio", 100, 222)
    /\ RuntimeSkills[10] = DefineSkill("document-studio", 100, 176)
    /\ RuntimeSkills[11] = DefineSkill("presentation-studio", 100, 207)
    /\ RuntimeSkills[12] = DefineSkill("artifact-quality-gate", 90, 150)
BY DEF RuntimeSkills, WebsiteSkills, FileSkills

LEMMA Twelve ==
    \A i \in 1..12 : i = 1 \/ i = 2 \/ i = 3 \/ i = 4 \/ i = 5 \/ i = 6 \/ i = 7
                        \/ i = 8 \/ i = 9 \/ i = 10 \/ i = 11 \/ i = 12
OBVIOUS

LEMMA RegistrySize ==
    /\ Len(RuntimeSkills) = 12 /\ DOMAIN RuntimeSkills = 1..12
    /\ ToSet(RuntimeSkills) = {RuntimeSkills[i] : i \in 1..12}
<1>1. Len(RuntimeSkills) = 12 /\ DOMAIN RuntimeSkills = 1..12
    BY DEF RuntimeSkills, WebsiteSkills, FileSkills
<1> QED
    BY <1>1 DEF ToSet

\* They are different and all executable, none of more than 260 tokens.
LEMMA SkillsDiffer ==
    \A i, j \in 1..12 : RuntimeSkills[i].id = RuntimeSkills[j].id => i = j
BY Registry, Twelve DEF DefineSkill

IsPriced(s) == s.priority \in 60..100 /\ s.tokens \in 1..260

LEMMA SkillsArePriced == \A i \in 1..12 : IsPriced(RuntimeSkills[i])
BY Registry, Twelve DEF DefineSkill, IsPriced

LEMMA SkillsAreExecutable == \A i \in 1..12 : IsExecutableSkill(RuntimeSkills[i])
BY Registry, Twelve DEF DefineSkill, IsExecutableSkill, ExecutableTrustLevels

\* Each of their ids has a place in the order of ids, and no other id has.
LEMMA IdsHavePlaces ==
    \A i \in 1..12 : RuntimeSkills[i].id \in {ById[p] : p \in 1..12}
BY Registry, Twelve DEF DefineSkill, ById

LEMMA PlacesHaveIds == \A p \in 1..12 : ById[p] \in SkillIds
<1>1. \A i \in 1..12 : RuntimeSkills[i].id \in SkillIds
    BY RegistrySize DEF SkillIds
<1>2. \A p \in 1..12 : \E i \in 1..12 : ById[p] = RuntimeSkills[i].id
    <2>1. /\ ById[1] = RuntimeSkills[2].id /\ ById[2] = RuntimeSkills[12].id
          /\ ById[3] = RuntimeSkills[5].id /\ ById[4] = RuntimeSkills[3].id
          /\ ById[5] = RuntimeSkills[7].id /\ ById[6] = RuntimeSkills[10].id
          /\ ById[7] = RuntimeSkills[8].id /\ ById[8] = RuntimeSkills[4].id
          /\ ById[9] = RuntimeSkills[11].id /\ ById[10] = RuntimeSkills[9].id
          /\ ById[11] = RuntimeSkills[1].id /\ ById[12] = RuntimeSkills[6].id
        BY Registry DEF DefineSkill, ById
    <2>2. \A i \in {1, 2, 3, 4, 5, 6, 7, 8, 9, 10, 11, 12} : i \in 1..12
        OBVIOUS
    <2> QED
        BY <2>1, <2>2, Twelve
<1>3. ASSUME NEW p \in 1..12 PROVE ById[p] \in SkillIds
    <2>1. PICK i \in 1..12 : ById[p] = RuntimeSkills[i].id
        BY <1>2
    <2> QED
        BY <1>1, <2>1, Zenon
<1> QED
    BY <1>3

LEMMA Positions ==
    \A id \in {ById[p] : p \in 1..12} : Position(id) \in 1..12 /\ ById[Position(id)] = id
<1>1. Len(ById) = 12
    BY DEF ById
<1>2. ASSUME NEW p \in 1..12 PROVE Position(ById[p]) \in 1..12 /\ ById[Position(ById[p])] = ById[p]
    BY <1>1 DEF Position
<1> QED
    BY <1>2

LEMMA ArrayOf ==
    ASSUME NEW S, NEW n \in Nat, NEW f \in [1..n -> S]
    PROVE  f \in Seq(S) /\ Len(f) = n
OBVIOUS

\* Sorted by priority, then by id, the registry still has all of its skills.
LEMMA OrderedIsTheRegistry ==
    /\ Ordered \in Seq(ToSet(RuntimeSkills)) /\ Len(Ordered) = 12
    /\ \A s \in ToSet(RuntimeSkills) : \E i \in 1..12 : Ordered[i] = s
    /\ \A i, j \in 1..12 : Ordered[i].id = Ordered[j].id => i = j
<1> DEFINE p == [j \in 1..12 |-> RuntimeSkills[j].priority]
           q == [j \in 1..12 |-> Position(RuntimeSkills[j].id)]
           key == [j \in 1..12 |-> 13 * (100 - p[j]) + q[j]]
<1>1. ASSUME NEW j \in 1..12
      PROVE  p[j] \in 60..100 /\ q[j] \in 1..12 /\ ById[q[j]] = RuntimeSkills[j].id
    <2>1. RuntimeSkills[j].priority \in 60..100
        <3>1. IsPriced(RuntimeSkills[j])
            BY SkillsArePriced
        <3> QED
            BY <3>1 DEF IsPriced
    <2>2. RuntimeSkills[j].id \in {ById[i] : i \in 1..12}
        BY IdsHavePlaces, Zenon
    <2>3. q[j] \in 1..12 /\ ById[q[j]] = RuntimeSkills[j].id
        BY <2>2, Positions
    <2> QED
        BY <2>1, <2>3
<1>2. \A j, k \in 1..12 : q[j] = q[k] => j = k
    <2>1. \A j, k \in 1..12 : RuntimeSkills[j].id = RuntimeSkills[k].id => j = k
        BY SkillsDiffer, Zenon
    <2> HIDE DEF q
    <2> QED
        BY <1>1, <2>1
<1>3. \A j, k \in 1..12 : Precedes(RuntimeSkills[k], RuntimeSkills[j])
                            <=> p[k] > p[j] \/ (p[k] = p[j] /\ q[k] < q[j])
    BY DEF Precedes
<1>4. \A j \in 1..12 : key[j] = 13 * (100 - p[j]) + q[j]
    OBVIOUS
<1>5. key = [j \in 1..12 |-> key[j]]
    OBVIOUS
<1> HIDE DEF key, p, q
<1>6. ASSUME NEW j \in 1..12, NEW k \in 1..12
      PROVE  /\ key[j] \in Nat
             /\ key[j] = key[k] => j = k
             /\ Precedes(RuntimeSkills[k], RuntimeSkills[j]) <=> key[k] < key[j]
    <2>1. /\ p[j] \in 60..100 /\ q[j] \in 1..12 /\ key[j] = 13 * (100 - p[j]) + q[j]
          /\ p[k] \in 60..100 /\ q[k] \in 1..12 /\ key[k] = 13 * (100 - p[k]) + q[k]
        BY <1>1, <1>4
    <2>2. /\ key[j] \in Nat
          /\ key[j] = key[k] => q[j] = q[k]
          /\ key[k] < key[j] <=> p[k] > p[j] \/ (p[k] = p[j] /\ q[k] < q[j])
        <3> DEFINE pj == p[j]
                   qj == q[j]
                   pk == p[k]
                   qk == q[k]
                   kj == key[j]
                   kk == key[k]
        <3>1. /\ pj \in 60..100 /\ qj \in 1..12 /\ kj = 13 * (100 - pj) + qj
              /\ pk \in 60..100 /\ qk \in 1..12 /\ kk = 13 * (100 - pk) + qk
            BY <2>1
        <3> HIDE DEF pj, qj, pk, qk, kj, kk
        <3>2. /\ kj \in Nat
              /\ kj = kk => qj = qk
              /\ kk < kj <=> pk > pj \/ (pk = pj /\ qk < qj)
            BY <3>1
        <3> QED
            BY <3>2 DEF pj, qj, pk, qk, kj, kk
    <2> QED
        BY <1>2, <1>3, <2>2
<1>7. key \in [1..12 -> Nat]
    BY <1>5, <1>6
<1>8. \A j, k \in 1..12 : key[j] = key[k] => j = k
    BY <1>6
<1>9. PICK at \in [1..12 -> 1..12] :
          /\ \A i \in 1..12 :
                at[i] = CHOOSE j \in 1..12 : Cardinality({k \in 1..12 : key[k] < key[j]}) = i - 1
          /\ \A i, j \in 1..12 : i < j => key[at[i]] < key[at[j]]
          /\ \A j \in 1..12 : \E i \in 1..12 : at[i] = j
    <2>1. 12 \in Nat
        OBVIOUS
    <2> QED
        BY <1>7, <1>8, <2>1, SortedByKey
<1>10. \A j \in 1..12 : {k \in 1..12 : key[k] < key[j]}
                            = {k \in 1..12 : Precedes(RuntimeSkills[k], RuntimeSkills[j])}
    BY <1>6
<1>11. Ordered = [i \in 1..12 |-> RuntimeSkills[at[i]]]
    <2> DEFINE Th(i) == CHOOSE j \in 1..12 :
              Cardinality({k \in 1..12 : Precedes(RuntimeSkills[k], RuntimeSkills[j])}) = i - 1
    <2>1. \A i \in 1..12 : at[i] = Th(i)
        <3> DEFINE Above(j) == Cardinality({k \in 1..12 : key[k] < key[j]})
                   Before(j) == Cardinality({k \in 1..12 :
                                    Precedes(RuntimeSkills[k], RuntimeSkills[j])})
        <3>1. \A j \in 1..12 : Above(j) = Before(j)
            BY <1>10
        <3>2. \A i \in 1..12 : at[i] = CHOOSE j \in 1..12 : Above(j) = i - 1
            BY <1>9
        <3>3. \A i \in 1..12 : Th(i) = CHOOSE j \in 1..12 : Before(j) = i - 1
            OBVIOUS
        <3> HIDE DEF Above, Before, Th
        <3> QED
            BY <3>1, <3>2, <3>3
    <2>2. Ordered = [i \in 1..12 |-> RuntimeSkills[Th(i)]]
        <3>1. DOMAIN RuntimeSkills = 1..12
            BY RegistrySize
        <3> QED
            BY <3>1 DEF Ordered, Sort
    <2> HIDE DEF Th
    <2> QED
        BY <2>1, <2>2
<1>12. \A s \in ToSet(RuntimeSkills) : \E j \in 1..12 : s = RuntimeSkills[j]
    BY RegistrySize
<1>13. \A j \in 1..12 : RuntimeSkills[j] \in ToSet(RuntimeSkills)
    BY RegistrySize
<1>14. Ordered \in [1..12 -> ToSet(RuntimeSkills)]
    BY <1>11, <1>13
<1>15. \A j \in 1..12 : \E i \in 1..12 : Ordered[i] = RuntimeSkills[j]
    BY <1>9, <1>11
<1>16. Ordered \in Seq(ToSet(RuntimeSkills)) /\ Len(Ordered) = 12
    <2> DEFINE n == 12
    <2>1. n \in Nat /\ Ordered \in [1..n -> ToSet(RuntimeSkills)]
        BY <1>14
    <2> HIDE DEF n
    <2>2. Ordered \in Seq(ToSet(RuntimeSkills)) /\ Len(Ordered) = n
        BY <2>1, ArrayOf
    <2> QED
        BY <2>2 DEF n
<1>17. ASSUME NEW i \in 1..12, NEW j \in 1..12, Ordered[i].id = Ordered[j].id PROVE i = j
    <2>1. /\ Ordered[i] = RuntimeSkills[at[i]] /\ Ordered[j] = RuntimeSkills[at[j]]
          /\ at[i] \in 1..12 /\ at[j] \in 1..12
        BY <1>9, <1>11
    <2>2. at[i] = at[j]
        BY <1>17, <2>1, SkillsDiffer, Zenon
    <2>3. ~(key[at[i]] < key[at[j]]) /\ ~(key[at[j]] < key[at[i]])
        BY <1>6, <2>1, <2>2
    <2>4. \A a, b \in 1..12 : a < b => key[at[a]] < key[at[b]]
        BY <1>9, Zenon
    <2>5. ~(i < j) /\ ~(j < i)
        BY <2>3, <2>4, Zenon
    <2> QED
        BY <2>5
<1>18. ASSUME NEW s \in ToSet(RuntimeSkills) PROVE \E i \in 1..12 : Ordered[i] = s
    <2>1. PICK j \in 1..12 : s = RuntimeSkills[j]
        BY <1>12, Zenon
    <2>2. PICK i \in 1..12 : Ordered[i] = RuntimeSkills[j]
        BY <1>15, <2>1, Zenon
    <2> QED
        BY <2>1, <2>2, Zenon
<1>19. \A i, j \in 1..12 : Ordered[i].id = Ordered[j].id => i = j
    BY <1>17, Zenon
<1> QED
    BY <1>16, <1>18, <1>19, Zenon

\* A skill is found again by its id.
LEMMA SkillFound ==
    ASSUME NEW s \in ToSet(RuntimeSkills)
    PROVE  /\ s.id \in SkillIds /\ GetSkill(s.id) = s
           /\ s.tokens \in 1..260 /\ IsExecutableSkill(s)
<1>1. PICK i \in 1..12 : s = RuntimeSkills[i]
    BY RegistrySize
<1>2. \A t \in ToSet(RuntimeSkills) : \E j \in 1..12 : t = RuntimeSkills[j]
    BY RegistrySize
<1>3. \A j, k \in 1..12 : RuntimeSkills[j].id = RuntimeSkills[k].id => j = k
    BY SkillsDiffer, Zenon
<1>4. ASSUME NEW t \in ToSet(RuntimeSkills), t.id = s.id PROVE t = s
    <2>1. PICK j \in 1..12 : t = RuntimeSkills[j]
        BY <1>2
    <2> QED
        BY <1>1, <1>3, <1>4, <2>1, Zenon
<1>5. GetSkill(s.id) = s
    BY <1>4 DEF GetSkill
<1>6. s.tokens \in 1..260 /\ IsExecutableSkill(s)
    <2>1. IsPriced(s)
        BY <1>1, SkillsArePriced
    <2>2. IsExecutableSkill(s)
        BY <1>1, SkillsAreExecutable
    <2> QED
        BY <2>1, <2>2 DEF IsPriced
<1> QED
    BY <1>5, <1>6 DEF SkillIds

LEMMA IdsHaveSkills ==
    ASSUME NEW id \in SkillIds
    PROVE  /\ GetSkill(id) \in ToSet(RuntimeSkills) /\ GetSkill(id).id = id
           /\ GetSkill(id).tokens \in 1..260 /\ IsExecutableSkill(GetSkill(id))
<1>1. PICK s \in ToSet(RuntimeSkills) : s.id = id
    BY DEF SkillIds
<1> QED
    BY <1>1, SkillFound

LEMMA TokensAreNumbers == \A id \in SkillIds : GetSkill(id).tokens \in Nat
<1>1. ASSUME NEW id \in SkillIds PROVE GetSkill(id).tokens \in 1..260
    BY IdsHaveSkills, Zenon
<1> QED
    BY <1>1

\* What TokensOf does with each id.
TokenSteps(ids) == [id \in ToSet(ids) |-> [sum \in Nat |-> sum + GetSkill(id).tokens]]

LEMMA TokenStepsType ==
    ASSUME NEW ids \in Seq(SkillIds)
    PROVE  /\ ids \in Seq(ToSet(ids)) /\ ToSet(ids) \subseteq SkillIds
           /\ TokenSteps(ids) \in [ToSet(ids) -> [Nat -> Nat]]
<1>1. Len(ids) \in Nat /\ DOMAIN ids = 1..Len(ids) /\ \A i \in 1..Len(ids) : ids[i] \in SkillIds
    BY LenProperties, ElementOfSeq
<1>2. ids \in Seq(ToSet(ids)) /\ ToSet(ids) \subseteq SkillIds
    <2>1. ids \in [1..Len(ids) -> ToSet(ids)]
        BY <1>1 DEF ToSet
    <2>2. ToSet(ids) \subseteq SkillIds
        BY <1>1 DEF ToSet
    <2> QED
        BY <1>1, <2>1, <2>2, ArrayOf
<1>3. \A id \in ToSet(ids) : GetSkill(id).tokens \in Nat
    BY <1>2, TokensAreNumbers
<1>4. TokenSteps(ids) \in [ToSet(ids) -> [Nat -> Nat]]
    BY <1>3 DEF TokenSteps
<1> QED
    BY <1>2, <1>4

\* The tokens of one more skill.
LEMMA TokensOfOneMore ==
    ASSUME NEW ids \in Seq(SkillIds), NEW id \in SkillIds
    PROVE  /\ TokensOf(ids) \in Nat
           /\ TokensOf(Append(ids, id)) = TokensOf(ids) + GetSkill(id).tokens
<1> DEFINE n == Len(ids)
           more == Append(ids, id)
           inv(after) == [k \in 0..Len(more) |->
                             IF k = n + 1 THEN {after[n] + GetSkill(id).tokens} ELSE {after[k]}]
<1>1. PICK after : Gathers(after, Nat, ids, 0, TokenSteps(ids))
    <2>1. 0 \in Nat
        OBVIOUS
    <2> QED
        BY <2>1, TokenStepsType, ForEachRuns
<1>2. /\ after \in [0..n -> Nat] /\ after[0] = 0
      /\ \A k \in 1..n : after[k] = TokenSteps(ids)[ids[k]][after[k - 1]]
      /\ TokensOf(ids) = after[n]
    BY <1>1 DEF Gathers, TokensOf, TokenSteps
<1>3. /\ n \in Nat /\ DOMAIN ids = 1..n /\ \A k \in 1..n : ids[k] \in ToSet(ids)
    BY LenProperties DEF ToSet
<1>4. /\ more \in Seq(SkillIds) /\ Len(more) = n + 1
      /\ \A k \in 1..n : more[k] = ids[k]
      /\ more[n + 1] = id
    OBVIOUS
<1>5. /\ more \in Seq(ToSet(more)) /\ TokenSteps(more) \in [ToSet(more) -> [Nat -> Nat]]
      /\ \A k \in 1..(n + 1) : more[k] \in ToSet(more)
    <2>1. DOMAIN more = 1..(n + 1)
        BY <1>4, LenProperties
    <2> QED
        BY <1>4, <2>1, TokenStepsType DEF ToSet
<1>6. GetSkill(id).tokens \in Nat
    BY TokensAreNumbers
<1> HIDE DEF n, more
<1>7. ASSUME NEW k \in 1..n PROVE after[k] = after[k - 1] + GetSkill(ids[k]).tokens
    <2>1. k - 1 \in 0..n /\ after[k - 1] \in Nat
        BY <1>2, <1>3
    <2> QED
        BY <1>2, <1>3, <2>1 DEF TokenSteps
<1>8. inv(after) \in [0..Len(more) -> SUBSET Nat] /\ 0 \in inv(after)[0]
    BY <1>2, <1>3, <1>4, <1>6
<1>9. ASSUME NEW k \in 1..Len(more), NEW a \in inv(after)[k - 1]
      PROVE  TokenSteps(more)[more[k]][a] \in inv(after)[k]
    <2>1. k - 1 \in 0..n /\ k \in 1..(n + 1) /\ a = after[k - 1] /\ a \in Nat
        BY <1>2, <1>3, <1>4, <1>9
    <2>2. TokenSteps(more)[more[k]][a] = a + GetSkill(more[k]).tokens
        BY <1>5, <2>1 DEF TokenSteps
    <2>3. CASE k = n + 1
        <3>1. a + GetSkill(more[k]).tokens = after[n] + GetSkill(id).tokens
            BY <1>3, <1>4, <2>1, <2>3
        <3>2. inv(after)[k] = {after[n] + GetSkill(id).tokens}
            BY <2>3
        <3> QED
            BY <2>2, <3>1, <3>2, Zenon
    <2>4. CASE k \in 1..n
        BY <1>3, <1>4, <1>7, <2>1, <2>2, <2>4
    <2> QED
        BY <1>3, <2>1, <2>3, <2>4
<1>10. ForEach(more, 0, TokenSteps(more)) \in inv(after)[Len(more)]
    <2> HIDE DEF inv
    <2> QED
        BY <1>5, <1>8, <1>9, ForEachReaches
<1>11. TokensOf(more) = after[n] + GetSkill(id).tokens
    BY <1>3, <1>4, <1>10 DEF TokensOf, TokenSteps
<1> QED
    BY <1>2, <1>3, <1>11 DEF more

LEMMA TokensOfNone == TokensOf(<<>>) = 0
<1>1. <<>> \in Seq(SkillIds) /\ Len(<<>>) = 0
    OBVIOUS
<1>2. PICK after : Gathers(after, Nat, <<>>, 0, TokenSteps(<<>>))
    <2>1. 0 \in Nat
        OBVIOUS
    <2> QED
        BY <1>1, <2>1, TokenStepsType, ForEachRuns
<1> QED
    BY <1>1, <1>2 DEF Gathers, TokensOf, TokenSteps

LEMMA AppendedSet ==
    ASSUME NEW S, NEW s \in Seq(S), NEW e \in S
    PROVE  /\ Append(s, e) \in Seq(S) /\ Len(Append(s, e)) = Len(s) + 1
           /\ ToSet(s) \subseteq ToSet(Append(s, e)) /\ e \in ToSet(Append(s, e))
<1>1. /\ Len(s) \in Nat /\ DOMAIN s = 1..Len(s)
      /\ Append(s, e) \in Seq(S) /\ Len(Append(s, e)) = Len(s) + 1
      /\ \A i \in 1..Len(s) : Append(s, e)[i] = s[i]
      /\ Append(s, e)[Len(s) + 1] = e
    BY LenProperties
<1>2. DOMAIN Append(s, e) = 1..(Len(s) + 1)
    BY <1>1, LenProperties
<1>3. ToSet(s) \subseteq ToSet(Append(s, e))
    <2>1. ASSUME NEW i \in 1..Len(s) PROVE s[i] \in ToSet(Append(s, e))
        <3>1. i \in DOMAIN Append(s, e) /\ s[i] = Append(s, e)[i]
            BY <1>1, <1>2
        <3> QED
            BY <3>1 DEF ToSet
    <2> QED
        BY <1>1, <2>1 DEF ToSet
<1>4. e \in ToSet(Append(s, e))
    <2>1. Len(s) + 1 \in DOMAIN Append(s, e)
        BY <1>1, <1>2
    <2> QED
        BY <1>1, <2>1 DEF ToSet
<1> QED
    BY <1>1, <1>3, <1>4

\* The ids kept are different ones of the first n skills of the order.
Once(kept, n) ==
    /\ \A i, j \in DOMAIN kept : kept[i] = kept[j] => i = j
    /\ \A i \in DOMAIN kept : \E j \in 1..n : kept[i] = Ordered[j].id

LEMMA OnceLater ==
    ASSUME NEW n \in 1..12, NEW kept, Once(kept, n - 1)
    PROVE  Once(kept, n)
<1>1. \A j \in 1..(n - 1) : j \in 1..n
    OBVIOUS
<1> QED
    BY <1>1 DEF Once

LEMMA OnceMore ==
    ASSUME NEW n \in 1..12, NEW kept \in Seq(SkillIds), Once(kept, n - 1)
    PROVE  Once(Append(kept, Ordered[n].id), n)
<1> DEFINE id == Ordered[n].id
           more == Append(kept, id)
           m == Len(kept)
<1>1. /\ m \in Nat /\ DOMAIN kept = 1..m /\ DOMAIN more = 1..(m + 1)
      /\ \A i \in 1..m : more[i] = kept[i]
      /\ more[m + 1] = id
    BY LenProperties
<1>2. ASSUME NEW i \in 1..m PROVE kept[i] # id
    <2>1. PICK j \in 1..(n - 1) : kept[i] = Ordered[j].id
        BY <1>1 DEF Once
    <2>2. j \in 1..12 /\ j # n
        BY <2>1
    <2>3. \A a, b \in 1..12 : Ordered[a].id = Ordered[b].id => a = b
        BY OrderedIsTheRegistry, Zenon
    <2> QED
        BY <2>1, <2>2, <2>3, Zenon
<1> HIDE DEF m, id, more
<1>3. \A i \in 1..(m + 1) : i \in 1..m \/ i = m + 1
    BY <1>1
<1>4. \A i, j \in 1..(m + 1) : more[i] = more[j] => i = j
    <2>1. \A i, j \in 1..m : kept[i] = kept[j] => i = j
        BY <1>1 DEF Once
    <2> QED
        BY <1>1, <1>2, <1>3, <2>1
<1>5. \A i \in 1..(m + 1) : \E j \in 1..n : more[i] = Ordered[j].id
    <2>1. ASSUME NEW i \in 1..m PROVE \E j \in 1..n : more[i] = Ordered[j].id
        <3>1. Once(kept, n)
            BY OnceLater
        <3> QED
            BY <1>1, <3>1 DEF Once
    <2>2. \E j \in 1..n : more[m + 1] = Ordered[j].id
        <3>1. n \in 1..n
            OBVIOUS
        <3> QED
            BY <1>1, <3>1 DEF id
    <2> QED
        BY <1>3, <2>1, <2>2
<1>6. Once(more, n)
    BY <1>1, <1>4, <1>5 DEF Once
<1> QED
    BY <1>6 DEF more, id

\* What has been kept of the first n skills of the order: its tokens are counted and
\* within the budget, and the default budget has dropped none of them.
KeptOf(ids, budget, n) ==
    {k \in Kept :
        /\ k.used = TokensOf(k.kept) /\ Once(k.kept, n)
        /\ k.used <= budget \/ Len(k.kept) = 1
        /\ budget = DefaultBudget =>
              /\ k.used <= 260 * n
              /\ \A i \in 1..n : Ordered[i].id \in ids => Ordered[i].id \in ToSet(k.kept)}

\* One round of the greedy choice.
KeepOne(ids, budget, s, k) ==
    IF ~Resolves(s, ids) \/ (k.kept # <<>> /\ k.used + s.tokens > budget) THEN k
    ELSE [kept |-> Append(k.kept, s.id), used |-> k.used + s.tokens]

LEMMA KeepOneKeeps ==
    ASSUME NEW ids, NEW budget \in Nat, NEW n \in 1..12, NEW k \in KeptOf(ids, budget, n - 1)
    PROVE  KeepOne(ids, budget, Ordered[n], k) \in KeptOf(ids, budget, n)
<1> DEFINE s == Ordered[n]
<1>1. s \in ToSet(RuntimeSkills)
    BY OrderedIsTheRegistry, ElementOfSeq
<1>2. s.id \in SkillIds /\ GetSkill(s.id) = s /\ IsExecutableSkill(s)
    BY <1>1, SkillFound
<1>3. s.tokens \in 1..260
    BY <1>1, SkillFound
<1> HIDE DEF s
<1>4. /\ k \in Kept /\ k.kept \in Seq(SkillIds) /\ k.used \in Nat
      /\ k.used = TokensOf(k.kept)
      /\ k.used <= budget \/ Len(k.kept) = 1
      /\ Once(k.kept, n - 1)
    BY DEF KeptOf, Kept
<1>0. Once(k.kept, n)
    BY <1>4, OnceLater
<1>5. budget = DefaultBudget =>
          /\ k.used <= 260 * (n - 1)
          /\ \A i \in 1..(n - 1) : Ordered[i].id \in ids => Ordered[i].id \in ToSet(k.kept)
    BY DEF KeptOf
<1>6. Resolves(s, ids) <=> s.id \in ids
    BY <1>2 DEF Resolves
<1>7. \A i \in 1..n : i \in 1..(n - 1) \/ i = n
    OBVIOUS
<1>8. CASE s.id \notin ids
    <2>1. KeepOne(ids, budget, s, k) = k
        BY <1>6, <1>8 DEF KeepOne
    <2>2. budget = DefaultBudget =>
              /\ k.used <= 260 * n
              /\ \A i \in 1..n : Ordered[i].id \in ids => Ordered[i].id \in ToSet(k.kept)
        <3>1. budget = DefaultBudget => k.used <= 260 * n
            BY <1>4, <1>5
        <3>2. budget = DefaultBudget =>
                \A i \in 1..n : Ordered[i].id \in ids => Ordered[i].id \in ToSet(k.kept)
            BY <1>5, <1>7, <1>8 DEF s
        <3> QED
            BY <3>1, <3>2
    <2> QED
        BY <1>0, <1>4, <2>1, <2>2 DEF KeptOf, s
<1>9. CASE s.id \in ids /\ k.kept # <<>> /\ k.used + s.tokens > budget
    <2>1. KeepOne(ids, budget, s, k) = k
        BY <1>9 DEF KeepOne
    <2>2. budget # DefaultBudget
        <3> DEFINE u == k.used
                   w == s.tokens
        <3>1. u \in Nat /\ w \in 1..260 /\ u + w > budget
            BY <1>3, <1>4, <1>9
        <3>2. budget = DefaultBudget => u <= 260 * (n - 1)
            BY <1>5
        <3> HIDE DEF u, w
        <3> QED
            BY <3>1, <3>2 DEF DefaultBudget
    <2> QED
        BY <1>0, <1>4, <2>1, <2>2 DEF KeptOf, s
<1>10. CASE s.id \in ids /\ ~(k.kept # <<>> /\ k.used + s.tokens > budget)
    <2> DEFINE kk == [kept |-> Append(k.kept, s.id), used |-> k.used + s.tokens]
    <2> DEFINE u == k.used
               w == s.tokens
    <2>a. u \in Nat /\ w \in 1..260 /\ (k.kept # <<>> => u + w <= budget)
        <3>1. u \in Nat /\ w \in 1..260
            BY <1>3, <1>4
        <3>2. k.kept # <<>> => ~(u + w > budget)
            BY <1>10
        <3> HIDE DEF u, w
        <3>3. ~(u + w > budget) => u + w <= budget
            BY <3>1
        <3> QED
            BY <3>1, <3>2, <3>3, Zenon
    <2>b. budget = DefaultBudget => u <= 260 * (n - 1)
        BY <1>5
    <2>1. KeepOne(ids, budget, s, k) = kk
        BY <1>6, <1>10 DEF KeepOne
    <2>2. kk.kept = Append(k.kept, s.id) /\ kk.used = u + w
        OBVIOUS
    <2> HIDE DEF u, w
    <2>3. /\ kk.kept \in Seq(SkillIds) /\ Len(kk.kept) = Len(k.kept) + 1
          /\ ToSet(k.kept) \subseteq ToSet(kk.kept) /\ s.id \in ToSet(kk.kept)
        BY <1>2, <1>4, <2>2, AppendedSet
    <2>4. kk \in Kept
        <3>1. kk.used \in Nat
            BY <2>a, <2>2
        <3> QED
            BY <2>3, <3>1 DEF Kept
    <2>c. Once(kk.kept, n)
        BY <1>4, <2>2, OnceMore DEF s
    <2>5. kk.used = TokensOf(kk.kept)
        BY <1>2, <1>4, <2>2, TokensOfOneMore DEF u, w
    <2>6. kk.used <= budget \/ Len(kk.kept) = 1
        <3>1. k.kept = <<>> => Len(k.kept) = 0
            OBVIOUS
        <3> QED
            BY <2>a, <2>2, <2>3, <3>1
    <2>7. budget = DefaultBudget => kk.used <= 260 * n
        <3>1. budget = DefaultBudget => u + w <= 260 * (n - 1) + 260
            BY <2>a, <2>b
        <3> QED
            BY <2>2, <3>1
    <2>8. budget = DefaultBudget =>
              \A i \in 1..n : Ordered[i].id \in ids => Ordered[i].id \in ToSet(kk.kept)
        BY <1>5, <1>7, <2>3 DEF s
    <2> HIDE DEF kk
    <2> QED
        BY <2>1, <2>4, <2>5, <2>6, <2>7, <2>8, <2>c DEF KeptOf, s
<1> QED
    BY <1>8, <1>9, <1>10

LEMMA KeepFits ==
    ASSUME NEW ids, NEW budget \in Nat
    PROVE  Keep(ids, budget) \in KeptOf(ids, budget, 12)
<1> DEFINE E == ToSet(RuntimeSkills)
           none == [kept |-> <<>>, used |-> 0]
           step == [s \in E |-> [k \in Kept |-> KeepOne(ids, budget, s, k)]]
           inv == [n \in 0..12 |-> KeptOf(ids, budget, n)]
<1>1. Ordered \in Seq(E) /\ Len(Ordered) = 12 /\ \A n \in 1..12 : Ordered[n] \in E
    BY OrderedIsTheRegistry, ElementOfSeq
<1>2. step \in [E -> [Kept -> Kept]]
    <2>1. ASSUME NEW s \in E, NEW k \in Kept PROVE KeepOne(ids, budget, s, k) \in Kept
        <3>1. s.id \in SkillIds /\ s.tokens \in Nat
            <4>1. s.id \in SkillIds /\ s.tokens \in 1..260
                BY SkillFound, Zenon
            <4> QED
                BY <4>1
        <3>2. k.kept \in Seq(SkillIds) /\ k.used \in Nat
            BY DEF Kept
        <3>3. Append(k.kept, s.id) \in Seq(SkillIds)
            BY <3>1, <3>2, AppendedSet
        <3>4. k.used + s.tokens \in Nat
            BY <3>1, <3>2
        <3> QED
            BY <3>3, <3>4 DEF KeepOne, Kept
    <2> QED
        BY <2>1
<1>3. none \in KeptOf(ids, budget, 0)
    <2>1. none \in Kept /\ none.used = 0 /\ none.kept = <<>>
        BY DEF Kept
    <2> HIDE DEF none
    <2> QED
        BY <2>1, TokensOfNone DEF KeptOf, Once
<1>4. /\ inv \in [0..12 -> SUBSET Kept]
      /\ \A n \in 0..12 : inv[n] = KeptOf(ids, budget, n)
    BY DEF KeptOf
<1>5. ASSUME NEW n \in 1..12, NEW k \in inv[n - 1]
      PROVE  step[Ordered[n]][k] \in inv[n]
    <2>1. n - 1 \in 0..12 /\ n \in 0..12
        OBVIOUS
    <2>2. k \in KeptOf(ids, budget, n - 1) /\ k \in Kept
        BY <1>4, <2>1 DEF KeptOf
    <2>3. step[Ordered[n]][k] = KeepOne(ids, budget, Ordered[n], k)
        BY <1>1, <2>2
    <2> HIDE DEF step
    <2> QED
        BY <1>4, <2>1, <2>2, <2>3, KeepOneKeeps
<1>6. Keep(ids, budget) = ForEach(Ordered, none, step)
    BY DEF Keep, KeepOne
<1> HIDE DEF E, none, step, inv
<1>7. /\ inv \in [0..Len(Ordered) -> SUBSET Kept] /\ none \in inv[0]
      /\ \A n \in 1..Len(Ordered) : \A k \in inv[n - 1] : step[Ordered[n]][k] \in inv[n]
    BY <1>1, <1>3, <1>4, <1>5
<1>8. ForEach(Ordered, none, step) \in inv[Len(Ordered)]
    BY <1>1, <1>2, <1>7, ForEachReaches
<1> QED
    BY <1>1, <1>4, <1>6, <1>8

\* The loader leaves out none of the router's skills.
LEMMA AllAreLoaded ==
    ASSUME NEW ids \in Seq(SkillIds), \A i, j \in DOMAIN ids : ids[i] = ids[j] => i = j
    PROVE  LoadSkillInstructions(ids) = ids
<1> DEFINE A == Seq(SkillIds)
           E == ToSet(ids)
           step == [id \in E |-> [loaded \in A |->
                       IF Loads(id) /\ id \notin ToSet(loaded) THEN Append(loaded, id)
                       ELSE loaded]]
           Prefix(n) == {loaded \in A : Len(loaded) = n /\ \A i \in 1..n : loaded[i] = ids[i]}
           inv == [n \in 0..Len(ids) |-> Prefix(n)]
<1>1. /\ Len(ids) \in Nat /\ ids \in Seq(E) /\ E \subseteq SkillIds
      /\ \A n \in 1..Len(ids) : ids[n] \in E
    BY TokenStepsType, ElementOfSeq
<1>2. ASSUME NEW id \in E PROVE Loads(id) /\ id \in SkillIds
    <2>1. id \in SkillIds
        BY <1>1
    <2>2. GetSkill(id) \in ToSet(RuntimeSkills) /\ GetSkill(id).id = id
          /\ IsExecutableSkill(GetSkill(id))
        BY <2>1, IdsHaveSkills
    <2> QED
        BY <2>1, <2>2 DEF Loads
<1>3. ASSUME NEW id \in E, NEW loaded \in A
      PROVE  /\ step[id][loaded] = IF id \notin ToSet(loaded) THEN Append(loaded, id) ELSE loaded
             /\ Append(loaded, id) \in A
    BY <1>2, AppendedSet
<1>4. step \in [E -> [A -> A]]
    <2>1. ASSUME NEW id \in E, NEW loaded \in A
          PROVE  (IF Loads(id) /\ id \notin ToSet(loaded) THEN Append(loaded, id) ELSE loaded) \in A
        BY <1>3, <2>1
    <2> HIDE DEF E, A
    <2> QED
        BY <2>1
<1>5. <<>> \in Prefix(0)
    OBVIOUS
<1>6. /\ inv \in [0..Len(ids) -> SUBSET A]
      /\ \A n \in 0..Len(ids) : inv[n] = Prefix(n)
    OBVIOUS
<1>7. ASSUME NEW n \in 1..Len(ids), NEW loaded \in Prefix(n - 1)
      PROVE  Append(loaded, ids[n]) \in Prefix(n)
    <2> DEFINE more == Append(loaded, ids[n])
    <2>1. loaded \in A /\ Len(loaded) = n - 1 /\ \A i \in 1..(n - 1) : loaded[i] = ids[i]
        OBVIOUS
    <2>2. ids[n] \in SkillIds
        BY <1>1
    <2>3. /\ more \in A /\ Len(more) = n /\ more[n] = ids[n]
          /\ \A i \in 1..(n - 1) : more[i] = loaded[i]
        BY <1>1, <2>1, <2>2
    <2>4. \A i \in 1..n : i \in 1..(n - 1) \/ i = n
        BY <1>1
    <2> HIDE DEF more
    <2> QED
        BY <2>1, <2>3, <2>4 DEF more
<1> HIDE DEF A, E, step, Prefix, inv
<1>8. ASSUME NEW n \in 1..Len(ids), NEW loaded \in inv[n - 1]
      PROVE  step[ids[n]][loaded] \in inv[n]
    <2>1. n - 1 \in 0..Len(ids) /\ n \in 0..Len(ids) /\ ids[n] \in E
        BY <1>1
    <2>2. loaded \in Prefix(n - 1) /\ loaded \in A
        BY <1>6, <2>1 DEF Prefix
    <2>3. ids[n] \notin ToSet(loaded)
        <3>1. ASSUME NEW i \in DOMAIN loaded PROVE loaded[i] # ids[n]
            <4>1. /\ loaded \in Seq(SkillIds) /\ Len(loaded) = n - 1
                  /\ \A a \in 1..(n - 1) : loaded[a] = ids[a]
                BY <2>2 DEF Prefix, A
            <4>2. DOMAIN loaded = 1..(n - 1) /\ DOMAIN ids = 1..Len(ids)
                BY <4>1, LenProperties
            <4>3. i \in DOMAIN ids /\ n \in DOMAIN ids /\ i # n /\ loaded[i] = ids[i]
                BY <1>1, <4>1, <4>2
            <4> QED
                BY <4>3
        <3> QED
            BY <3>1 DEF ToSet
    <2>4. step[ids[n]][loaded] = Append(loaded, ids[n])
        BY <1>3, <2>1, <2>2, <2>3
    <2> QED
        BY <1>6, <1>7, <2>1, <2>2, <2>4
<1>9. <<>> \in inv[0]
    BY <1>1, <1>5, <1>6
<1>10. ForEach(ids, <<>>, step) \in inv[Len(ids)]
    BY <1>1, <1>4, <1>6, <1>8, <1>9, ForEachReaches
<1>11. LoadSkillInstructions(ids) = ForEach(ids, <<>>, step)
    BY DEF LoadSkillInstructions, step, E, A
<1>12. LoadSkillInstructions(ids) \in Prefix(Len(ids))
    BY <1>1, <1>6, <1>10, <1>11
<1> QED
    <2> DEFINE all == LoadSkillInstructions(ids)
    <2>1. all \in Seq(SkillIds) /\ Len(all) = Len(ids) /\ \A i \in 1..Len(all) : all[i] = ids[i]
        BY <1>12 DEF Prefix, A
    <2> HIDE DEF all
    <2>2. all = ids
        BY <2>1, SeqEqual
    <2> QED
        BY <2>2 DEF all

\* The skills that make an artifact of a run's kinds are registered.
LEMMA StudiosAreRegistered ==
    ASSUME NEW kind \in FileKinds \cup {"static_site"}, NEW mode
    PROVE  Studio(kind) \cup Reader(mode) \subseteq SkillIds
<1>1. {"website-design", "design-system-generator", "design-critic", "website-quality-gate",
       "premium-depth-shadow", "artifact-quality-gate", "pdf-studio", "spreadsheet-studio",
       "document-studio", "presentation-studio", "document-reader"} \subseteq SkillIds
    <2>1. \A p \in {1, 2, 3, 4, 5, 6, 7, 8, 9, 10, 11, 12} : p \in 1..12
        OBVIOUS
    <2>2. \A p \in {1, 2, 3, 4, 5, 6, 7, 8, 9, 10, 11, 12} : ById[p] \in SkillIds
        <3>1. \A p \in 1..12 : ById[p] \in SkillIds
            BY PlacesHaveIds
        <3> QED
            BY <2>1, <3>1
    <2> QED
        BY <2>2 DEF ById
<1>2. Reader(mode) \subseteq {"document-reader"}
    BY DEF Reader
<1>3. CASE kind = "static_site"
    BY <1>1, <1>2, <1>3 DEF Studio
<1>4. CASE kind \in FileKinds
    <2>1. [pdf |-> "pdf-studio", spreadsheet |-> "spreadsheet-studio",
           document |-> "document-studio", presentation |-> "presentation-studio"][kind]
              \in {"pdf-studio", "spreadsheet-studio", "document-studio", "presentation-studio"}
        BY <1>4 DEF FileKinds
    <2> QED
        BY <1>1, <1>2, <1>4, <2>1 DEF Studio, FileKinds
<1> QED
    BY <1>3, <1>4

\* The skills compiled into the prompt of a request fit its budget, and with the default
\* budget they are all of those the request needs.
LEMMA AddendumIsFaithful ==
    ASSUME NEW r, r.budget \in Nat, r.artifactType \in FileKinds \cup {"static_site"}
    PROVE  /\ WithinBudget(r, CompileSkillsAddendum(r))
           /\ r.budget = DefaultBudget => DestinationLoaded(r, CompileSkillsAddendum(r))
<1> DEFINE kind == InferArtifactType(r)
           mode == InferMode(r)
           ids == SelectSkillIds(kind, mode, InferRtl(r))
           k == Keep(ids, r.budget)
           block == CompileSkillsAddendum(r).block
<1>1. k \in KeptOf(ids, r.budget, 12)
    BY KeepFits
<1>2. /\ k.kept \in Seq(SkillIds) /\ Once(k.kept, 12)
      /\ TokensOf(k.kept) <= r.budget \/ Len(k.kept) = 1
      /\ r.budget = DefaultBudget =>
            \A i \in 1..12 : Ordered[i].id \in ids => Ordered[i].id \in ToSet(k.kept)
    <2> HIDE DEF ids, k
    <2> QED
        BY <1>1 DEF KeptOf, Kept
<1>3. block = k.kept
    <2>1. block = LoadSkillInstructions(k.kept)
        BY Zenon DEF CompileSkillsAddendum, RouteSkills
    <2> HIDE DEF k, block
    <2> QED
        BY <1>2, <2>1, AllAreLoaded DEF Once
<1>4. kind = r.artifactType
    <2>1. r.artifactType # "none"
        BY DEF FileKinds
    <2> QED
        BY <2>1 DEF InferArtifactType
<1>5. Studio(kind) \cup Reader(mode) \subseteq SkillIds \cap ids
    BY <1>4, StudiosAreRegistered DEF SelectSkillIds
<1>6. ASSUME NEW id \in SkillIds PROVE \E i \in 1..12 : Ordered[i].id = id
    <2>1. PICK s \in ToSet(RuntimeSkills) : s.id = id
        BY DEF SkillIds
    <2> QED
        BY <2>1, OrderedIsTheRegistry
<1> HIDE DEF kind, mode, ids, k, block
<1>7. r.budget = DefaultBudget => Studio(kind) \cup Reader(mode) \subseteq ToSet(block)
    BY <1>2, <1>3, <1>5, <1>6
<1> QED
    BY <1>2, <1>3, <1>7 DEF WithinBudget, DestinationLoaded, kind, mode, block

-----------------------------------------------------------------------------
(* The steps that make the prompt *)

\* What is read of a run's files, when it can be read, is faithful to them.
LEMMA SourcesAreFaithful ==
    ASSUME NEW r \in DeliveryRequests, SourceContextForMessage(r.files).ok
    PROVE  /\ SourceContextForMessage(r.files).text \in Seq(HalvesOf(r.files))
           /\ Len(SourceContextForMessage(r.files).text) <= 4
           /\ \A i \in DOMAIN SourceContextForMessage(r.files).text :
                Faithful(SourceContextForMessage(r.files).text[i], r.files)
<1> DEFINE text == TextOf(r.files)
           n == AtMost(Len(text), 4)
           read == SourceContextForMessage(r.files).text
<1>1. /\ r.files \in Seq(ToSet(r.files))
      /\ \A a \in ToSet(r.files) : AttachmentOK(a)
    BY DeliveryAssumption
<1>2. \A a \in ToSet(r.files) : Analyzable(a) => a.intact
    BY DEF SourceContextForMessage
<1>3. /\ text \in Seq(HalvesOf(r.files))
      /\ \A i \in DOMAIN text : Faithful(text[i], r.files)
    BY <1>1, <1>2, TextIsFaithful
<1>4. read = SubSeq(text, 1, n)
    BY DEF SourceContextForMessage
<1> HIDE DEF text, read
<1>5. Len(text) \in Nat /\ DOMAIN text = 1..Len(text)
    BY <1>3, LenProperties
<1>6. n \in 0..4 /\ n <= Len(text)
    BY <1>5 DEF AtMost
<1> HIDE DEF n
<1>7. \A i \in 1..n : i \in DOMAIN text /\ text[i] \in HalvesOf(r.files)
    BY <1>3, <1>5, <1>6, ElementOfSeq
<1>8. /\ read \in Seq(HalvesOf(r.files)) /\ Len(read) = n
      /\ \A i \in 1..n : read[i] = text[i]
    <2>1. 1 \in Int /\ n \in Int
        BY <1>6
    <2>2. /\ SubSeq(text, 1, n) \in Seq(HalvesOf(r.files))
          /\ Len(SubSeq(text, 1, n)) = IF 1 <= n THEN n - 1 + 1 ELSE 0
          /\ \A i \in 1..(n - 1 + 1) : SubSeq(text, 1, n)[i] = text[1 + i - 1]
        BY <1>7, <2>1, SubSeqProperties
    <2>3. n - 1 + 1 = n /\ (IF 1 <= n THEN n - 1 + 1 ELSE 0) = n
        BY <1>6
    <2>4. \A i \in 1..n : 1 + i - 1 = i
        OBVIOUS
    <2> QED
        BY <1>4, <2>2, <2>3, <2>4
<1>9. DOMAIN read = 1..n
    BY <1>8, LenProperties
<1> QED
    BY <1>3, <1>6, <1>7, <1>8, <1>9 DEF read

\* Numbers with as many digits are in the order of their names.
LEMMA FaithfulIsInOrder ==
    ASSUME NEW half, NEW files, Faithful(half, files)
    PROVE  \A a, b \in DOMAIN half.slides :
             a < b /\ (half.slides[a] < 10 <=> half.slides[b] < 10)
                => half.slides[a] < half.slides[b]
<1>1. \A a \in DOMAIN half.slides : half.slides[a] \in 1..99
    BY LenProperties, ElementOfSeq DEF Faithful
<1>2. \A a, b \in DOMAIN half.slides :
        a < b => SlideKey(half.slides[a]) < SlideKey(half.slides[b])
    BY DEF Faithful
<1> QED
    BY <1>1, <1>2, SlideKeysDiffer

LEMMA PromptStarts == DeliveryInit => PromptIInv
BY DEF DeliveryInit, PromptIInv, NoAddendum, ContextIsTheUsersFiles, SlidesAreReadInOrder,
       PromptWithinBudget, DestinationIsLoaded

\* The four parts of the invariant are about three variables.
LEMMA PromptStays ==
    ASSUME PromptIInv, UNCHANGED <<request, context, addendum>>,
           stage' = stage \/ (stage # "idle" /\ stage' \notin {"idle", "sources", "prompt"})
    PROVE  PromptIInv'
<1>1. RouterInput' = RouterInput
    BY DEF RouterInput, Site
<1> QED
    BY <1>1
    DEF PromptIInv, ContextIsTheUsersFiles, SlidesAreReadInOrder, PromptWithinBudget,
        DestinationIsLoaded

LEMMA StartKeepsPrompt == PromptIInv /\ Start => PromptIInv'
<1> SUFFICES ASSUME PromptIInv, Start PROVE PromptIInv'
    OBVIOUS
<1>1. /\ request' \in DeliveryRequests /\ stage' = "sources"
      /\ context' = <<>> /\ ~addendum'.used
    BY DEF Start, Proceed, PromptIInv
<1> QED
    BY <1>1
    DEF PromptIInv, ContextIsTheUsersFiles, SlidesAreReadInOrder, PromptWithinBudget,
        DestinationIsLoaded

LEMMA ReadSourcesKeepsPrompt == PromptIInv /\ ReadSources => PromptIInv'
<1> SUFFICES ASSUME PromptIInv, ReadSources PROVE PromptIInv'
    OBVIOUS
<1>1. /\ stage = "sources" /\ UNCHANGED <<request, addendum>> /\ request \in DeliveryRequests
      /\ ~addendum'.used /\ context = <<>>
    BY DEF ReadSources, PromptIInv
<1> DEFINE read == IF Site THEN [ok |-> TRUE, text |-> <<>>]
                   ELSE SourceContextForMessage(request.files)
<1>2. \/ read.ok /\ context' = read.text /\ stage' = "prompt"
      \/ UNCHANGED context /\ stage' = "done"
    BY DEF ReadSources, Proceed, Reject, Finish
<1>3. CASE UNCHANGED context /\ stage' = "done"
    BY <1>1, <1>3, PromptStays
<1>4. CASE read.ok /\ context' = read.text /\ stage' = "prompt"
    <2>1. ContextIsTheUsersFiles' /\ SlidesAreReadInOrder'
        <3>1. CASE Site
            BY <1>4, <3>1 DEF ContextIsTheUsersFiles, SlidesAreReadInOrder
        <3>2. CASE ~Site
            <4>1. /\ Len(context') <= 4
                  /\ \A i \in DOMAIN context' : Faithful(context'[i], request.files)
                BY <1>1, <1>4, <3>2, SourcesAreFaithful
            <4>2. ContextIsTheUsersFiles'
                BY <1>1, <4>1 DEF ContextIsTheUsersFiles, Faithful
            <4>3. SlidesAreReadInOrder'
                BY <4>1, FaithfulIsInOrder DEF SlidesAreReadInOrder
            <4> QED
                BY <4>2, <4>3
        <3> QED
            BY <3>1, <3>2
    <2>2. PromptWithinBudget' /\ DestinationIsLoaded'
        BY <1>1 DEF PromptWithinBudget, DestinationIsLoaded
    <2> QED
        BY <1>1, <1>4, <2>1, <2>2 DEF PromptIInv
<1> QED
    BY <1>2, <1>3, <1>4

LEMMA ApplySkillsKeepsPrompt == PromptIInv /\ ApplySkillsRuntime => PromptIInv'
<1> SUFFICES ASSUME PromptIInv, ApplySkillsRuntime PROVE PromptIInv'
    OBVIOUS
<1>1. /\ stage = "prompt" /\ stage' = "generate" /\ UNCHANGED <<request, context>>
      /\ request \in DeliveryRequests
    BY DEF ApplySkillsRuntime, Proceed, PromptIInv
<1>2. CASE UNCHANGED addendum
    BY <1>1, <1>2, PromptStays
<1>3. CASE addendum' = [block |-> CompileSkillsAddendum(RouterInput).block, used |-> TRUE]
    <2> DEFINE compiled == CompileSkillsAddendum(RouterInput)
    <2>1. RouterInput' = RouterInput /\ request' = request
        BY <1>1 DEF RouterInput, Site
    <2>2. RouterInput.budget = request.budget /\ RouterInput.artifactType = request.kind
        BY DEF RouterInput
    <2>3. request.budget \in Nat /\ request.kind \in FileKinds \cup {"static_site"}
        BY <1>1, DeliveryAssumption
    <2>4. /\ WithinBudget(RouterInput, compiled)
          /\ request.budget = DefaultBudget => DestinationLoaded(RouterInput, compiled)
        BY <2>2, <2>3, AddendumIsFaithful
    <2>5. addendum'.block = compiled.block
        BY <1>3
    <2> HIDE DEF compiled
    <2>6. PromptWithinBudget'
        BY <2>1, <2>4, <2>5 DEF PromptWithinBudget, WithinBudget
    <2>7. DestinationIsLoaded'
        BY <2>1, <2>4, <2>5 DEF DestinationIsLoaded, DestinationLoaded
    <2>8. ContextIsTheUsersFiles' /\ SlidesAreReadInOrder'
        BY <1>1 DEF PromptIInv, ContextIsTheUsersFiles, SlidesAreReadInOrder
    <2> QED
        BY <1>1, <2>6, <2>7, <2>8 DEF PromptIInv
<1> QED
    BY <1>2, <1>3 DEF ApplySkillsRuntime

\* After the prompt its three variables are only read.
LEMMA LaterStepsKeepPrompt ==
    ASSUME PromptIInv,
           \/ ReadSourcesFails \/ GenerateSite \/ GenerateFile \/ GenerationFails
           \/ ReviewGate \/ StopCancelled \/ SandboxCreated \/ SandboxReports \/ SandboxExpires
           \/ Build \/ PutPreview \/ PutDownload \/ SaveArtifact \/ SaveArtifactFails
           \/ \E v \in Workspaces : Follow(v)
           \/ UNCHANGED deliveryVars
    PROVE  PromptIInv'
<1>1. UNCHANGED <<request, context, addendum>>
    BY DEF ReadSourcesFails, GenerateSite, GenerateFile, GenerationFails, ReviewGate,
           StopCancelled, SandboxCreated, SandboxReports, SandboxExpires, Build, PutPreview,
           PutDownload, SaveArtifact, SaveArtifactFails, Follow, workVars, deliveryVars
<1>2. stage' = stage \/ (stage # "idle" /\ stage' \notin {"idle", "sources", "prompt"})
    BY DEF ReadSourcesFails, GenerateSite, GenerateFile, GenerationFails, ReviewGate,
           StopCancelled, SandboxCreated, SandboxReports, SandboxExpires, Build, PutPreview,
           PutDownload, SaveArtifact, SaveArtifactFails, Follow, deliveryVars,
           Proceed, Reject, Finish
<1> QED
    BY <1>1, <1>2, PromptStays

LEMMA DeliveryKeepsPrompt == PromptIInv /\ [DeliveryNext]_deliveryVars => PromptIInv'
BY StartKeepsPrompt, ReadSourcesKeepsPrompt, ApplySkillsKeepsPrompt, LaterStepsKeepPrompt
DEF DeliveryNext, DeliveryStep

\* The prompt quotes nothing but the run's own intact files, at most 48 000 characters of
\* them, with the slides of a presentation in order; its instructions fit the budget and,
\* with the default budget, have the maker of the artifact, its quality gate and its
\* reader: for any files and any budget.
THEOREM PromptsAreFaithful == DeliverySpec => []PromptIsFaithful
<1>1. DeliveryTypeOK /\ PromptIInv => PromptIsFaithful
    BY DEF PromptIInv, PromptIsFaithful
<1>2. DeliverySpec => []PromptIInv
    BY PromptStarts, DeliveryKeepsPrompt, PTL DEF DeliverySpec
<1> QED
    BY <1>1, <1>2, DeliveryTypeCorrect, PTL
=============================================================================
