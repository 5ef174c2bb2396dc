--------------------------------- MODULE Skills ---------------------------------
(***************************************************************************)
(* The skills runtime: which skills a generation loads into its prompt,    *)
(* and within which budget.  A skill is what the router and the loader     *)
(* tell apart: its priority, the tokens of its instructions, whether it is *)
(* enabled and trusted.  The words of a request are abstracted to what the *)
(* patterns find in them.                                                  *)
(***************************************************************************)
EXTENDS Naturals, Sequences, SequencesExt, Arrays

ArtifactTypes == {"static_site", "web_app", "pdf", "spreadsheet", "image", "audio",
                  "document", "presentation", "other"}
FileKinds == {"pdf", "spreadsheet", "document", "presentation"}

-----------------------------------------------------------------------------
(* The registry *)

TrustLevels == {"internal", "reviewed-open-source", "provider-managed",
                "untrusted", "disabled"}
ExecutableTrustLevels == {"internal", "reviewed-open-source", "provider-managed"}

\* COMMON: every registered skill is internal and enabled.
DefineSkill(id, priority, tokens) ==
    [id |-> id, priority |-> priority, tokens |-> tokens,
     enabled |-> TRUE, trustLevel |-> "internal"]

WebsiteSkills ==
    <<DefineSkill("website-design", 100, 222),
      DefineSkill("arabic-rtl-ui", 95, 260),
      DefineSkill("design-system-generator", 70, 112),
      DefineSkill("premium-depth-shadow", 60, 188),
      DefineSkill("design-critic", 85, 235),
      DefineSkill("website-quality-gate", 80, 96)>>

FileSkills ==
    <<DefineSkill("document-reader", 100, 148),
      DefineSkill("pdf-studio", 100, 240),
      DefineSkill("spreadsheet-studio", 100, 222),
      DefineSkill("document-studio", 100, 176),
      DefineSkill("presentation-studio", 100, 207),
      DefineSkill("artifact-quality-gate", 90, 150)>>

RuntimeSkills == WebsiteSkills \o FileSkills
SkillIds == {s.id : s \in ToSet(RuntimeSkills)}
GetSkill(id) == CHOOSE s \in ToSet(RuntimeSkills) : s.id = id
IsExecutableSkill(skill) == skill.enabled /\ skill.trustLevel \in ExecutableTrustLevels

-----------------------------------------------------------------------------
(* What the request asks for.  A field the caller leaves out is "none";    *)
(* uploads are the kinds the tables find for the files; finds is what the  *)
(* patterns find in the text.                                              *)

FirstUploadArtifact(r) ==
    LET known == SelectSeq(r.uploads, LAMBDA kind : kind \in FileKinds \cup {"image"})
    IN  IF known = <<>> THEN "none" ELSE Head(known)

InferMode(r) ==
    IF r.mode # "none" THEN r.mode
    ELSE IF r.uploads # <<>> /\ "reading verb" \in r.finds THEN "read"
    ELSE IF r.uploads # <<>> /\ "convert" \in r.finds THEN "convert"
    ELSE "create"

KeywordArtifact == <<"presentation", "spreadsheet", "pdf", "document", "web_app",
                     "static_site", "image">>

InferArtifactType(r) ==
    LET mode == InferMode(r)
        upload == FirstUploadArtifact(r)
        named == SelectSeq(KeywordArtifact, LAMBDA kind : kind \in r.finds)
    IN  IF r.artifactType # "none" THEN r.artifactType
        ELSE IF mode \in {"read", "analyze", "convert"}
        THEN IF upload = "none" THEN "other" ELSE upload
        ELSE IF upload # "none" /\ mode # "create" THEN upload
        ELSE IF named # <<>> THEN Head(named) ELSE "static_site"

InferRtl(r) == "arabic" \in r.finds
RequiresVisualDesign(artifactType) ==
    artifactType \in {"static_site", "web_app", "presentation", "pdf"}

-----------------------------------------------------------------------------
(* Selection and budget *)

Reader(mode) == IF mode \in {"read", "analyze"} THEN {"document-reader"} ELSE {}

\* The skills that make the artifact and judge it.
Studio(artifactType) ==
    IF artifactType \in {"static_site", "web_app"}
    THEN {"website-design", "design-system-generator", "design-critic",
          "website-quality-gate"}
         \cup (IF RequiresVisualDesign(artifactType) THEN {"premium-depth-shadow"} ELSE {})
    ELSE {"artifact-quality-gate"}
         \cup (IF artifactType \in FileKinds
               THEN {[pdf |-> "pdf-studio", spreadsheet |-> "spreadsheet-studio",
                      document |-> "document-studio",
                      presentation |-> "presentation-studio"][artifactType]}
               ELSE {})

SelectSkillIds(artifactType, mode, rtl) ==
    Reader(mode) \cup Studio(artifactType)
        \cup (IF rtl /\ artifactType \notin {"image", "audio"} THEN {"arabic-rtl-ui"} ELSE {})

\* localeCompare of two ids of the registry.
ById == <<"arabic-rtl-ui", "artifact-quality-gate", "design-critic",
          "design-system-generator", "document-reader", "document-studio", "pdf-studio",
          "premium-depth-shadow", "presentation-studio", "spreadsheet-studio",
          "website-design", "website-quality-gate">>
Position(id) == CHOOSE i \in 1..Len(ById) : ById[i] = id

Precedes(a, b) ==
    \/ a.priority > b.priority
    \/ a.priority = b.priority /\ Position(a.id) < Position(b.id)

\* The registry in order; of it the router takes the executable ones among ids.
Ordered == Sort(RuntimeSkills, Precedes)
Resolves(s, ids) == s.id \in ids /\ IsExecutableSkill(s)

\* The greedy budget: the first skill always, then whatever still fits.
Kept == [kept : Seq(SkillIds), used : Nat]
Keep(ids, budget) ==
    ForEach(Ordered, [kept |-> <<>>, used |-> 0],
            [s \in ToSet(RuntimeSkills) |-> [k \in Kept |->
                IF ~Resolves(s, ids) \/ (k.kept # <<>> /\ k.used + s.tokens > budget) THEN k
                ELSE [kept |-> Append(k.kept, s.id), used |-> k.used + s.tokens]]])

RouteSkills(r) ==
    LET kind == InferArtifactType(r)
        mode == InferMode(r)
        k == Keep(SelectSkillIds(kind, mode, InferRtl(r)), r.budget)
    IN  [artifactType |-> kind, mode |-> mode, skillIds |-> k.kept, used |-> k.used]

\* The loader keeps known and executable skills only, each of them once.
Loads(id) == \E s \in ToSet(RuntimeSkills) : s.id = id /\ IsExecutableSkill(s)
LoadSkillInstructions(ids) ==
    ForEach(ids, <<>>, [id \in ToSet(ids) |-> [loaded \in Seq(SkillIds) |->
                            IF Loads(id) /\ id \notin ToSet(loaded) THEN Append(loaded, id)
                            ELSE loaded]])

\* compileSkillsAddendum: the skills in the prompt, and what the run's log says of them.
CompileSkillsAddendum(r) ==
    LET routed == RouteSkills(r)
    IN  [block |-> LoadSkillInstructions(routed.skillIds),
         skillIds |-> routed.skillIds,
         tokens |-> routed.used,
         validationProfile |-> IF routed.mode \in {"read", "analyze"} THEN "reading"
                               ELSE routed.artifactType]

-----------------------------------------------------------------------------
(* Properties of one addendum, compiled for request r *)

TokensOf(ids) ==
    ForEach(ids, 0, [id \in ToSet(ids) |-> [sum \in Nat |-> sum + GetSkill(id).tokens]])

WithinBudget(r, addendum) ==
    TokensOf(addendum.block) <= r.budget \/ Len(addendum.block) = 1

DestinationLoaded(r, addendum) ==
    Studio(InferArtifactType(r)) \cup Reader(InferMode(r)) \subseteq ToSet(addendum.block)
=============================================================================
