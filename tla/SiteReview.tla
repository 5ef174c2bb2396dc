------------------------------- MODULE SiteReview -------------------------------
(***************************************************************************)
(* What a generated page or file must be to be delivered.  A page is the   *)
(* set of its traits, the facts the regular expressions of the checks find *)
(* in its HTML; a draft of a file is the set of its faults.  Three judges  *)
(* read a page: validateAndSecureStaticSite in the agent, the reviewer of  *)
(* website-review.ts, and the validator that runs in the sandbox.          *)
(***************************************************************************)
EXTENDS Integers, FiniteSets

GoodTraits == {"doctype", "lang ar", "dir rtl", "head", "title", "arabic letter",
               "one h1", "button", "arabic copy", "enough copy", "viewport", ":focus"}
BadTraits == {"csp", "remote url", "form", "link tag", "refresh", "oversize",
              "two h1", "action link", "fake claim", "placeholder", "purple to blue",
              "nine shadows", "three cards", "image without alt", "same colours",
              "wide box"}
Traits == GoodTraits \cup BadTraits
Good == GoodTraits

\* A page a model may write: nearly good, and consistent.
Consistent(page) ==
    /\ ~({"one h1", "two h1"} \subseteq page)
    /\ "arabic copy" \in page => "arabic letter" \in page

-----------------------------------------------------------------------------
(* validateAndSecureStaticSite *)

Refuses(page) ==
    \/ ~({"doctype", "lang ar", "dir rtl", "head", "title", "arabic letter"} \subseteq page)
    \/ page \cap {"csp", "remote url", "form", "link tag", "refresh", "oversize"} # {}

\* The policy goes behind the head tag.
Secured(page) == page \cup {"csp"}

-----------------------------------------------------------------------------
(* The validator in the sandbox *)

SandboxRefuses(page) ==
    \/ ~({"doctype", "lang ar", "dir rtl", "title", "csp"} \subseteq page)
    \/ page \cap {"remote url", "form"} # {}

-----------------------------------------------------------------------------
(* reviewStaticSiteHtml *)

CheckRtlStructure(page) ==
    IF {"lang ar", "dir rtl"} \subseteq page THEN {} ELSE {"rtl-structure"}
CheckHeadingHierarchy(page) ==
    IF "two h1" \in page THEN {"multiple-h1"}
    ELSE IF "one h1" \in page THEN {} ELSE {"no-h1"}
CheckPrimaryAction(page) ==
    IF page \cap {"button", "action link"} = {} THEN {"no-primary-action"} ELSE {}
CheckFakeClaims(page) == IF "fake claim" \in page THEN {"fabricated-claim"} ELSE {}
CheckArabicCopyQuality(page) ==
    (IF "placeholder" \in page THEN {"placeholder-copy"} ELSE {})
        \cup (IF "enough copy" \in page THEN {} ELSE {"thin-visible-copy"})
        \cup (IF "arabic copy" \in page THEN {} ELSE {"insufficient-arabic-copy"})
CheckGradients(page) ==
    IF "purple to blue" \in page THEN {"purple-blue-gradient"} ELSE {}
CheckShadowUsage(page) == IF "nine shadows" \in page THEN {"excessive-shadows"} ELSE {}
CheckRepetitiveCards(page) ==
    IF "three cards" \in page THEN {"repetitive-card-pattern"} ELSE {}
CheckAccessibility(page) ==
    (IF "image without alt" \in page THEN {"images-missing-alt"} ELSE {})
        \cup (IF "title" \in page THEN {} ELSE {"missing-title"})
        \cup (IF "viewport" \in page THEN {} ELSE {"missing-viewport-meta"})
        \cup (IF page \cap {"button", "action link"} # {} /\ ":focus" \notin page
              THEN {"missing-focus-state"} ELSE {})
CheckObviousContrastFailure(page) ==
    IF "same colours" \in page THEN {"text-background-collision"} ELSE {}
CheckOversizedFixedWidths(page) ==
    IF "wide box" \in page THEN {"fixed-width-overflow-risk"} ELSE {}

Blocking == {"rtl-structure", "no-primary-action", "fabricated-claim", "placeholder-copy",
             "insufficient-arabic-copy", "missing-title", "text-background-collision"}
Major == {"no-h1", "thin-visible-copy", "purple-blue-gradient", "images-missing-alt",
          "missing-viewport-meta"}

Issues(page) ==
    CheckRtlStructure(page) \cup CheckHeadingHierarchy(page) \cup CheckPrimaryAction(page)
        \cup CheckFakeClaims(page) \cup CheckArabicCopyQuality(page)
        \cup CheckGradients(page) \cup CheckShadowUsage(page) \cup CheckRepetitiveCards(page)
        \cup CheckAccessibility(page) \cup CheckObviousContrastFailure(page)
        \cup CheckOversizedFixedWidths(page)

AtLeastZero(n) == IF n < 0 THEN 0 ELSE n

ScoreFor(issues) ==
    LET blocking == Cardinality(issues \cap Blocking)
        major == Cardinality(issues \cap Major)
    IN  AtLeastZero(100 - 40 * blocking - 15 * major
                        - 5 * (Cardinality(issues) - blocking - major))

ReviewStaticSiteHtml(page) ==
    [score |-> ScoreFor(Issues(page)), passed |-> Issues(page) \cap Blocking = {}]

-----------------------------------------------------------------------------
(* reviewGeneratedFileDraft; expectArabic: the request has Arabic letters *)

DraftFaults == {"placeholder", "little arabic", "repeated text", "empty slide",
                "crowded slide", "ragged rows"}

BlockingErrors(kind, draft, expectArabic) ==
    (draft \cap {"placeholder"})
        \cup (IF expectArabic THEN draft \cap {"little arabic"} ELSE {})
        \cup (IF kind = "presentation" THEN draft \cap {"empty slide"} ELSE {})

Warnings(kind, draft) ==
    (draft \cap {"repeated text"})
        \cup (IF kind = "presentation" THEN draft \cap {"crowded slide"} ELSE {})
        \cup (IF kind = "spreadsheet" THEN draft \cap {"ragged rows"} ELSE {})

ReviewGeneratedFileDraft(kind, draft, expectArabic) ==
    LET errors == BlockingErrors(kind, draft, expectArabic)
    IN  [score |-> AtLeastZero(100 - 45 * Cardinality(errors)
                                   - 8 * Cardinality(Warnings(kind, draft))),
         passed |-> errors = {}]
=============================================================================
