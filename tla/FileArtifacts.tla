----------------------------- MODULE FileArtifacts -----------------------------
(***************************************************************************)
(* The files an execution run builds from a draft, the HTML preview of     *)
(* each, and the text a run reads from the files a user attached.  A file  *)
(* is the set of its lines; a line is what it is, the part of the draft it *)
(* comes from and its number there, so that two files can be compared line *)
(* by line.  A draft is its kind and its parts: sections [paragraphs,      *)
(* bullets], sheets [name, headers, rows] with the width of each row, or   *)
(* slides [subtitle, bullets, notes].                                      *)
(***************************************************************************)
EXTENDS Naturals, Sequences, SequencesExt, Arrays

-----------------------------------------------------------------------------
(* The schemas a draft has passed *)

DocumentDraft(parts) ==
    /\ Len(parts) \in 1..18
    /\ \A s \in ToSet(parts) : s.paragraphs \in 0..8 /\ s.bullets \in 0..12
SpreadsheetDraft(parts) ==
    /\ Len(parts) \in 1..8
    /\ \A s \in ToSet(parts) :
        s.headers \in 1..20 /\ Len(s.rows) <= 250 /\ ToSet(s.rows) \subseteq 0..20
PresentationDraft(parts) ==
    /\ Len(parts) \in 2..20
    /\ \A s \in ToSet(parts) :
        s.bullets \in 0..8 /\ s.subtitle \in BOOLEAN /\ s.notes \in BOOLEAN

FitsSchema(d) ==
    CASE d.kind = "spreadsheet" -> SpreadsheetDraft(d.parts)
      [] d.kind = "presentation" -> PresentationDraft(d.parts)
      [] OTHER -> DocumentDraft(d.parts)

-----------------------------------------------------------------------------
(* Lines *)

Title == <<"title", 0, 0>>
Summary == <<"summary", 0, 0>>
Lines(what, i, n) == {<<what, i, j>> : j \in 1..n}
LineIf(present, what, i) == IF present THEN Lines(what, i, 1) ELSE {}
PartLines(d, LinesOf(_, _)) ==
    UNION {LinesOf(i, d.parts[i]) : i \in DOMAIN d.parts}

SectionLines(i, section) ==
    Lines("heading", i, 1) \cup Lines("paragraph", i, section.paragraphs)
        \cup Lines("bullet", i, section.bullets)

\* The first n rows of a sheet, each cut or filled up to the headers.
SheetLines(i, sheet, n) ==
    Lines("sheet", i, 1) \cup Lines("header", i, sheet.headers)
        \cup {<<"row", i, j, sheet.headers>> : j \in 1..n}

-----------------------------------------------------------------------------
(* The four files *)

DocxLines(d) == {Title, Summary} \cup PartLines(d, SectionLines)

\* buildPdf numbers its sections and its pages besides.
PdfLines(d) ==
    LET Numbered(i, section) == Lines("number", i, 1) \cup SectionLines(i, section)
    IN  {Title, Summary} \cup PartLines(d, Numbered)

XlsxLines(d) ==
    LET Sheet(i, sheet) == SheetLines(i, sheet, Len(sheet.rows))
    IN  PartLines(d, Sheet)

\* The notes of a slide are in no line.
PptxLines(d) ==
    LET Slide(i, slide) ==
            Lines("heading", i, 1) \cup LineIf(slide.subtitle, "subtitle", i)
                \cup Lines("bullet", i, slide.bullets) \cup Lines("number", i, 1)
    IN  PartLines(d, Slide)

FileLines(d) ==
    CASE d.kind = "spreadsheet" -> XlsxLines(d)
      [] d.kind = "presentation" -> PptxLines(d)
      [] d.kind = "pdf" -> PdfLines(d)
      [] OTHER -> DocxLines(d)

\* ExcelJS throws for a name in use, whatever its case.
AddsWorksheets(d) ==
    \A i, j \in DOMAIN d.parts : d.parts[i].name = d.parts[j].name => i = j

-----------------------------------------------------------------------------
(* The previews *)

PreviewShell(body) == {Title, Summary} \cup body
DocumentPreview(d) == PreviewShell(PartLines(d, SectionLines))
SpreadsheetPreview(d) ==
    LET Sheet(i, sheet) ==
            SheetLines(i, sheet, IF Len(sheet.rows) > 100 THEN 100 ELSE Len(sheet.rows))
    IN  PreviewShell(PartLines(d, Sheet))

PresentationPreview(d) ==
    LET Slide(i, slide) ==
            Lines("heading", i, 1) \cup LineIf(slide.subtitle, "subtitle", i)
                \cup Lines("bullet", i, slide.bullets)
    IN  PreviewShell(PartLines(d, Slide))

PreviewLines(d) ==
    CASE d.kind = "spreadsheet" -> SpreadsheetPreview(d)
      [] d.kind = "presentation" -> PresentationPreview(d)
      [] OTHER -> DocumentPreview(d)

-----------------------------------------------------------------------------
(* Archives.  An archive is the names of its entries and what is wrong     *)
(* with it.                                                                *)

ArchiveFaults ==
    {"no end record", "entry count", "directory bounds", "directory header",
     "encrypted or unsupported", "unsafe path", "macro", "compression ratio",
     "extraction limit", "directory size"}

\* inspectSafeZipArchive returns; otherwise it throws.
InspectSafeZipArchive(archive, required) ==
    archive.faults \cap ArchiveFaults = {} /\ required \subseteq archive.entries

RequiredEntries(kind) ==
    {"[Content_Types].xml"} \cup
        (CASE kind = "document" -> {"word/document.xml"}
           [] kind = "presentation" -> {"ppt/presentation.xml", "ppt/slides/slide1.xml"}
           [] OTHER -> {"xl/workbook.xml"})

\* Size and structure; a file is what its library wrote.
ValidateGeneratedFile(kind, file) ==
    /\ "size" \notin file.faults
    /\ IF kind = "pdf" THEN "header" \notin file.faults
       ELSE InspectSafeZipArchive(file, RequiredEntries(kind))

\* What the libraries write.
Written(kind, faults) ==
    [entries |-> IF kind = "pdf" THEN {} ELSE RequiredEntries(kind), faults |-> faults]

NoBundle == [ok |-> FALSE, download |-> {}, preview |-> {}]

BuildGeneratedFileBundle(d, faults) ==
    IF /\ FitsSchema(d)
       /\ d.kind = "spreadsheet" => AddsWorksheets(d)
       /\ ValidateGeneratedFile(d.kind, Written(d.kind, faults))
    THEN [ok |-> TRUE, download |-> FileLines(d), preview |-> PreviewLines(d)]
    ELSE NoBundle

-----------------------------------------------------------------------------
(* Reading an attachment.  A text is a sequence of halves of the 24 000    *)
(* characters a file may contribute, each saying which file it is of;      *)
(* slides is the order of a presentation's slides in its archive, then in  *)
(* what is read of it.                                                     *)

AnalyzableMediaTypes == {"pdf", "presentation", "spreadsheet", "document", "csv", "text"}

\* slide10.xml sorts between slide1.xml and slide2.xml.
SlideKey(n) == IF n < 10 THEN 100 * n ELSE 100 * (n \div 10) + 1 + (n % 10)

\* The slides in the order of the archive.
ExtractZipXmlUnsorted(slides) == slides
ExtractZipXml(slides) == Sort(slides, LAMBDA a, b : SlideKey(a) < SlideKey(b))

AtMost(n, bound) == IF n > bound THEN bound ELSE n

ExtractThrows(a) ==
    \/ a.mediaType \notin AnalyzableMediaTypes
    \/ a.mediaType \in {"document", "presentation", "spreadsheet"} /\ a.faults # {}
    \/ a.mediaType = "pdf" /\ "header" \in a.faults

ExtractAttachmentText(a) ==
    [i \in 1..AtMost(a.halves, 2) |->
        [of |-> a.name,
         slides |-> IF a.mediaType = "presentation" THEN ExtractZipXml(a.slides) ELSE <<>>]]

-----------------------------------------------------------------------------
(* Properties of one file *)

PreviewAgrees(bundle) ==
    /\ bundle.preview \ {Title, Summary} \subseteq bundle.download
    /\ \A line \in bundle.download \ bundle.preview :
        line[1] = "number" \/ (line[1] = "row" /\ line[3] > 100)
=============================================================================
