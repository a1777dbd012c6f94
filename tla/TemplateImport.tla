---------------------------- MODULE TemplateImport ----------------------------
(***************************************************************************)
(* Importing a document as a template (api/import_routes.py): the file is  *)
(* recognised, parsed into blocks by the parser of its format, and saved   *)
(* as a draft.  A document is a sequence of elements in reading order:     *)
(*   [kind, text, rows], kind one of                                       *)
(*     "head"  a heading (by its style, or in a PDF by its size)           *)
(*     "bold"  a short paragraph all in bold                               *)
(*     "para"  a paragraph, in a PDF a line                                *)
(*     "list"  an item of a list                                           *)
(*     "table" a table: text is its first row's, rows the texts below      *)
(* with the text "" for one too short to count.  A block is [type, texts]. *)
(* Of a PDF the first 15 pages are the document.  A behaviour is one       *)
(* import: nothing of it matters to the next.                              *)
(***************************************************************************)
EXTENDS Naturals, Sequences, SequencesExt

CONSTANTS
    Documents,          \* [bytes, hint, body]: what can be uploaded or fetched
    MaxRows,            \* rows of a table that are kept (20 in the code)
    MergeLimit          \* texts of PDF lines that fit one block (300 characters in the code)

\* What a document is made of, as it is read.
Elements == [kind : {"head", "bold", "para", "list", "table"}, text : STRING, rows : Seq(STRING)]

ASSUME ImportAssumption ==
    /\ \A d \in Documents : d.body \in Seq(Elements)
    /\ MaxRows \in Nat /\ MergeLimit \in Nat

VARIABLES
    imported            \* the last document imported and the blocks it became

importVars == <<imported>>

NothingImported == [doc |-> <<>>, by |-> "none", blocks |-> <<>>]

ImportInit == imported = NothingImported

Block(type, texts) == [type |-> type, texts |-> texts]
Paragraph(text)    == Block("text", <<text>>)

Cells(e)   == SelectSeq(SubSeq(e.rows, 1, IF Len(e.rows) > MaxRows THEN MaxRows ELSE Len(e.rows)),
                        LAMBDA r : r # "")
TableOf(e) == IF e.text = "" THEN <<>> ELSE <<Block("table", <<e.text>> \o Cells(e))>>

SeenIn(blocks) == UNION {ToSet(blocks[i].texts) : i \in {k \in DOMAIN blocks : blocks[k].type # "table"}}

\* Too short to count, or there already.
Known(blocks, e) == e.text = "" \/ e.text \in SeenIn(blocks)

-----------------------------------------------------------------------------
(* Word: paragraphs and tables in the order of the body.  A list item is a   *)
(* paragraph.                                                                *)

DocxElement(e) ==
    CASE e.kind = "table"                                 -> TableOf(e)
      [] e.kind \in {"head", "bold"} /\ e.text # ""       -> <<Block("section", <<e.text>>)>>
      [] e.kind \notin {"table", "head", "bold"} /\ e.text # "" -> <<Paragraph(e.text)>>
      [] OTHER                                            -> <<>>

docx_to_blocks(doc) == FoldLeft(LAMBDA acc, e : acc \o DocxElement(e), <<>>, doc)

-----------------------------------------------------------------------------
(* HTML: headings and paragraphs, each text once; lists are not entered, so  *)
(* their items are found only when there is nothing else.                    *)

HtmlElement(blocks, e) ==
    CASE e.kind = "table"                                 -> TableOf(e)
      [] e.kind = "head" /\ ~Known(blocks, e)             -> <<Block("section", <<e.text>>)>>
      [] e.kind \in {"para", "bold"} /\ ~Known(blocks, e) -> <<Paragraph(e.text)>>
      [] OTHER                                            -> <<>>

HtmlLeaf(blocks, e) ==
    IF Known(blocks, e) \/ e.kind = "table" THEN <<>>
    ELSE IF e.kind = "head" THEN <<Block("section", <<e.text>>)>> ELSE <<Paragraph(e.text)>>

html_to_blocks(doc) ==
    LET found  == FoldLeft(LAMBDA acc, e : acc \o HtmlElement(acc, e), <<>>, doc)
        leaves == FoldLeft(LAMBDA acc, e : acc \o HtmlLeaf(acc, e), <<>>, doc)
    IN  IF found # <<>> THEN found
        ELSE IF leaves # <<>> THEN leaves ELSE <<Paragraph("Imported content")>>

-----------------------------------------------------------------------------
(* PDF: the tables of the page first, then its lines, each text once; lines  *)
(* that are not headings run on in the block before while they fit.  A line  *)
(* inside a table is a line too.                                             *)

TooLong(b)     == Len(b.texts) >= MergeLimit
RunsOn(blocks) == blocks # <<>> /\ Last(blocks).type = "text"

\* Mutant: a line that does not fit any more is dropped.
PdfLineLost(blocks, e) ==
    IF Known(blocks, e) \/ (e.kind # "head" /\ RunsOn(blocks) /\ TooLong(Last(blocks))) THEN blocks
    ELSE CASE e.kind = "head" -> Append(blocks, Block("section", <<e.text>>))
           [] e.kind # "head" /\ RunsOn(blocks) -> [blocks EXCEPT ![Len(blocks)].texts = Append(@, e.text)]
           [] OTHER -> Append(blocks, Paragraph(e.text))

PdfLine(blocks, e) ==
    IF Known(blocks, e) THEN blocks
    ELSE CASE e.kind = "head" -> Append(blocks, Block("section", <<e.text>>))
           [] e.kind # "head" /\ RunsOn(blocks) /\ ~TooLong(Last(blocks)) ->
                 [blocks EXCEPT ![Len(blocks)].texts = Append(@, e.text)]
           [] OTHER -> Append(blocks, Paragraph(e.text))

LinesOf(e) ==
    IF e.kind = "table"
    THEN [i \in 1..Len(e.rows) + 1 |-> [kind |-> "para", text |-> (<<e.text>> \o e.rows)[i]]]
    ELSE <<e>>

pdf_to_blocks(doc) ==
    LET lines  == FoldLeft(LAMBDA acc, e : acc \o LinesOf(e), <<>>, doc)
        tables == FoldLeft(LAMBDA acc, e : IF e.kind = "table" THEN acc \o TableOf(e) ELSE acc, <<>>, doc)
        blocks == FoldLeft(PdfLine, tables, lines)
    IN  IF blocks # <<>> THEN blocks ELSE <<Paragraph("No content could be extracted from PDF")>>

-----------------------------------------------------------------------------
(* The two routes.  An upload is what its name says; what an address answers *)
(* is what its first bytes say, and for a ZIP container or unknown bytes     *)
(* what the content type or the address hints at.                            *)

Parsed(format, doc) ==
    CASE format = "pdf"  -> pdf_to_blocks(doc)
      [] format = "docx" -> docx_to_blocks(doc)
      [] format = "xlsx" -> <<Paragraph("Imported from spreadsheet")>>
      [] OTHER           -> html_to_blocks(doc)

Detected(bytes, hint) ==
    CASE bytes \in {"pdf", "html"} -> bytes
      [] bytes = "zip"             -> IF hint = "xlsx" THEN "xlsx" ELSE "docx"
      [] bytes = "other"           -> IF hint \in {"pdf", "docx"} THEN hint ELSE "html"

\* A parser meeting bytes of another format answers 422: no template.  The HTML
\* parser takes anything.
Readable(bytes, format) ==
    format \in {"html", "xlsx"} \/ bytes = format \/ (bytes = "zip" /\ format = "docx")

\* Nothing found (only a DOCX can be that empty) saves nothing.
save_template(d, format) ==
    /\ Readable(d.bytes, format) /\ Parsed(format, d.body) # <<>>
    /\ imported' = [doc |-> d.body, by |-> format, blocks |-> Parsed(format, d.body)]

import_template_file(d) == d.hint \in {"html", "docx", "pdf"} /\ save_template(d, d.hint)

import_template_url(d)  == save_template(d, Detected(d.bytes, d.hint))

ImportNext ==
    imported = NothingImported /\ \E d \in Documents : import_template_file(d) \/ import_template_url(d)

-----------------------------------------------------------------------------

\* Every heading and every paragraph of an imported document is in the template,
\* whichever parser took it: repetitions are dropped, lines are run together and
\* cut off at a limit, but no text is lost on the way, except the lists of an
\* HTML page, which its parser does not enter.
ImportKeepsText ==
    LET doc    == imported.doc
        Of(K)  == {doc[i].text : i \in {k \in DOMAIN doc : doc[k].kind \in K}} \ {""}
        texts  == Of({"head", "bold", "para"} \cup (IF imported.by = "html" THEN {} ELSE {"list"}))
        listed == UNION {ToSet(imported.blocks[i].texts) : i \in DOMAIN imported.blocks}
    IN  imported.by \in {"html", "docx", "pdf"} => texts \subseteq listed

=============================================================================
