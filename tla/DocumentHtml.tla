---------------------------- MODULE DocumentHtml -----------------------------
(***************************************************************************)
(* How the document processor renders a file as HTML: the blocks of a PDF  *)
(* as MinerU found them (document_processor/pdf/html.py) and the body of a *)
(* Word file (document_processor/docx/docx_processor.py).                  *)
(*                                                                         *)
(* A block says what it is, on which page it stands and how many           *)
(* characters its parts have:                                              *)
(*   type      "title", "paragraph", "list", "table", "image",             *)
(*             "page_number" (for all page chrome) or "page_footnote" (for *)
(*             every other type)                                           *)
(*   level     content.level, the number of a Word heading style; 0: none  *)
(*             (a given 0, which would count as 1, is left out)            *)
(*   look      what the rules read in a title: "contents" (one of the five *)
(*             words), "label" (bracketed, enumerated), "short" (at most   *)
(*             12 characters, not numbered), "plain"                       *)
(*   page      the number of its page (1 in a Word file)                   *)
(*   rows      the cells: a list's items are rows of one cell, any other   *)
(*             text is one row, where cells stand for runs of characters   *)
(*   caption, footnote   of a table                                        *)
(* A character is <<block, row, column>>, where it comes from; white space *)
(* is left out.  HTML is a sequence of tags and texts without attributes,  *)
(* but for the spans of a cell.                                            *)
(***************************************************************************)
EXTENDS Integers, Sequences, SequencesExt, FiniteSetsExt

BlockType == {"title", "paragraph", "list", "table", "image", "page_number", "page_footnote"}
Span == (Nat \ {0}) \X (Nat \ {0})
TextCell == [size : Nat, span : Span]
SourceBlock ==
    [type : BlockType, level : Nat, look : {"contents", "label", "short", "plain"},
     page : Nat, rows : Seq(Seq(TextCell)), caption : Nat, footnote : Nat]

Chars(i, r, c, n) == [k \in 1 .. n |-> <<i, r, c>>]

Caption(i, b) == Chars(i, 0, 0, b.caption)
Footnote(i, b) == Chars(i, Len(b.rows) + 1, 0, b.footnote)
Cell(i, b, r, c) == Chars(i, r, c, b.rows[r][c].size)
Row(i, b, r) == FlattenSeq([c \in DOMAIN b.rows[r] |-> Cell(i, b, r, c)])
Body(i, b) == FlattenSeq([r \in DOMAIN b.rows |-> Row(i, b, r)])

(* block_text, with table_text for tables.                                 *)
BlockText(i, b) == Caption(i, b) \o Body(i, b) \o Footnote(i, b)

(* should_render_block and the test for an empty text in markdown_blocks.  *)
Renders(b) ==
    /\ b.type \notin {"page_number", "image"}
    /\ BlockText(1, b) # <<>>

(***************************************************************************)
(* Which titles are headings (PDF)                                         *)
(***************************************************************************)

IsContentsHeading(b) == b.type = "title" /\ b.look = "contents"

(* detect_table_of_contents_pages                                          *)
ContentsPages(blocks) ==
    {b.page : b \in {c \in Range(blocks) : Renders(c) /\ IsContentsHeading(c)}}

(* markdown_title_level: MinerU's level, 2 where it gives none.            *)
TitleLevel(b) == IF b.level = 0 THEN 2 ELSE Min({b.level, 6})

IsBodySubheading(b) == b.look = "label" \/ (b.look = "short" /\ b.level >= 2)

(* classify_markdown_blocks and infer_markdown_heading_level; 0: none.     *)
HeadingLevel(blocks, b) ==
    IF b.type = "title" /\ \/ IsContentsHeading(b)
                           \/ b.page \notin ContentsPages(blocks) /\ ~IsBodySubheading(b)
    THEN TitleLevel(b) ELSE 0

(***************************************************************************)
(* Tags                                                                    *)
(***************************************************************************)

Token(do, tag, text, span) == [do |-> do, tag |-> tag, text |-> text, span |-> span]
Open(tag) == Token("open", tag, <<>>, <<1, 1>>)
Close(tag) == Token("close", tag, <<>>, <<1, 1>>)
Data(text) == IF text = <<>> THEN <<>> ELSE <<Token("text", "text", text, <<1, 1>>)>>
Element(tag, text) == <<Open(tag)>> \o Data(text) \o <<Close(tag)>>

HeadingTag == <<"h1", "h2", "h3", "h4", "h5", "h6", "h7", "h8", "h9">>

(* The head of the page shell; its title is the same for every file.       *)
ShellTitle == <<0, 2, 2>>
Shell == <<Open("html"), Open("head"), Open("meta")>> \o Element("title", <<ShellTitle>>)
           \o <<Close("head"), Open("body"), Open("main")>>
ShellEnd == <<Close("main"), Close("body"), Close("html")>>

TableCell(i, b, r, c) ==
    <<Token("open", "td", <<>>, b.rows[r][c].span)>>
      \o Data(Cell(i, b, r, c)) \o <<Close("td")>>

TableRow(i, b, r) ==
    <<Open("tr")>> \o FlattenSeq([c \in DOMAIN b.rows[r] |-> TableCell(i, b, r, c)])
      \o <<Close("tr")>>

(* render_table, of some of the rows: the caption becomes the table's      *)
(* first child, a footnote an element after it.                            *)
RenderTable(i, b, rows) ==
    <<Open("table")>>
      \o (IF b.caption = 0 THEN <<>> ELSE Element("caption", Caption(i, b)))
      \o FlattenSeq([r \in DOMAIN b.rows |-> IF r \in rows THEN TableRow(i, b, r) ELSE <<>>])
      \o <<Close("table")>>
      \o (IF b.footnote = 0 THEN <<>> ELSE Element("div", Footnote(i, b)))

RenderListItems(i, b) ==
    <<Open("ul")>>
      \o FlattenSeq([r \in DOMAIN b.rows |-> Element("li", Row(i, b, r))])
      \o <<Close("ul")>>

(* render_block: a title of level 4 and deeper is an ordinary paragraph.   *)
RenderBlock(i, b, level) ==
    CASE b.type = "title" ->
            Element(IF level \in 1 .. 3 THEN HeadingTag[level] ELSE "p", Body(i, b))
      [] b.type = "paragraph" -> Element("p", Body(i, b))
      [] b.type = "list" -> RenderListItems(i, b)
      [] b.type = "table" -> RenderTable(i, b, DOMAIN b.rows)
      [] OTHER -> Element("div", Body(i, b))

(***************************************************************************)
(* Sections                                                                *)
(***************************************************************************)

(* Popping while the last level is not smaller.                            *)
Popped(open, level) ==
    SubSeq(open, 1, Max({k \in DOMAIN open : open[k] < level} \cup {0}))

CloseSections(n) == [k \in 1 .. n |-> Close("section")]

(* Close what a heading of this level ends, then open its own section.     *)
StartSection(open, level) ==
    CloseSections(Len(open) - Len(Popped(open, level))) \o <<Open("section")>>

(* Of a PDF's headings only levels 2 and 3 have sections: the two flags    *)
(* open_section and open_subsection are the levels in `open`.              *)
PdfSections(open, level) ==
    IF level \in {2, 3} THEN Append(Popped(open, level), level) ELSE open

PdfStart(open, level) == IF level \in {2, 3} THEN StartSection(open, level) ELSE <<>>

(***************************************************************************)
(* Word files                                                              *)
(***************************************************************************)

(* table_rows: rows without any text are dropped.                          *)
FilledRows(b) ==
    {r \in DOMAIN b.rows : \E c \in DOMAIN b.rows[r] : b.rows[r][c].size > 0}

(* build_html for one block: every heading style opens a section.          *)
DocxSections(open, b) ==
    IF b.level > 0 THEN Append(Popped(open, b.level), b.level) ELSE open

DocxBlock(open, i, b) ==
    IF b.level > 0 THEN StartSection(open, b.level) \o Element(HeadingTag[b.level], Body(i, b))
    ELSE IF b.type = "paragraph" THEN Element("p", Body(i, b))
    ELSE RenderTable(i, b, FilledRows(b))
==============================================================================
