---------------------------- MODULE DocumentBuild ----------------------------
(***************************************************************************)
(* What an uploaded file becomes before it is published: rendered as HTML  *)
(* block by block (DocumentHtml), parsed and written as numbered           *)
(* directories and Markdown files (DocumentTree), read back as a stream of *)
(* text and cut into chunks that cite the files they cover (ChunkWindows), *)
(* and checked.  Nothing runs beside it; the model takes one step for each *)
(* turn of the code's loops, over every file that can be made of a few     *)
(* kinds of blocks.                                                        *)
(***************************************************************************)
EXTENDS DocumentTree, ChunkWindows

CONSTANTS
    PdfBlocks,     \* the blocks that a PDF may have, on any page
    DocxBlocks,    \* ... that the body of a Word file may have
    MaxBlocks,     \* bound: blocks of a PDF
    MaxItems,      \* bound: paragraphs and tables of a Word file
    MaxPages,      \* bound: pages of a PDF
    NewlineTokens  \* whether a newline between two files is a token

(* Only tables have captions and footnotes; a Word file has paragraphs,    *)
(* some of them with a heading style, and tables.                          *)
ASSUME BlockAssumption ==
    /\ PdfBlocks \subseteq SourceBlock /\ DocxBlocks \subseteq SourceBlock
    /\ \A b \in PdfBlocks : b.type # "table" => b.caption = 0 /\ b.footnote = 0
    /\ \A b \in DocxBlocks : /\ b.type \in {"paragraph", "table"} /\ b.level \in 0 .. 9
                             /\ b.type = "table" => b.level = 0
                             /\ b.caption = 0 /\ b.footnote = 0
    /\ MaxBlocks \in Nat /\ MaxItems \in Nat /\ MaxPages \in Nat
    /\ NewlineTokens \in BOOLEAN

VARIABLES
    kind,          \* "pdf" or "docx"
    blocks,        \* the file's blocks, in reading order
    phase,         \* "render", "parse", "write", "cut", "published", "refused"
    at,            \* blocks, tokens or nodes that the phase has dealt with
    html,          \* the tags and texts rendered
    open,          \* levels of the sections that are open in it
    parser,        \* the parsed nodes and the stack of open ones
    sections,      \* the headings above the next block: <<level, directory>>
    names,         \* the names given so far, by directory
    files          \* the text of each Markdown file, by path

buildVars == <<kind, blocks, phase, at, html, open, parser, sections, names, files>>
vars == <<buildVars, windowVars>>

OnPage(b, page) == [b EXCEPT !.page = page]

Pdfs ==
    {bs \in UNION {[1 .. n -> {OnPage(b, p) : b \in PdfBlocks, p \in 1 .. MaxPages}] :
                     n \in 1 .. MaxBlocks} :
        \A i \in 1 .. Len(bs) - 1 : bs[i].page <= bs[i + 1].page}

Docxs == UNION {[1 .. n -> DocxBlocks] : n \in 1 .. MaxItems}

(***************************************************************************)
(* Rendering                                                               *)
(***************************************************************************)

Opens(i) == \A j \in 1 .. i - 1 : Renders(blocks[j]) => blocks[j].page # blocks[i].page
Ends(i) == \A j \in i + 1 .. Len(blocks) : Renders(blocks[j]) => blocks[j].page # blocks[i].page

Rendering == phase = "render" /\ at < Len(blocks)

(* markdown_blocks drops it; build_docx_blocks does.                       *)
SkipBlock ==
    /\ Rendering
    /\ ~Renders(blocks[at + 1])
    /\ at' = at + 1
    /\ UNCHANGED <<kind, blocks, phase, html, open, parser, sections, names, files, windowVars>>

(* One block of render_blocks_with_sections, with the page around it: a    *)
(* page ends all its sections.                                             *)
RenderPdfBlock ==
    LET i == at + 1
        b == blocks[i]
        level == HeadingLevel(blocks, b)
        within == PdfSections(open, level)
    IN /\ Rendering /\ kind = "pdf" /\ Renders(b)
       /\ html' = html \o (IF Opens(i) THEN <<Open("section")>> ELSE <<>>)
                       \o PdfStart(open, level)
                       \o RenderBlock(i, b, level)
                       \o (IF Ends(i) THEN CloseSections(Len(within) + 1) ELSE <<>>)
       /\ open' = IF Ends(i) THEN <<>> ELSE within
       /\ at' = i
       /\ UNCHANGED <<kind, blocks, phase, parser, sections, names, files, windowVars>>

RenderDocxBlock ==
    LET i == at + 1 IN
    /\ Rendering /\ kind = "docx" /\ Renders(blocks[i])
    /\ html' = html \o DocxBlock(open, i, blocks[i])
    /\ open' = DocxSections(open, blocks[i])
    /\ at' = i
    /\ UNCHANGED <<kind, blocks, phase, parser, sections, names, files, windowVars>>

(* The sections still open are closed, and the shell is put around it all. *)
FinishHtml ==
    /\ phase = "render" /\ at = Len(blocks)
    /\ html' = Shell \o html \o CloseSections(Len(open)) \o ShellEnd
    /\ phase' = "parse" /\ at' = 0 /\ open' = <<>>
    /\ UNCHANGED <<kind, blocks, parser, sections, names, files, windowVars>>

(***************************************************************************)
(* Parsing and writing                                                     *)
(***************************************************************************)

Parse ==
    /\ phase = "parse" /\ at < Len(html)
    /\ parser' = Feed(parser, html[at + 1])
    /\ at' = at + 1
    /\ UNCHANGED <<kind, blocks, phase, html, open, sections, names, files, windowVars>>

(* A dictionary with one entry more.                                       *)
With(f, key, value) == [k \in DOMAIN f \cup {key} |-> IF k = key THEN value ELSE f[k]]

(* materialize_tree makes the document's directory.                        *)
StartWriting ==
    /\ phase = "parse" /\ at = Len(html)
    /\ phase' = "write" /\ at' = 0
    /\ sections' = <<<<0, <<>>>>>>
    /\ names' = With(<<>>, <<>>, <<>>)
    /\ UNCHANGED <<kind, blocks, html, open, parser, files, windowVars>>

NextNode == BlockNodes(parser.nodes)[at + 1]
Writing == phase = "write" /\ at < Len(BlockNodes(parser.nodes))

(* Mutant of Above: a heading ends only sections of deeper levels. *)
AboveOrBeside(level) ==
    SubSeq(sections, 1, Max({k \in DOMAIN sections : sections[k][1] <= level} \cup {0}))

(* The section_stack without the sections that a heading of level ends.    *)
Above(level) ==
    SubSeq(sections, 1, Max({k \in DOMAIN sections : sections[k][1] < level} \cup {0}))

WriteHeading ==
    LET n == NextNode
        level == LevelOf(parser.nodes[n].tag)
        dir == Last(Above(level))[2]
        name == NumberedName(names[dir], SlugText(NodeText(parser.nodes, n)), NoSuffix)
        section == Append(dir, name)
    IN /\ Writing /\ parser.nodes[n].tag \in HeadingTags
       /\ names' = With([names EXCEPT ![dir] = Counted(@, name)], section, <<>>)
       /\ sections' = Append(Above(level), <<level, section>>)
       /\ at' = at + 1
       /\ UNCHANGED <<kind, blocks, phase, html, open, parser, files, windowVars>>

WriteBlock ==
    LET n == NextNode
        dir == Last(sections)[2]
        name == NumberedName(names[dir], Slug(parser.nodes, n), ".md")
    IN /\ Writing /\ parser.nodes[n].tag \in BlockTags
       /\ names' = [names EXCEPT ![dir] = Counted(@, name)]
       /\ files' = With(files, Append(dir, name), Markdown(parser.nodes, n))
       /\ at' = at + 1
       /\ UNCHANGED <<kind, blocks, phase, html, open, parser, sections, windowVars>>

(***************************************************************************)
(* Chunks                                                                  *)
(***************************************************************************)

Newline == <<0, 0, 0>>

(* _document_streams: the files in the order of a walk by order_key.       *)
Paths ==
    CHOOSE paths \in SetToSeqs(DOMAIN files) :
       \A j, k \in DOMAIN paths : j < k => WalkedBefore(paths[j], paths[k])
Segments == LET paths == Paths IN [k \in DOMAIN paths |-> files[paths[k]]]

Joined(segments) ==
    FlattenSeq([k \in DOMAIN segments |-> (IF k = 1 THEN <<>> ELSE <<Newline>>) \o segments[k]])

(* Mutant of Cursor: the separators are not counted. *)
CursorOfTexts(segments) ==
    LET cursor[k \in 0 .. Len(segments)] ==
          IF k = 0 THEN 0 ELSE cursor[k - 1] + Len(segments[k])
    IN cursor

(* build_index's cursor after each segment.                                *)
Cursor(segments) ==
    LET cursor[k \in 0 .. Len(segments)] ==
          IF k = 0 THEN 0
          ELSE cursor[k - 1] + Len(segments[k]) + (IF cursor[k - 1] = 0 THEN 0 ELSE 1)
    IN cursor

(* The tokenizer: a token for every character.  DEFAULT_TOKENIZER counts   *)
(* the newlines; a model's tokenizer may give none for them.               *)
Tokens(text) == InOrder({k \in DOMAIN text : NewlineTokens \/ text[k] # Newline}, Len(text))

(* From the first character of the first token to behind the last one.     *)
CharRange(text, span) ==
    IF span[1] = span[2] THEN <<0, 0>>
    ELSE <<Tokens(text)[span[1] + 1] - 1, Tokens(text)[span[2]]>>

CoveredFiles(segments, span) ==
    LET range == CharRange(Joined(segments), span)
        cursor == Cursor(segments)
    IN {k \in DOMAIN segments : cursor[k - 1] < range[2] /\ cursor[k] > range[1]}

(* A document without files has no chunks.                                 *)
StartCutting ==
    /\ phase = "write" /\ at = Len(BlockNodes(parser.nodes))
    /\ phase' = IF files = <<>> THEN "published" ELSE "cut"
    /\ length' = Len(Tokens(Joined(Segments)))
    /\ UNCHANGED <<kind, blocks, at, html, open, parser, sections, names, files,
                   start, spans, cut>>

Cut ==
    /\ phase = "cut"
    /\ CutWindow
    /\ UNCHANGED buildVars

(* _validate_prepared: a chunk that cites nothing refuses the upload.      *)
Validate ==
    /\ phase = "cut" /\ cut
    /\ phase' = IF \E i \in DOMAIN spans : CoveredFiles(Segments, spans[i]) = {}
                THEN "refused" ELSE "published"
    /\ UNCHANGED <<kind, blocks, at, html, open, parser, sections, names, files, windowVars>>

Init ==
    /\ \/ kind = "pdf" /\ blocks \in Pdfs
       \/ kind = "docx" /\ blocks \in Docxs
    /\ phase = "render" /\ at = 0
    /\ html = <<>> /\ open = <<>>
    /\ parser = NewParser
    /\ sections = <<>> /\ names = <<>> /\ files = <<>>
    /\ length = 0 /\ start = 0 /\ spans = <<>> /\ cut = FALSE

Next ==
    \/ SkipBlock \/ RenderPdfBlock \/ RenderDocxBlock \/ FinishHtml
    \/ Parse
    \/ StartWriting \/ WriteHeading \/ WriteBlock
    \/ StartCutting \/ Cut \/ Validate

Spec == Init /\ [][Next]_vars

(***************************************************************************)
(* Properties                                                              *)
(***************************************************************************)

Block == 1 .. Len(blocks)
Characters == Nat \X Nat \X Nat
Name == [base : [number : Nat \ {0}, slug : Seq(Characters), suffix : {NoSuffix, ".md"}],
         copy : {1}]

(* Types; in particular that no two siblings ever need a copy number.      *)
TypeOK ==
    /\ kind \in {"pdf", "docx"} /\ at \in Nat
    /\ phase \in {"render", "parse", "write", "cut", "published", "refused"}
    /\ open \in Seq(1 .. 9)
    /\ Range(parser.stack) \subseteq DOMAIN parser.nodes
    /\ \A k \in DOMAIN sections : sections[k] \in (0 .. 6) \X Seq(Name)
    /\ DOMAIN names \subseteq Seq(Name)
    /\ DOMAIN files \subseteq Seq(Name)
    /\ \A path \in DOMAIN files : files[path] \in Seq(Characters)
    /\ length \in Nat /\ start \in Nat /\ cut \in BOOLEAN

(* The HTML is well formed: an end tag always ends the innermost open      *)
(* element, and nothing but the shell is open when the document ends.      *)
Balanced ==
    phase = "parse" =>
       LET tags == [k \in DOMAIN parser.stack |-> parser.nodes[parser.stack[k]].tag]
       IN /\ at < Len(html) /\ html[at + 1].do = "close"
                => tags # <<>> /\ Last(tags) = html[at + 1].tag
          /\ at = Len(html) => tags = <<>>

(* The outline a reader sees: the level of each block that is a heading,   *)
(* and the headings a block stands under, from the source alone.           *)
OutlineLevel(i) ==
    LET level == IF kind = "pdf" THEN HeadingLevel(blocks, blocks[i]) ELSE blocks[i].level
    IN IF Renders(blocks[i]) /\ level \in 1 .. (IF kind = "pdf" THEN 3 ELSE 6) THEN level ELSE 0

Headings == {i \in Block : OutlineLevel(i) > 0}

StandsUnder(i) ==
    {h \in Headings : /\ h < i
                      /\ i \in Headings => OutlineLevel(h) < OutlineLevel(i)
                      /\ \A g \in Headings \cap (h + 1 .. i - 1) : OutlineLevel(g) > OutlineLevel(h)}

(* The block that a slug or a text was made of (0: of no block's text).    *)
MadeOf(text) == Max({c[1] : c \in Range(text)} \cup {0})

(* The characters that have a place in a tree: headings, paragraphs, list  *)
(* items, table cells in spite of their spans, and the captions above them.*)
Placed(i) ==
    LET b == blocks[i]
        cells == Range(Body(i, b))
    IN IF b.type = "page_footnote" \/ (kind = "docx" /\ b.level > 6) THEN {}
       ELSE IF b.type = "table" /\ \E r \in DOMAIN b.rows : b.rows[r] # <<>>
       THEN cells \cup Range(Caption(i, b))
       ELSE cells

(* A directory's name shows the heading h it was made for, if a name can   *)
(* show any of its characters, and all that it can if it has room left.    *)
NamedAfter(name, h) ==
    LET shown == Placed(h) \ (Barred \cup Trimmed)
    IN /\ MadeOf(name.base.slug) = h \/ (MadeOf(name.base.slug) = 0 /\ shown = {})
       /\ Len(name.base.slug) < NameLimit => shown \subseteq Range(name.base.slug)

(* The HTML is balanced, and every file lies in the directories of the     *)
(* headings its block stands under, in their order, also where headings    *)
(* skip a level, go up by several, or run on over a page.                  *)
TreeIsOutline ==
    /\ Balanced
    /\ \A path \in DOMAIN files :
       MadeOf(files[path]) # 0 =>
          LET heads == InOrder(StandsUnder(MadeOf(files[path])), Len(blocks))
          IN /\ Len(path) = Len(heads) + 1
             /\ \A k \in DOMAIN heads : NamedAfter(path[k], heads[k])

Written == UNION {Range(files[path]) : path \in DOMAIN files}

Built == phase \in {"cut", "published", "refused"}

(* Every heading has its directory; what a name leaves out of it is        *)
(* written nowhere.  No character of another block is lost on the way, and *)
(* the stream that is cut into chunks follows the order of the source over *)
(* all levels of directories.                                              *)
StreamFollowsSource ==
    Built =>
       LET stream == Joined(Segments)
       IN /\ \A i \in Headings : \E dir \in DOMAIN names \ {<<>>} : NamedAfter(Last(dir), i)
          /\ \A i \in Block \ Headings : Renders(blocks[i]) => Placed(i) \subseteq Written
          /\ \A j, k \in DOMAIN stream :
                j < k /\ stream[k][1] > 0 => stream[j][1] <= stream[k][1]

(* Where segment k lies in the stream.                                     *)
SegmentStart(k) ==
    Len(Joined(SubSeq(Segments, 1, k))) - Len(Segments[k])
SegmentEnd(k) == Len(Joined(SubSeq(Segments, 1, k)))

Holds(span) ==
    LET range == CharRange(Joined(Segments), span)
    IN {k \in DOMAIN Segments :
          Max({range[1], SegmentStart(k)}) < Min({range[2], SegmentEnd(k)})}

(* File k begins right behind the chunk, which ends in the newline before  *)
(* it: build_index counts that newline to the file.                        *)
BeginsBehind(span, k) ==
    LET stream == Joined(Segments)
        end == CharRange(stream, span)[2]
    IN NewlineTokens /\ stream[end] = Newline /\ SegmentStart(k) = end

(* When the first file has a text: a chunk cites the files it has text of, *)
(* in spite of gaps, and beside them only files without any text and, when *)
(* it ends in a newline, the file behind that; and the document is not     *)
(* refused for a chunk that cites nothing.                                 *)
CitationsAreExact ==
    Built /\ Segments # <<>> /\ Segments[1] # <<>> =>
       /\ phase # "refused"
       /\ \A i \in DOMAIN spans :
             LET cited == CoveredFiles(Segments, spans[i])
             IN /\ Holds(spans[i]) \subseteq cited
                /\ \A k \in cited \ Holds(spans[i]) :
                      Segments[k] = <<>> \/ BeginsBehind(spans[i], k)
==============================================================================
