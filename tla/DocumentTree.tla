---------------------------- MODULE DocumentTree -----------------------------
(***************************************************************************)
(* From HTML to numbered directories and Markdown files                    *)
(* (document_resources/documents.py).                                      *)
(*                                                                         *)
(* The parsed tree is the sequence of its nodes in document order, which   *)
(* is the order in which they are made and in which walk() visits them; a  *)
(* node knows its ancestors, `within`, outermost first.  A text has its    *)
(* characters and, where Markdown has a list's dash or a table's bars, a   *)
(* Mark.  A name is its number, its slug, its suffix and its copy number.  *)
(***************************************************************************)
EXTENDS DocumentHtml, Functions

CONSTANTS
    Barred,        \* the characters that no name may hold: \ / : * ? " < > | #
    Trimmed,       \* the characters that no name begins with: . - _ and others
    NameLimit,     \* characters of a slug (60)
    SnippetLimit   \* characters of a text that its file is named after (24)

ASSUME SlugAssumption == NameLimit \in Nat \ {0} /\ SnippetLimit \in Nat \ {0}

Mark == <<0, 1, 1>>

HeadingTags == {HeadingTag[l] : l \in 1 .. 6}
BlockTags == {"p", "ul", "ol", "table"}
VoidTags == {"br", "meta", "link", "img"}

LevelOf(tag) == CHOOSE l \in 1 .. 6 : HeadingTag[l] = tag

(***************************************************************************)
(* The parser: handle_starttag, handle_endtag, handle_data                 *)
(***************************************************************************)

NewParser == [nodes |-> <<>>, stack |-> <<>>]

Node(p, token) ==
    [tag |-> token.tag, text |-> token.text, span |-> token.span, within |-> p.stack]

StartTag(p, token) ==
    [nodes |-> Append(p.nodes, Node(p, token)),
     stack |-> IF token.tag \in VoidTags THEN p.stack ELSE Append(p.stack, Len(p.nodes) + 1)]

(* An end tag closes the innermost open element of its name and all in it; *)
(* without one it is ignored.                                              *)
EndTag(p, token) ==
    LET opened == {k \in DOMAIN p.stack : p.nodes[p.stack[k]].tag = token.tag}
    IN IF opened = {} THEN p ELSE [p EXCEPT !.stack = SubSeq(@, 1, Max(opened) - 1)]

Text(p, token) == [p EXCEPT !.nodes = Append(@, Node(p, token))]

Feed(p, token) ==
    CASE token.do = "open" -> StartTag(p, token)
      [] token.do = "close" -> EndTag(p, token)
      [] OTHER -> Text(p, token)

(***************************************************************************)
(* Reading the tree                                                        *)
(***************************************************************************)

(* The numbers of a set, none of them above n, in increasing order.        *)
InOrder(S, n) == FlattenSeq([k \in 1 .. n |-> IF k \in S THEN <<k>> ELSE <<>>])

NodeText(nodes, n) ==
    FlattenSeq([d \in DOMAIN nodes |-> IF n \in Range(nodes[d].within) THEN nodes[d].text ELSE <<>>])

ChildrenOf(nodes, n, tags) ==
    InOrder({m \in DOMAIN nodes : /\ nodes[m].tag \in tags /\ nodes[m].within # <<>>
                                  /\ Last(nodes[m].within) = n}, Len(nodes))

IsBlockNode(node) == node.tag \in HeadingTags \cup BlockTags

(* block_nodes does not look inside the blocks it finds.                   *)
BlockNodes(nodes) ==
    InOrder({n \in DOMAIN nodes : /\ IsBlockNode(nodes[n])
                                  /\ \A a \in Range(nodes[n].within) : ~IsBlockNode(nodes[a])},
            Len(nodes))

ListItems(nodes, n) ==
    LET items == ChildrenOf(nodes, n, {"li"})
    IN [k \in DOMAIN items |-> NodeText(nodes, items[k])]

ListMarkdown(items) == FlattenSeq([k \in DOMAIN items |-> <<Mark>> \o items[k]])

(***************************************************************************)
(* parse_table: cells take the first free column of their row and fill the *)
(* area they span; the first row names the columns.                        *)
(***************************************************************************)

PlaceCell(nodes, row, grid, cell) ==
    LET slots == grid.slots
        column == Min({c \in grid.column .. grid.column + Cardinality(DOMAIN slots) :
                         <<row, c>> \notin DOMAIN slots})
        cols == nodes[cell].span[1]
        rows == nodes[cell].span[2]
        area == (row .. row + rows - 1) \X (column .. column + cols - 1)
    IN [slots |-> [s \in area \cup DOMAIN slots |->
                     IF s \in area THEN NodeText(nodes, cell) ELSE slots[s]],
        column |-> column + cols]

PlaceRow(nodes, row, slots, cells) ==
    LET grid[k \in 0 .. Len(cells)] ==
          IF k = 0 THEN [slots |-> slots, column |-> 0]
          ELSE PlaceCell(nodes, row, grid[k - 1], cells[k])
    IN grid[Len(cells)].slots

TableRows(nodes, n) ==
    InOrder({m \in DOMAIN nodes : nodes[m].tag = "tr" /\ n \in Range(nodes[m].within)}, Len(nodes))

TableSlots(nodes, n) ==
    LET rows == TableRows(nodes, n)
        slots[r \in 0 .. Len(rows)] ==
          IF r = 0 THEN <<>>
          ELSE PlaceRow(nodes, r, slots[r - 1], ChildrenOf(nodes, rows[r], {"th", "td"}))
    IN slots[Len(rows)]

(* Mutant of TableGrid: rows are cut to the columns that the first row names. *)
TableGridOfHeader(nodes, n) ==
    LET slots == TableSlots(nodes, n)
        width(r) == Max({s[2] + 1 : s \in {t \in DOMAIN slots : t[1] = r}} \cup {0})
        line(r) == [c \in 1 .. width(1) |->
                      IF <<r, c - 1>> \in DOMAIN slots THEN slots[<<r, c - 1>>] ELSE <<>>]
        rows == DOMAIN TableRows(nodes, n)
        kept == InOrder({r \in rows : width(r) > 0}, Cardinality(rows))
    IN [k \in DOMAIN kept |-> line(kept[k])]

(* Rows without a slot are dropped.                                        *)
TableGrid(nodes, n) ==
    LET slots == TableSlots(nodes, n)
        width(r) == Max({s[2] + 1 : s \in {t \in DOMAIN slots : t[1] = r}} \cup {0})
        line(r) == [c \in 1 .. width(r) |->
                      IF <<r, c - 1>> \in DOMAIN slots THEN slots[<<r, c - 1>>] ELSE <<>>]
        rows == DOMAIN TableRows(nodes, n)
        kept == InOrder({r \in rows : width(r) > 0}, Cardinality(rows))
    IN [k \in DOMAIN kept |-> line(kept[k])]

(* The text of the first caption that has one.                             *)
TableLabel(nodes, n) ==
    LET captions == {m \in DOMAIN nodes : /\ nodes[m].tag = "caption"
                                          /\ n \in Range(nodes[m].within)
                                          /\ NodeText(nodes, m) # <<>>}
    IN IF captions = {} THEN <<>> ELSE NodeText(nodes, Min(captions))

TableMarkdown(label, grid) ==
    IF grid = <<>> THEN <<>>
    ELSE label \o FlattenSeq([k \in DOMAIN grid |-> <<Mark>> \o FlattenSeq(grid[k])])

(***************************************************************************)
(* What is written for a node                                              *)
(***************************************************************************)

Markdown(nodes, n) ==
    CASE nodes[n].tag = "p" -> NodeText(nodes, n)
      [] nodes[n].tag \in {"ul", "ol"} -> ListMarkdown(ListItems(nodes, n))
      [] OTHER -> TableMarkdown(TableLabel(nodes, n), TableGrid(nodes, n))

(***************************************************************************)
(* Names                                                                   *)
(***************************************************************************)

(* For barred characters, and where no character is left for a name.       *)
Dash == <<0, 4, 4>>
NoName == <<0, 3, 3>>

FirstOf(text, n) == IF Len(text) <= n THEN text ELSE SubSeq(text, 1, n)

(* The text from its first to its last character that is neither barred    *)
(* nor trimmed, with one dash for several barred ones; cut to the limit.   *)
SlugText(text) ==
    LET solid == {k \in DOMAIN text : text[k] \notin Barred \cup Trimmed}
        kept == InOrder({k \in DOMAIN text : /\ \E a, b \in solid : a <= k /\ k <= b
                                             /\ text[k] \in Barred => text[k - 1] \notin Barred},
                         Len(text))
        slug == [j \in DOMAIN kept |-> IF text[kept[j]] \in Barred THEN Dash ELSE text[kept[j]]]
    IN IF slug = <<>> THEN <<NoName>> ELSE FirstOf(slug, NameLimit)

(* What a file is named after: a list's first item, a table's caption or   *)
(* the heads of its first three columns, the beginning of a paragraph.     *)
Slug(nodes, n) ==
    LET items == ListItems(nodes, n)
        label == TableLabel(nodes, n)
        grid == TableGrid(nodes, n)
    IN CASE nodes[n].tag \in {"ul", "ol"} ->
              SlugText(IF items = <<>> THEN <<>> ELSE FirstOf(items[1], SnippetLimit))
         [] nodes[n].tag = "table" ->
              SlugText(IF label # <<>> THEN label
                       ELSE IF grid = <<>> THEN <<>> ELSE FlattenSeq(FirstOf(grid[1], 3)))
         [] OTHER -> SlugText(FirstOf(NodeText(nodes, n), SnippetLimit))

(* Mutant of BaseName: the numbers count from zero. *)
BaseNameFromZero(bucket, slug, suffix) ==
    [number |-> Len(bucket), slug |-> slug, suffix |-> suffix]

NoSuffix == ""

(* numbered_name: the number counts every sibling, file or directory.  A   *)
(* bucket has the names given in a directory, in their order.              *)
BaseName(bucket, slug, suffix) ==
    [number |-> Len(bucket) + 1, slug |-> slug, suffix |-> suffix]

NumberedName(bucket, slug, suffix) ==
    LET base == BaseName(bucket, slug, suffix)
    IN [base |-> base, copy |-> Cardinality({k \in DOMAIN bucket : bucket[k] = base}) + 1]

Counted(bucket, name) == Append(bucket, name.base)

(* order_key, over the directories of a walk: names before each other.     *)
WalkedBefore(p, q) ==
    \E k \in DOMAIN p \cap DOMAIN q :
       /\ \A j \in 1 .. k - 1 : p[j] = q[j]
       /\ p[k].base.number < q[k].base.number
==============================================================================
