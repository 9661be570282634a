--------------------------- MODULE MCDocumentBuild ---------------------------
(* Instances of DocumentBuild for TLC: the kinds of blocks of a file. *)
EXTENDS DocumentBuild

Say(n) == [size |-> n, span |-> <<1, 1>>]
Wide(n, cols, rows) == [size |-> n, span |-> <<cols, rows>>]
Plain(type, rows) ==
    [type |-> type, level |-> 0, look |-> "plain", page |-> 1, rows |-> rows,
     caption |-> 0, footnote |-> 0]

(* A name shows the first cell of a text, puts a dash for the second and   *)
(* leaves out the third at an end of it.                                   *)
Dashed == {<<i, 1, 2>> : i \in 1 .. 4}
Stripped == {<<i, 1, 3>> : i \in 1 .. 4}
Clean == <<Say(1)>>
Mixed == <<Say(1), Say(2), Say(1), Say(1)>>
Tailed == <<Say(1), Say(0), Say(1)>>
NoLetter == <<Say(0), Say(1), Say(1)>>

Heading(level, look, cells) ==
    [Plain("title", <<cells>>) EXCEPT !.level = level, !.look = look]
Title(level, look) == Heading(level, look, Clean)
Table(caption, rows, footnote) ==
    [Plain("table", rows) EXCEPT !.caption = caption, !.footnote = footnote]

Paragraph == Plain("paragraph", <<<<Say(2)>>>>)
Items == Plain("list", <<<<Say(1)>>, <<Say(0)>>>>)
Spanned == Table(1, <<<<Wide(1, 1, 2), Say(1)>>, <<Wide(1, 2, 1), Say(1)>>>>, 0)
CaptionOnly == Table(1, <<>>, 0)
Footnoted == Table(0, <<<<Say(1)>>>>, 1)

Kinds == {Title(5, "plain"), Title(2, "contents"), Title(2, "label"), Title(2, "short"),
          Heading(1, "short", Mixed), Heading(2, "plain", Tailed), Paragraph, Items, Spanned, CaptionOnly, Footnoted,
          Plain("page_footnote", <<<<Say(1)>>>>), Plain("page_number", <<<<Say(1)>>>>),
          Plain("image", <<>>), Plain("paragraph", <<<<Say(0)>>>>)}

Styled(level, cells) == [Plain("paragraph", <<cells>>) EXCEPT !.level = level]
WordKinds == {Styled(1, Clean), Styled(2, NoLetter), Styled(4, Mixed), Styled(7, Clean), Paragraph,
              Plain("paragraph", <<<<Say(0)>>>>),
              Table(0, <<<<Say(0), Say(0)>>, <<Say(1), Say(0)>>>>, 0),
              Table(0, <<<<Say(0)>>>>, 0)}
==============================================================================
