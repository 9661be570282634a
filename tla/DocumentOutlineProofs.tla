------------------------ MODULE DocumentOutlineProofs ------------------------
(***************************************************************************)
(* For every file that can be made of any kinds of blocks, of any length:  *)
(* its tree is the outline of the source, nothing that has a place in the  *)
(* tree is lost, and the stream of its files is in the source's order.     *)
(* In their order: what the parser makes of each block, and of the page    *)
(* around them; sections and the headings they stand for; what is written  *)
(* of each node; the outline; the stream.                                  *)
(***************************************************************************)
EXTENDS DocumentBuildProofs

-----------------------------------------------------------------------------
(* Parsing a run of tokens.  A step is strict when an end tag finds its    *)
(* own element innermost.                                                  *)
Strictly(p, token) ==
  token.do = "close" => p.stack # <<>> /\ p.nodes[Last(p.stack)].tag = token.tag

Trace(t, tokens) ==
  \A k \in 1 .. Len(tokens) :
     Strictly(t[k - 1], tokens[k]) /\ t[k] = Feed(t[k - 1], tokens[k])

Parses(q, tokens, r) ==
  \E t : t[0] = q /\ t[Len(tokens)] = r /\ Trace(t, tokens)

LEMMA ParsesNothing ==
  ASSUME NEW q
  PROVE  Parses(q, <<>>, q)
<1>1. PICK t : t = [k \in {0} |-> q]
  OBVIOUS
<1>2. t[0] = q /\ Len(<<>>) = 0
  BY <1>1
<1>3. Trace(t, <<>>)
  BY DEF Trace
<1> QED BY <1>2, <1>3 DEF Parses

LEMMA ParsesOne ==
  ASSUME NEW q, NEW token \in TokenSet, Strictly(q, token)
  PROVE  Parses(q, <<token>>, Feed(q, token))
<1>1. PICK t : t = [k \in 0 .. 1 |-> IF k = 0 THEN q ELSE Feed(q, token)]
  OBVIOUS
<1>2. t[0] = q /\ t[1] = Feed(q, token)
  BY <1>1
<1>3. PICK one : one = <<token>>
  OBVIOUS
<1>4. Len(one) = 1 /\ one[1] = token
  BY <1>3
<1>5. Trace(t, one)
  <2> SUFFICES ASSUME NEW k \in 1 .. 1
               PROVE  Strictly(t[k - 1], one[k]) /\ t[k] = Feed(t[k - 1], one[k])
    BY <1>4 DEF Trace
  <2>1. k = 1 /\ k - 1 = 0
    OBVIOUS
  <2> QED BY <1>2, <1>4, <2>1
<1>6. Parses(q, one, Feed(q, token))
  BY <1>2, <1>4, <1>5 DEF Parses
<1> QED BY <1>3, <1>6

LEMMA ParsesOn ==
  ASSUME NEW a \in Tokenized, NEW b \in Tokenized, NEW q, NEW r, NEW s,
         Parses(q, a, r), Parses(r, b, s)
  PROVE  Parses(q, a \o b, s)
<1>1. PICK t : t[0] = q /\ t[Len(a)] = r /\ Trace(t, a)
  BY DEF Parses
<1>2. PICK u : u[0] = r /\ u[Len(b)] = s /\ Trace(u, b)
  BY DEF Parses
<1>3. PICK ab : ab = a \o b
  OBVIOUS
<1>4. /\ Len(a) \in Nat /\ Len(b) \in Nat /\ Len(ab) = Len(a) + Len(b)
      /\ \A k \in 1 .. Len(ab) : ab[k] = IF k <= Len(a) THEN a[k] ELSE b[k - Len(a)]
  BY <1>3, ConcatProperties DEF Tokenized
<1>5. PICK v : v = [k \in 0 .. Len(ab) |-> IF k <= Len(a) THEN t[k] ELSE u[k - Len(a)]]
  OBVIOUS
<1>6. \A k \in 0 .. Len(ab) : v[k] = IF k <= Len(a) THEN t[k] ELSE u[k - Len(a)]
  BY <1>5
<1>7. v[0] = q
  BY <1>1, <1>4, <1>6
<1>8. v[Len(ab)] = s
  <2>1. CASE Len(b) = 0
    BY <1>1, <1>2, <1>4, <1>6, <2>1
  <2>2. CASE Len(b) # 0
    <3>1. ~(Len(ab) <= Len(a)) /\ Len(ab) - Len(a) = Len(b) /\ Len(ab) \in 0 .. Len(ab)
      BY <1>4, <2>2
    <3> QED BY <1>2, <1>6, <3>1
  <2> QED BY <2>1, <2>2
<1>9. Trace(v, ab)
  <2> SUFFICES ASSUME NEW k \in 1 .. Len(ab)
               PROVE  Strictly(v[k - 1], ab[k]) /\ v[k] = Feed(v[k - 1], ab[k])
    BY DEF Trace
  <2>1. CASE k <= Len(a)
    <3>1. k \in 1 .. Len(a) /\ k \in 0 .. Len(ab) /\ k - 1 \in 0 .. Len(ab) /\ k - 1 <= Len(a)
      BY <1>4, <2>1
    <3>2. v[k] = t[k] /\ v[k - 1] = t[k - 1] /\ ab[k] = a[k]
      BY <1>4, <1>6, <2>1, <3>1
    <3> QED BY <1>1, <3>1, <3>2 DEF Trace
  <2>2. CASE ~(k <= Len(a))
    <3> DEFINE j == k - Len(a)
    <3>1. j \in 1 .. Len(b) /\ k \in 0 .. Len(ab) /\ k - 1 \in 0 .. Len(ab)
          /\ (k - 1) - Len(a) = j - 1 /\ (k - 1 <= Len(a) => k - 1 = Len(a) /\ j - 1 = 0)
      BY <1>4, <2>2
    <3>2. v[k] = u[j] /\ ab[k] = b[j]
      BY <1>4, <1>6, <2>2, <3>1
    <3>3. v[k - 1] = u[j - 1]
      <4>1. CASE k - 1 <= Len(a)
        <5>1. v[k - 1] = t[Len(a)] /\ u[j - 1] = u[0]
          BY <1>6, <3>1, <4>1
        <5> QED BY <1>1, <1>2, <5>1
      <4>2. CASE ~(k - 1 <= Len(a))
        BY <1>6, <3>1, <4>2
      <4> QED BY <4>1, <4>2
    <3> HIDE DEF j
    <3> QED BY <1>2, <3>1, <3>2, <3>3 DEF Trace
  <2> QED BY <2>1, <2>2
<1>10. Parses(q, ab, s)
  BY <1>7, <1>8, <1>9 DEF Parses
<1> QED BY <1>3, <1>10

-----------------------------------------------------------------------------
(* What a token does to the parser.                                        *)
Made(nodes, more, node) ==
  /\ more \in Seq(NodeSet) /\ Len(more) = Len(nodes) + 1 /\ more[Len(nodes) + 1] = node
  /\ \A d \in 1 .. Len(nodes) : more[d] = nodes[d]

LEMMA NodeMade ==
  ASSUME NEW p, ParserOK(p), NEW token \in TokenSet, NEW more,
         more = Append(p.nodes, Node(p, token))
  PROVE  Made(p.nodes, more, Node(p, token))
<1>1. p.nodes \in Seq(NodeSet) /\ Node(p, token) \in NodeSet
  BY ParserFields, NodeTyped
<1> QED BY <1>1, AppendProperties DEF Made

LEMMA NodeIs ==
  ASSUME NEW p, NEW token
  PROVE  /\ Node(p, token).tag = token.tag /\ Node(p, token).text = token.text
         /\ Node(p, token).within = p.stack
  BY DEF Node

LEMMA OpenedIs ==
  ASSUME NEW p, ParserOK(p), NEW token \in TokenSet, token.do = "open", token.tag \notin VoidTags,
         NEW r, r = Feed(p, token)
  PROVE  /\ ParserOK(r) /\ Made(p.nodes, r.nodes, Node(p, token))
         /\ r.stack = Append(p.stack, Len(p.nodes) + 1)
         /\ Len(r.stack) = Len(p.stack) + 1 /\ r.stack[Len(p.stack) + 1] = Len(p.nodes) + 1
         /\ \A k \in 1 .. Len(p.stack) : r.stack[k] = p.stack[k]
<1>1. r = StartTag(p, token)
  BY DEF Feed
<1>2. r.nodes = Append(p.nodes, Node(p, token)) /\ r.stack = Append(p.stack, Len(p.nodes) + 1)
  BY <1>1 DEF StartTag
<1>3. p.stack \in Seq(Nat) /\ Len(p.nodes) + 1 \in Nat
  BY ParserFields
<1>4. ParserOK(r) /\ Made(p.nodes, r.nodes, Node(p, token))
  BY <1>2, NodeMade, FeedTyped
<1>5. /\ Len(r.stack) = Len(p.stack) + 1 /\ r.stack[Len(p.stack) + 1] = Len(p.nodes) + 1
      /\ \A k \in 1 .. Len(p.stack) : r.stack[k] = p.stack[k]
  BY <1>2, <1>3, AppendProperties
<1> QED BY <1>2, <1>4, <1>5

LEMMA VoidIs ==
  ASSUME NEW p, ParserOK(p), NEW token \in TokenSet, token.do = "open", token.tag \in VoidTags,
         NEW r, r = Feed(p, token)
  PROVE  /\ ParserOK(r) /\ Made(p.nodes, r.nodes, Node(p, token)) /\ r.stack = p.stack
<1>1. r = StartTag(p, token)
  BY DEF Feed
<1>2. r.nodes = Append(p.nodes, Node(p, token)) /\ r.stack = p.stack
  BY <1>1 DEF StartTag
<1> QED BY <1>2, NodeMade, FeedTyped

LEMMA TextIs ==
  ASSUME NEW p, ParserOK(p), NEW token \in TokenSet, token.do = "text",
         NEW r, r = Feed(p, token)
  PROVE  ParserOK(r) /\ Made(p.nodes, r.nodes, Node(p, token)) /\ r.stack = p.stack
<1>1. r = Text(p, token)
  BY DEF Feed
<1>2. p \in [nodes : Seq(NodeSet), stack : Seq(Nat)]
  BY DEF ParserOK
<1>3. r.nodes = Append(p.nodes, Node(p, token)) /\ r.stack = p.stack
  BY <1>1, <1>2 DEF Text
<1> QED BY <1>3, NodeMade, FeedTyped

LEMMA ClosedIs ==
  ASSUME NEW p, ParserOK(p), NEW token \in TokenSet, token.do = "close", Strictly(p, token),
         NEW r, r = Feed(p, token)
  PROVE  /\ ParserOK(r) /\ r.nodes = p.nodes
         /\ Len(p.stack) \in Nat \ {0} /\ Len(r.stack) = Len(p.stack) - 1
         /\ \A k \in 1 .. Len(p.stack) - 1 : r.stack[k] = p.stack[k]
<1> DEFINE n == Len(p.stack)
           O == {k \in DOMAIN p.stack : p.nodes[p.stack[k]].tag = token.tag}
<1>1. /\ p.stack \in Seq(Nat) /\ n \in Nat /\ DOMAIN p.stack = 1 .. n
      /\ p = [nodes |-> p.nodes, stack |-> p.stack]
  BY ParserFields
<1>2. p.stack # <<>> /\ p.nodes[Last(p.stack)].tag = token.tag
  BY DEF Strictly
<1>3. n \in 1 .. n /\ Last(p.stack) = p.stack[n]
  BY <1>1, <1>2, LastOf
<1>4. n \in O /\ O \in SUBSET Nat /\ \A k \in O : k <= n
  BY <1>1, <1>2, <1>3
<1>5. Max(O) = n
  <2> HIDE DEF O
  <2>1. Max(O) \in O /\ \A k \in O : k <= Max(O)
    BY <1>1, <1>4, Greatest
  <2>2. Max(O) \in Nat /\ Max(O) <= n /\ n <= Max(O)
    BY <1>4, <2>1
  <2> QED BY <1>1, <2>2
<1>6. Feed(p, token) = EndTag(p, token)
  BY DEF Feed
<1>7. EndTag(p, token) = [p EXCEPT !.stack = SubSeq(@, 1, Max(O) - 1)]
  BY <1>4 DEF EndTag
<1>8. r.nodes = p.nodes /\ r.stack = SubSeq(p.stack, 1, n - 1)
  <2> HIDE DEF O
  <2> QED BY <1>1, <1>5, <1>6, <1>7
<1>9. n - 1 \in 0 .. n /\ \A k \in 1 .. n - 1 : k \in 1 .. n
  BY <1>1, <1>3
<1>91. PICK m \in 0 .. n : m = n - 1
  BY <1>9
<1>93. Len(p.stack) \in Nat /\ m \in 0 .. Len(p.stack) /\ \A k \in 1 .. m : k \in 1 .. Len(p.stack)
  BY <1>1, <1>91
<1>92. /\ Len(SubSeq(p.stack, 1, m)) = m
       /\ \A k \in 1 .. m : SubSeq(p.stack, 1, m)[k] = p.stack[k]
  BY <1>1, <1>93, SubSeqProperties
<1>10. Len(r.stack) = n - 1 /\ \A k \in 1 .. n - 1 : r.stack[k] = p.stack[k]
  BY <1>8, <1>91, <1>92
<1> QED BY <1>3, <1>8, <1>10, FeedTyped

-----------------------------------------------------------------------------
(* Elements inside one another.  What grows in a run of tokens of block i  *)
(* stands below the elements open before it, none of which it closes; but  *)
(* for one node, head, its tags make no directory and no file.             *)
Inner == {"text", "li", "tr", "td", "caption", "div", "h7", "h8", "h9"}

Longer(q, r) == Len(q.nodes) <= Len(r.nodes) /\ \A d \in 1 .. Len(q.nodes) : r.nodes[d] = q.nodes[d]

Stands(within, base, m, d) ==
  /\ Len(base) <= Len(within)
  /\ \A k \in 1 .. Len(within) :
        IF k <= Len(base) THEN within[k] = base[k] ELSE within[k] \in (m + 1) .. (d - 1)

InCaption(nodes, d, base) ==
  \E k \in (Len(base) + 1) .. Len(nodes[d].within) : nodes[nodes[d].within[k]].tag = "caption"

Own(nodes, d, i, head, base, m) ==
  /\ d # head => nodes[d].tag \in Inner
  /\ \A c \in Range(nodes[d].text) : c[1] = i
  /\ Stands(nodes[d].within, base, m, d)
  /\ InCaption(nodes, d, base) => \A c \in Range(nodes[d].text) : c = <<i, 0, 0>>

NewNodes(q, r) == (Len(q.nodes) + 1) .. Len(r.nodes)

Grows(q, tokens, r, i, head) ==
  /\ tokens \in Tokenized /\ ParserOK(q) /\ ParserOK(r) /\ Parses(q, tokens, r)
  /\ r.stack = q.stack /\ Longer(q, r)
  /\ \A d \in NewNodes(q, r) : Own(r.nodes, d, i, head, q.stack, Len(q.nodes))

LEMMA GrowsNothing ==
  ASSUME NEW q, ParserOK(q), NEW i, NEW head
  PROVE  Grows(q, <<>>, q, i, head)
<1>1. <<>> \in Tokenized /\ Parses(q, <<>>, q) /\ Len(q.nodes) \in Nat
  BY ParsesNothing, ParserFields DEF Tokenized
<1>2. Longer(q, q) /\ NewNodes(q, q) = {}
  BY <1>1 DEF Longer, NewNodes
<1> QED BY <1>1, <1>2, Zenon DEF Grows

LEMMA StandsIn ==
  ASSUME NEW q, NEW r, ParserOK(q), ParserOK(r), NEW i, NEW head, NEW base, NEW m \in Nat,
         Len(base) \in Nat, NEW d \in 1 .. Len(r.nodes), Own(r.nodes, d, i, head, base, m)
  PROVE  \A k \in (Len(base) + 1) .. Len(r.nodes[d].within) :
            k \in 1 .. Len(r.nodes[d].within) /\ r.nodes[d].within[k] \in (m + 1) .. (d - 1)
<1>1. r.nodes[d].within \in Seq(Nat)
  BY ParserFields, NodeFields
<1>2. Stands(r.nodes[d].within, base, m, d)
  BY DEF Own
<1> DEFINE w == r.nodes[d].within
<1>3. Len(w) \in Nat /\ Stands(w, base, m, d)
  BY <1>1, <1>2
<1> HIDE DEF w
<1>4. \A k \in (Len(base) + 1) .. Len(w) : k \in 1 .. Len(w) /\ ~(k <= Len(base))
  BY <1>3
<1>5. \A k \in (Len(base) + 1) .. Len(w) : k \in 1 .. Len(w) /\ w[k] \in (m + 1) .. (d - 1)
  BY <1>3, <1>4 DEF Stands
<1> QED BY <1>5 DEF w

(* Later nodes do not change what is known of earlier ones.                *)
LEMMA OwnLater ==
  ASSUME NEW q, NEW r, ParserOK(q), ParserOK(r), Longer(q, r), NEW i, NEW head, NEW base,
         NEW m \in Nat, Len(base) \in Nat,
         NEW d \in 1 .. Len(q.nodes), Own(q.nodes, d, i, head, base, m)
  PROVE  Own(r.nodes, d, i, head, base, m)
<1>1. r.nodes[d] = q.nodes[d] /\ Len(q.nodes) \in Nat
  BY ParserFields DEF Longer
<1>2. \A k \in (Len(base) + 1) .. Len(q.nodes[d].within) :
         q.nodes[d].within[k] \in (m + 1) .. (d - 1)
  BY StandsIn
<1>3. ASSUME InCaption(r.nodes, d, base) PROVE InCaption(q.nodes, d, base)
  <2>1. PICK k \in (Len(base) + 1) .. Len(q.nodes[d].within) :
              r.nodes[q.nodes[d].within[k]].tag = "caption"
    BY <1>1, <1>3 DEF InCaption
  <2> DEFINE a == q.nodes[d].within[k]
  <2>2. a \in (m + 1) .. (d - 1) /\ r.nodes[a].tag = "caption"
    BY <1>2, <2>1
  <2>3. a \in 1 .. Len(q.nodes)
    <3> HIDE DEF a
    <3> QED BY <1>1, <2>2
  <2>4. q.nodes[a].tag = "caption"
    <3> HIDE DEF a
    <3> QED BY <2>2, <2>3 DEF Longer
  <2> QED BY <2>1, <2>4 DEF InCaption
<1> QED BY <1>1, <1>3 DEF Own

LEMMA LongerOn ==
  ASSUME NEW q, NEW r, NEW s, ParserOK(q), ParserOK(r), ParserOK(s), Longer(q, r), Longer(r, s)
  PROVE  Longer(q, s)
<1>1. Len(q.nodes) \in Nat /\ Len(r.nodes) \in Nat /\ Len(s.nodes) \in Nat
  BY ParserFields
<1>2. \A d \in 1 .. Len(q.nodes) : d \in 1 .. Len(r.nodes)
  BY <1>1 DEF Longer
<1> QED BY <1>1, <1>2 DEF Longer

LEMMA GrowsOn ==
  ASSUME NEW q, NEW r, NEW s, NEW a, NEW b, NEW i, NEW head,
         Grows(q, a, r, i, head), Grows(r, b, s, i, head)
  PROVE  Grows(q, a \o b, s, i, head)
<1>1. /\ a \in Tokenized /\ b \in Tokenized /\ ParserOK(q) /\ ParserOK(r) /\ ParserOK(s)
      /\ Parses(q, a, r) /\ Parses(r, b, s) /\ r.stack = q.stack /\ s.stack = r.stack
      /\ Longer(q, r) /\ Longer(r, s)
  BY DEF Grows
<1>2. a \o b \in Tokenized /\ Parses(q, a \o b, s) /\ Longer(q, s) /\ s.stack = q.stack
  BY <1>1, JoinTokens, ParsesOn, LongerOn
<1>3. Len(q.nodes) \in Nat /\ Len(r.nodes) \in Nat /\ Len(s.nodes) \in Nat
      /\ Len(q.nodes) <= Len(r.nodes) /\ Len(r.nodes) <= Len(s.nodes) /\ Len(q.stack) \in Nat
  BY <1>1, ParserFields DEF Longer
<1>4. ASSUME NEW d \in NewNodes(q, s) PROVE Own(s.nodes, d, i, head, q.stack, Len(q.nodes))
  <2>1. CASE d <= Len(r.nodes)
    <3>1. d \in NewNodes(q, r) /\ d \in 1 .. Len(r.nodes)
      BY <1>3, <2>1 DEF NewNodes
    <3>2. Own(r.nodes, d, i, head, q.stack, Len(q.nodes))
      BY <3>1 DEF Grows
    <3> QED BY <1>1, <1>3, <3>1, <3>2, OwnLater
  <2>2. CASE ~(d <= Len(r.nodes))
    <3>1. d \in NewNodes(r, s) /\ d \in 1 .. Len(s.nodes)
      BY <1>3, <2>2 DEF NewNodes
    <3>2. Own(s.nodes, d, i, head, q.stack, Len(r.nodes))
      BY <1>1, <3>1 DEF Grows
    <3>3. Stands(s.nodes[d].within, q.stack, Len(r.nodes), d)
      BY <3>2 DEF Own
    <3>4. Stands(s.nodes[d].within, q.stack, Len(q.nodes), d)
      <4>1. \A x : x \in (Len(r.nodes) + 1) .. (d - 1) => x \in (Len(q.nodes) + 1) .. (d - 1)
        BY <1>3, <3>1
      <4> QED BY <3>3, <4>1 DEF Stands
    <3> QED BY <3>2, <3>4 DEF Own
  <2> QED BY <2>1, <2>2
<1> QED BY <1>1, <1>2, <1>4 DEF Grows

(* Text, which makes one node or none.                                     *)
LEMMA StandsItself ==
  ASSUME NEW base, Len(base) \in Nat, NEW m, NEW d
  PROVE  Stands(base, base, m, d)
  BY DEF Stands

LEMMA GrowsText ==
  ASSUME NEW q, ParserOK(q), NEW text \in Texts, NEW i, NEW head, \A c \in Range(text) : c[1] = i,
         head # Len(q.nodes) + 1
  PROVE  \E r : /\ Grows(q, Data(text), r, i, head)
                /\ \A d \in NewNodes(q, r) : r.nodes[d].text = text
                /\ \A c \in Range(text) : \E d \in NewNodes(q, r) : c \in Range(r.nodes[d].text)
<1> DEFINE m == Len(q.nodes)
<1>1. CASE text = <<>>
  <2>1. Data(text) = <<>>
    BY <1>1 DEF Data
  <2>2. Grows(q, Data(text), q, i, head)
    BY <2>1, GrowsNothing, Zenon
  <2>3. NewNodes(q, q) = {}
    BY ParserFields DEF NewNodes
  <2>4. Range(text) = {}
    BY <1>1 DEF Range
  <2> QED BY <2>2, <2>3, <2>4
<1>2. CASE text # <<>>
  <2> DEFINE token == Token("text", "text", text, <<1, 1>>)
  <2>1. Data(text) = <<token>> /\ Data(text) \in Tokenized
    BY <1>2, TokenTyped DEF Data
  <2>2. token \in TokenSet
    <3>1. "text" \in Tag /\ <<1, 1>> \in Span
      BY DEF Tag, Span
    <3> QED BY <3>1 DEF Token, TokenSet
  <2>3. token.do = "text" /\ token.tag = "text" /\ token.text = text
    BY DEF Token
  <2> HIDE DEF token
  <2>4. PICK r : r = Feed(q, token)
    OBVIOUS
  <2>5. ParserOK(r) /\ Made(q.nodes, r.nodes, Node(q, token)) /\ r.stack = q.stack
    BY <2>2, <2>3, <2>4, TextIs
  <2>6. Strictly(q, token)
    BY <2>3 DEF Strictly
  <2>7. Parses(q, Data(text), r)
    BY <2>1, <2>2, <2>4, <2>6, ParsesOne
  <2>8. /\ m \in Nat /\ Len(r.nodes) = m + 1 /\ \A d \in 1 .. m : r.nodes[d] = q.nodes[d]
        /\ r.nodes[m + 1].tag = "text" /\ r.nodes[m + 1].text = text
        /\ r.nodes[m + 1].within = q.stack /\ Len(q.stack) \in Nat
    BY <2>3, <2>5, ParserFields, NodeIs DEF Made
  <2>9. Longer(q, r) /\ NewNodes(q, r) = {m + 1}
    BY <2>8 DEF Longer, NewNodes
  <2>10. Own(r.nodes, m + 1, i, head, q.stack, m)
    <3>1. "text" \in Inner
      BY DEF Inner
    <3>2. Stands(r.nodes[m + 1].within, q.stack, m, m + 1)
      BY <2>8, StandsItself
    <3>3. ~InCaption(r.nodes, m + 1, q.stack)
      BY <2>8 DEF InCaption
    <3> HIDE DEF m
    <3> QED BY <2>8, <3>1, <3>2, <3>3 DEF Own
  <2>11. Grows(q, Data(text), r, i, head)
    BY <2>1, <2>5, <2>7, <2>9, <2>10 DEF Grows
  <2> QED BY <2>8, <2>9, <2>11
<1> QED BY <1>1, <1>2

(* An element around what grows in it.                                     *)
Top(q, r, tag) ==
  /\ Len(q.nodes) + 1 \in 1 .. Len(r.nodes)
  /\ r.nodes[Len(q.nodes) + 1].tag = tag /\ r.nodes[Len(q.nodes) + 1].within = q.stack
  /\ \A d \in (Len(q.nodes) + 2) .. Len(r.nodes) : Len(q.nodes) + 1 \in Range(r.nodes[d].within)

LEMMA GrowsAround ==
  ASSUME NEW q, ParserOK(q), NEW o \in TokenSet, o.do = "open", o.text = <<>>, o.tag \notin VoidTags,
         NEW p, p = Feed(q, o), NEW tokens, NEW s, NEW i, NEW head, Grows(p, tokens, s, i, head),
         head = Len(q.nodes) + 1 \/ o.tag \in Inner,
         o.tag = "caption" =>
            \A d \in NewNodes(p, s) : \A c \in Range(s.nodes[d].text) : c = <<i, 0, 0>>
  PROVE  \E r : /\ Grows(q, <<o>> \o tokens \o <<Close(o.tag)>>, r, i, head)
                /\ r.nodes = s.nodes /\ Top(q, r, o.tag)
<1> DEFINE m == Len(q.nodes)
           z == Close(o.tag)
<1>1. /\ ParserOK(p) /\ Made(q.nodes, p.nodes, Node(q, o))
      /\ Len(p.stack) = Len(q.stack) + 1 /\ p.stack[Len(q.stack) + 1] = m + 1
      /\ \A k \in 1 .. Len(q.stack) : p.stack[k] = q.stack[k]
  BY OpenedIs
<1>2. /\ tokens \in Tokenized /\ ParserOK(s) /\ Parses(p, tokens, s)
      /\ s.stack = p.stack /\ Longer(p, s)
      /\ \A d \in NewNodes(p, s) : Own(s.nodes, d, i, head, p.stack, Len(p.nodes))
  BY DEF Grows
<1>3. /\ q.stack \in Seq(Nat) /\ Len(q.stack) \in Nat /\ m \in Nat /\ Len(p.nodes) = m + 1
      /\ Len(s.nodes) \in Nat /\ m + 1 <= Len(s.nodes) /\ s.stack \in Seq(Nat)
      /\ \A d \in 1 .. m : p.nodes[d] = q.nodes[d]
      /\ \A d \in 1 .. (m + 1) : s.nodes[d] = p.nodes[d]
      /\ p.nodes[m + 1] = Node(q, o)
  BY <1>1, <1>2, ParserFields DEF Made, Longer
<1>4. /\ s.nodes[m + 1].tag = o.tag /\ s.nodes[m + 1].text = <<>>
      /\ s.nodes[m + 1].within = q.stack
  BY <1>3, NodeIs
<1>5. z \in TokenSet /\ z.do = "close" /\ z.tag = o.tag
  <2>1. o.tag \in Tag
    BY DEF TokenSet
  <2> QED BY <2>1, TokenTyped DEF Close, Token
<1> HIDE DEF z
<1>6. Strictly(s, z)
  <2>1. s.stack # <<>> /\ Len(s.stack) = Len(q.stack) + 1 /\ s.stack[Len(s.stack)] = m + 1
    BY <1>1, <1>2, <1>3
  <2>2. Last(s.stack) = m + 1
    BY <2>1 DEF Last
  <2> QED BY <1>4, <1>5, <2>1, <2>2 DEF Strictly
<1>7. PICK r : r = Feed(s, z)
  OBVIOUS
<1>8. /\ ParserOK(r) /\ r.nodes = s.nodes /\ Len(r.stack) = Len(s.stack) - 1
      /\ \A k \in 1 .. Len(s.stack) - 1 : r.stack[k] = s.stack[k]
  BY <1>2, <1>5, <1>6, <1>7, ClosedIs
<1>9. r.stack = q.stack
  <2>1. Len(r.stack) = Len(q.stack) /\ r.stack \in Seq(Nat)
    BY <1>1, <1>2, <1>3, <1>8, ParserFields
  <2>2. ASSUME NEW k \in 1 .. Len(q.stack) PROVE r.stack[k] = q.stack[k]
    <3>1. k \in 1 .. Len(s.stack) - 1
      BY <1>1, <1>2, <1>3
    <3>2. r.stack[k] = s.stack[k]
      BY <1>8, <3>1
    <3>3. s.stack[k] = p.stack[k]
      BY <1>2
    <3> QED BY <1>1, <3>2, <3>3
  <2> QED BY <1>3, <2>1, <2>2, SeqEqual
<1>10. Parses(q, <<o>>, p) /\ Parses(s, <<z>>, r)
  <2>1. Strictly(q, o)
    BY DEF Strictly
  <2> QED BY <1>5, <1>6, <1>7, <2>1, ParsesOne
<1>11. <<o>> \in Tokenized /\ <<z>> \in Tokenized
  BY <1>5, FewElements DEF Tokenized
<1>12. <<o>> \o tokens \o <<z>> \in Tokenized /\ Parses(q, <<o>> \o tokens \o <<z>>, r)
  <2>1. <<o>> \o tokens \in Tokenized /\ Parses(q, <<o>> \o tokens, s)
    BY <1>2, <1>10, <1>11, JoinTokens, ParsesOn
  <2> QED BY <1>10, <1>11, <2>1, JoinTokens, ParsesOn
<1>13. Longer(q, r)
  BY <1>3, <1>8 DEF Longer
<1>14. ASSUME NEW d \in (m + 2) .. Len(s.nodes)
       PROVE  /\ Own(s.nodes, d, i, head, q.stack, m) /\ m + 1 \in Range(s.nodes[d].within)
  <2>1. d \in NewNodes(p, s) /\ d \in 1 .. Len(s.nodes)
    BY <1>3 DEF NewNodes
  <2>2. Own(s.nodes, d, i, head, p.stack, m + 1)
    BY <1>2, <1>3, <2>1
  <2> DEFINE w == s.nodes[d].within
             L == Len(q.stack)
  <2>3. w \in Seq(Nat) /\ Len(w) \in Nat /\ DOMAIN w = 1 .. Len(w)
    BY <1>2, <2>1, ParserFields, NodeFields
  <2>4. /\ L + 1 <= Len(w)
        /\ \A k \in 1 .. Len(w) :
              IF k <= L + 1 THEN w[k] = p.stack[k] ELSE w[k] \in (m + 2) .. (d - 1)
    <3>1. Stands(w, p.stack, m + 1, d)
      BY <2>2 DEF Own
    <3>2. (m + 1) + 1 = m + 2
      BY <1>3
    <3> HIDE DEF w, m, L
    <3> QED BY <1>1, <3>1, <3>2 DEF Stands, L
  <2>5. L + 1 \in 1 .. Len(w) /\ w[L + 1] = m + 1
    <3>1. L + 1 \in 1 .. Len(w) /\ L + 1 <= L + 1
      <4> HIDE DEF w
      <4> QED BY <1>3, <2>3, <2>4
    <3>2. w[L + 1] = p.stack[L + 1]
      BY <2>4, <3>1
    <3> QED BY <1>1, <3>1, <3>2
  <2>6. m + 1 \in Range(w)
    BY <2>3, <2>5 DEF Range
  <2>7. Stands(w, q.stack, m, d)
    <3>1. ASSUME NEW k \in 1 .. Len(w)
          PROVE  IF k <= L THEN w[k] = q.stack[k] ELSE w[k] \in (m + 1) .. (d - 1)
      <4>1. CASE k <= L
        <5>1. k \in 1 .. L /\ k <= L + 1
          BY <1>3, <2>3, <4>1
        <5> QED BY <1>1, <2>4, <4>1, <5>1
      <4>2. CASE k = L + 1
        <5>1. w[k] = m + 1 /\ ~(k <= L) /\ m + 1 <= d - 1
          BY <1>3, <2>5, <4>2
        <5> QED BY <1>3, <5>1
      <4>3. CASE ~(k <= L + 1)
        <5>1. w[k] \in (m + 2) .. (d - 1) /\ ~(k <= L)
          BY <1>3, <2>4, <4>3
        <5> QED BY <1>3, <5>1
      <4> QED BY <1>3, <2>3, <4>1, <4>2, <4>3
    <3>2. L <= Len(w)
      BY <1>3, <2>3, <2>4
    <3> QED BY <3>1, <3>2 DEF Stands
  <2>8. ASSUME InCaption(s.nodes, d, q.stack)
        PROVE  \A c \in Range(s.nodes[d].text) : c = <<i, 0, 0>>
    <3>1. PICK k \in (L + 1) .. Len(w) : s.nodes[w[k]].tag = "caption"
      BY <2>8 DEF InCaption
    <3>2. CASE k = L + 1
      <4>1. o.tag = "caption"
        BY <1>4, <2>5, <3>1, <3>2
      <4> QED BY <2>1, <4>1
    <3>3. CASE k # L + 1
      <4>1. k \in (Len(p.stack) + 1) .. Len(w)
        BY <1>1, <1>3, <2>3, <3>1, <3>3
      <4>2. InCaption(s.nodes, d, p.stack)
        BY <3>1, <4>1 DEF InCaption
      <4> QED BY <2>2, <4>2 DEF Own
    <3> QED BY <3>2, <3>3
  <2> QED BY <2>2, <2>6, <2>7, <2>8 DEF Own
<1>15. Own(s.nodes, m + 1, i, head, q.stack, m)
  <2>1. Range(s.nodes[m + 1].text) = {}
    BY <1>4 DEF Range
  <2>2. Stands(s.nodes[m + 1].within, q.stack, m, m + 1)
    BY <1>3, <1>4, StandsItself
  <2>3. m + 1 # head => s.nodes[m + 1].tag \in Inner
    BY <1>4
  <2> HIDE DEF m
  <2> QED BY <2>1, <2>2, <2>3 DEF Own
<1>16. \A d \in NewNodes(q, r) : Own(r.nodes, d, i, head, q.stack, m)
  <2>1. \A d \in NewNodes(q, r) : d = m + 1 \/ d \in (m + 2) .. Len(s.nodes)
    BY <1>3, <1>8 DEF NewNodes
  <2> QED BY <1>8, <1>14, <1>15, <2>1
<1>17. Grows(q, <<o>> \o tokens \o <<z>>, r, i, head)
  BY <1>8, <1>9, <1>12, <1>13, <1>16 DEF Grows
<1>18. Top(q, r, o.tag)
  BY <1>3, <1>4, <1>8, <1>14 DEF Top
<1> QED BY <1>8, <1>17, <1>18 DEF z

-----------------------------------------------------------------------------
(* What a reader finds below a node: a child with all of some characters   *)
(* in it, or such a cell in one of its rows.                               *)
Shown(nodes, x, c) ==
  \E d \in 1 .. Len(nodes) : x \in Range(nodes[d].within) /\ c \in Range(nodes[d].text)

ChildOf(nodes, x, y, tag) ==
  /\ x \in 1 .. Len(nodes) /\ nodes[x].tag = tag
  /\ nodes[x].within # <<>> /\ Last(nodes[x].within) = y

Holding(nodes, y, tag, all) ==
  \E x : ChildOf(nodes, x, y, tag) /\ \A c \in all : Shown(nodes, x, c)

Goal(nodes, y, how, all) ==
  IF how = "row" THEN \E z : ChildOf(nodes, z, y, "tr") /\ Holding(nodes, z, "td", all)
  ELSE Holding(nodes, y, how, all)

LEMMA GoalLater ==
  ASSUME NEW q, NEW r, ParserOK(q), ParserOK(r), Longer(q, r)
  PROVE  /\ \A x, c : Shown(q.nodes, x, c) => Shown(r.nodes, x, c)
         /\ \A y, how, all : Goal(q.nodes, y, how, all) => Goal(r.nodes, y, how, all)
<1>1. /\ Len(q.nodes) \in Nat /\ Len(r.nodes) \in Nat
      /\ \A d \in 1 .. Len(q.nodes) : d \in 1 .. Len(r.nodes) /\ r.nodes[d] = q.nodes[d]
  BY ParserFields DEF Longer
<1>2. \A x, c : Shown(q.nodes, x, c) => Shown(r.nodes, x, c)
  BY <1>1 DEF Shown
<1>3. \A x, y, tag : ChildOf(q.nodes, x, y, tag) => ChildOf(r.nodes, x, y, tag)
  BY <1>1 DEF ChildOf
<1>4. \A y, tag, all : Holding(q.nodes, y, tag, all) => Holding(r.nodes, y, tag, all)
  BY <1>2, <1>3 DEF Holding
<1>5. \A y, how, all : Goal(q.nodes, y, how, all) => Goal(r.nodes, y, how, all)
  BY <1>3, <1>4 DEF Goal
<1> QED BY <1>2, <1>5

LEMMA GrowsSizes ==
  ASSUME NEW q, NEW r, NEW tokens, NEW i, NEW head, Grows(q, tokens, r, i, head)
  PROVE  /\ ParserOK(q) /\ ParserOK(r) /\ r.stack = q.stack /\ Longer(q, r)
         /\ Len(q.nodes) \in Nat /\ Len(r.nodes) \in Nat /\ Len(q.nodes) <= Len(r.nodes)
         /\ tokens \in Tokenized
<1>1. ParserOK(q) /\ ParserOK(r) /\ r.stack = q.stack /\ Longer(q, r) /\ tokens \in Tokenized
  BY DEF Grows
<1> QED BY <1>1, ParserFields DEF Longer

(* A run of pieces reaches the goals of each of them.                      *)
Steady(p, piece, goals, i, head, y, how) ==
  \A q : ParserOK(q) /\ q.stack = p.stack /\ Len(p.nodes) <= Len(q.nodes)
           => \E r : /\ Grows(q, piece, r, i, head)
                     /\ \A all \in goals : Goal(r.nodes, y, how, all)

LEMMA PiecesGrow ==
  ASSUME NEW p, ParserOK(p), NEW pieces \in Seq(Tokenized), NEW goals, NEW i, NEW head, NEW y, NEW how,
         \A k \in 1 .. Len(pieces) : Steady(p, pieces[k], goals[k], i, head, y, how)
  PROVE  \E r : /\ Grows(p, FlattenSeq(pieces), r, i, head)
                /\ \A k \in 1 .. Len(pieces) : \A all \in goals[k] : Goal(r.nodes, y, how, all)
<1> DEFINE N == Len(pieces)
           Done(k) == \E r : /\ Grows(p, Flat(pieces, k), r, i, head)
                             /\ \A j \in 1 .. k : \A all \in goals[j] : Goal(r.nodes, y, how, all)
           G == {k \in 0 .. N : Done(k)}
<1>1. /\ N \in Nat /\ Flat(pieces, 0) = <<>> /\ Flat(pieces, N) = FlattenSeq(pieces)
      /\ \A k \in 0 .. (N - 1) : Flat(pieces, k + 1) = Flat(pieces, k) \o pieces[k + 1]
  <2>1. pieces \in Seq(Seq(TokenSet)) /\ N \in Nat
    BY DEF Tokenized
  <2> QED BY <2>1, FlatSteps
<1>2. 0 \in G
  <2>1. Grows(p, Flat(pieces, 0), p, i, head)
    BY <1>1, GrowsNothing, Zenon
  <2>2. Done(0)
    BY <2>1
  <2> HIDE DEF Done
  <2> QED BY <1>1, <2>2
<1>3. ASSUME NEW k \in 0 .. (N - 1), k \in G PROVE k + 1 \in G
  <2>1. PICK q : /\ Grows(p, Flat(pieces, k), q, i, head)
                 /\ \A j \in 1 .. k : \A all \in goals[j] : Goal(q.nodes, y, how, all)
    BY <1>3
  <2>2. k + 1 \in 1 .. N /\ k + 1 \in 0 .. N
    BY <1>1
  <2>3. Steady(p, pieces[k + 1], goals[k + 1], i, head, y, how)
    BY <2>2
  <2>4. ParserOK(q) /\ q.stack = p.stack /\ Len(p.nodes) <= Len(q.nodes)
    BY <2>1, GrowsSizes
  <2>5. PICK r : /\ Grows(q, pieces[k + 1], r, i, head)
                 /\ \A all \in goals[k + 1] : Goal(r.nodes, y, how, all)
    BY <2>3, <2>4 DEF Steady
  <2>6. Grows(p, Flat(pieces, k + 1), r, i, head)
    BY <1>1, <2>1, <2>5, GrowsOn
  <2>7. ASSUME NEW j \in 1 .. (k + 1), NEW all \in goals[j] PROVE Goal(r.nodes, y, how, all)
    <3>1. CASE j = k + 1
      BY <2>5, <3>1
    <3>2. CASE j \in 1 .. k
      <4>1. Goal(q.nodes, y, how, all)
        BY <2>1, <3>2
      <4> QED BY <2>5, <4>1, GoalLater, GrowsSizes
    <3> QED BY <1>1, <3>1, <3>2
  <2>8. Done(k + 1)
    BY <2>6, <2>7
  <2> HIDE DEF Done
  <2> QED BY <2>2, <2>8
<1> HIDE DEF G, Done
<1>4. N \in G
  <2>1. \A k \in 0 .. N : k \in G
    BY <1>1, <1>2, <1>3, UpTo
  <2> QED BY <1>1, <2>1
<1>5. Done(N)
  BY <1>4 DEF G
<1> QED BY <1>1, <1>5 DEF Done

(* An element of a text.                                                   *)
LEMMA ElementGrows ==
  ASSUME NEW q, ParserOK(q), NEW o \in TokenSet, o.do = "open", o.text = <<>>, o.tag \notin VoidTags,
         NEW text \in Texts, NEW i, \A c \in Range(text) : c[1] = i,
         NEW head \in Nat, head <= Len(q.nodes) + 1, head = Len(q.nodes) + 1 \/ o.tag \in Inner,
         o.tag = "caption" => \A c \in Range(text) : c = <<i, 0, 0>>
  PROVE  \E r : /\ Grows(q, <<o>> \o Data(text) \o <<Close(o.tag)>>, r, i, head)
                /\ Top(q, r, o.tag)
                /\ \A c \in Range(text) : Shown(r.nodes, Len(q.nodes) + 1, c)
<1>1. PICK p : p = Feed(q, o)
  OBVIOUS
<1>2. ParserOK(p) /\ Len(p.nodes) = Len(q.nodes) + 1 /\ Len(q.nodes) \in Nat
  BY <1>1, OpenedIs, ParserFields DEF Made
<1>3. PICK s : /\ Grows(p, Data(text), s, i, head)
               /\ \A d \in NewNodes(p, s) : s.nodes[d].text = text
               /\ \A c \in Range(text) : \E d \in NewNodes(p, s) : c \in Range(s.nodes[d].text)
  <2>1. head # Len(p.nodes) + 1
    BY <1>2
  <2> QED BY <1>2, <2>1, GrowsText
<1>4. PICK r : /\ Grows(q, <<o>> \o Data(text) \o <<Close(o.tag)>>, r, i, head)
               /\ r.nodes = s.nodes /\ Top(q, r, o.tag)
  BY <1>1, <1>3, GrowsAround
<1>5. ASSUME NEW c \in Range(text) PROVE Shown(r.nodes, Len(q.nodes) + 1, c)
  <2>1. PICK d \in NewNodes(p, s) : c \in Range(s.nodes[d].text)
    BY <1>3
  <2>2. d \in (Len(q.nodes) + 2) .. Len(r.nodes) /\ d \in 1 .. Len(r.nodes)
    BY <1>2, <1>4, <2>1 DEF NewNodes
  <2>3. Len(q.nodes) + 1 \in Range(r.nodes[d].within)
    BY <1>4, <2>2 DEF Top
  <2> QED BY <1>4, <2>1, <2>2, <2>3 DEF Shown
<1> QED BY <1>4, <1>5

LEMMA TagsIn ==
  /\ Inner \subseteq Tag /\ Inner \cap VoidTags = {}
  /\ {"p", "ul", "table", "section", "div"} \subseteq Tag
  /\ \A l \in 1 .. 9 : HeadingTag[l] \notin VoidTags
  /\ "p" \notin VoidTags /\ "ul" \notin VoidTags /\ "table" \notin VoidTags
<1>1. \A l \in 1 .. 9 : l \in {1, 2, 3, 4, 5, 6, 7, 8, 9}
  OBVIOUS
<1>2. Inner \subseteq Tag
  <2>1. {"h7", "h8", "h9"} \subseteq Tag
    <3>1. HeadingTag[7] = "h7" /\ HeadingTag[8] = "h8" /\ HeadingTag[9] = "h9"
      BY DEF HeadingTag
    <3> QED BY <3>1, HeadingTagTyped
  <2> QED BY <2>1 DEF Inner, Tag
<1>3. \A l \in 1 .. 9 : HeadingTag[l] \notin VoidTags
  BY <1>1 DEF HeadingTag, VoidTags
<1> QED BY <1>2, <1>3 DEF Inner, Tag, VoidTags

LEMMA OpenIs ==
  ASSUME NEW tag \in Tag
  PROVE  /\ Open(tag) \in TokenSet /\ Open(tag).do = "open" /\ Open(tag).text = <<>>
         /\ Open(tag).tag = tag
  BY TokenTyped DEF Open, Token

(* A child that a new element is, where it stands.                         *)
LEMMA TopIsChild ==
  ASSUME NEW q, ParserOK(q), q.stack # <<>>, NEW r, NEW tag, Top(q, r, tag)
  PROVE  ChildOf(r.nodes, Len(q.nodes) + 1, Last(q.stack), tag)
  BY DEF Top, ChildOf

LEMMA ElementPiece ==
  ASSUME NEW p, ParserOK(p), p.stack # <<>>, NEW o \in TokenSet, o.do = "open", o.text = <<>>,
         o.tag \in Inner, NEW text \in Texts, NEW i, \A c \in Range(text) : c[1] = i,
         NEW head \in Nat, head <= Len(p.nodes), o.tag = "caption" => \A c \in Range(text) : c = <<i, 0, 0>>
  PROVE  Steady(p, <<o>> \o Data(text) \o <<Close(o.tag)>>, {Range(text)}, i, head,
                Last(p.stack), o.tag)
<1> SUFFICES ASSUME NEW q, ParserOK(q), q.stack = p.stack, Len(p.nodes) <= Len(q.nodes)
             PROVE  \E r : /\ Grows(q, <<o>> \o Data(text) \o <<Close(o.tag)>>, r, i, head)
                           /\ Goal(r.nodes, Last(p.stack), o.tag, Range(text))
  BY DEF Steady
<1>1. o.tag \notin VoidTags /\ Len(q.nodes) \in Nat /\ Len(p.nodes) \in Nat /\ o.tag # "row"
  <2>1. o.tag # "row"
    BY DEF Inner
  <2> QED BY <2>1, TagsIn, ParserFields
<1>2. PICK r : /\ Grows(q, <<o>> \o Data(text) \o <<Close(o.tag)>>, r, i, head)
               /\ Top(q, r, o.tag)
               /\ \A c \in Range(text) : Shown(r.nodes, Len(q.nodes) + 1, c)
  <2>1. head <= Len(q.nodes) + 1
    BY <1>1
  <2> QED BY <1>1, <2>1, ElementGrows
<1>3. ChildOf(r.nodes, Len(q.nodes) + 1, Last(p.stack), o.tag)
  BY <1>2, TopIsChild
<1>4. Goal(r.nodes, Last(p.stack), o.tag, Range(text))
  BY <1>1, <1>2, <1>3 DEF Goal, Holding
<1> QED BY <1>2, <1>4

-----------------------------------------------------------------------------
(* The elements that a block is rendered as.                               *)
LEMMA BodyPiece ==
  ASSUME NEW i \in Nat \ {0}, NEW b \in SourceBlock, NEW r \in 1 .. Len(b.rows)
  PROVE  /\ \A e \in Range(Row(i, b, r)) : e[1] = i
         /\ \A c \in 1 .. Len(b.rows[r]) : \A e \in Range(Cell(i, b, r, c)) : e[1] = i
<1>1. \A c \in 1 .. Len(b.rows[r]) : \A e \in Range(Cell(i, b, r, c)) : e[1] = i
  BY CellTyped
<1>2. \A e \in Range(Row(i, b, r)) : e[1] = i
  BY <1>1, RowTyped
<1> QED BY <1>1, <1>2

(* Opening an element: what stands in it, and where.                       *)
LEMMA OpenElement ==
  ASSUME NEW q, ParserOK(q), NEW o \in TokenSet, o.do = "open", o.tag \notin VoidTags,
         NEW p, p = Feed(q, o)
  PROVE  /\ ParserOK(p) /\ Len(p.nodes) = Len(q.nodes) + 1 /\ Len(q.nodes) \in Nat
         /\ p.stack # <<>> /\ Last(p.stack) = Len(q.nodes) + 1
<1>1. /\ ParserOK(p) /\ Len(p.nodes) = Len(q.nodes) + 1
      /\ Len(p.stack) = Len(q.stack) + 1 /\ p.stack[Len(q.stack) + 1] = Len(q.nodes) + 1
  BY OpenedIs DEF Made
<1>2. Len(q.nodes) \in Nat /\ Len(q.stack) \in Nat
  BY ParserFields
<1>3. p.stack # <<>>
  BY <1>1, <1>2
<1> QED BY <1>1, <1>2, <1>3 DEF Last

LEMMA ListGrows ==
  ASSUME NEW q, ParserOK(q), NEW i \in Nat \ {0}, NEW b \in SourceBlock
  PROVE  \E r : /\ Grows(q, RenderListItems(i, b), r, i, Len(q.nodes) + 1)
                /\ Top(q, r, "ul")
                /\ \A k \in 1 .. Len(b.rows) :
                      Holding(r.nodes, Len(q.nodes) + 1, "li", Range(Row(i, b, k)))
<1> DEFINE s == [k \in DOMAIN b.rows |-> Element("li", Row(i, b, k))]
           head == Len(q.nodes) + 1
<1>1. /\ DOMAIN b.rows = 1 .. Len(b.rows) /\ Len(b.rows) \in Nat
      /\ \A k \in 1 .. Len(b.rows) : Row(i, b, k) \in Texts
  BY BlockFields, RowTyped
<1>2. /\ Open("ul") \in TokenSet /\ Open("ul").do = "open" /\ Open("ul").text = <<>>
      /\ Open("ul").tag = "ul" /\ "ul" \notin VoidTags
      /\ Open("li") \in TokenSet /\ Open("li").do = "open" /\ Open("li").text = <<>>
      /\ Open("li").tag = "li" /\ "li" \in Inner /\ "li" \in Tag
  <2>1. "ul" \in Tag /\ "ul" \notin VoidTags /\ "li" \in Inner /\ "li" \in Tag
    BY TagsIn DEF Inner
  <2> QED BY <2>1, OpenIs
<1>3. PICK p : p = Feed(q, Open("ul"))
  OBVIOUS
<1>4. /\ ParserOK(p) /\ Len(p.nodes) = head /\ head \in Nat /\ p.stack # <<>> /\ Last(p.stack) = head
  BY <1>2, <1>3, OpenElement
<1>5. /\ s = [k \in 1 .. Len(b.rows) |-> s[k]]
      /\ \A k \in 1 .. Len(b.rows) : s[k] = Element("li", Row(i, b, k)) /\ s[k] \in Tokenized
  BY <1>1, <1>2, ElementTyped
<1> HIDE DEF head
<1>6. ASSUME NEW k \in 1 .. Len(b.rows)
      PROVE  Steady(p, s[k], {Range(Row(i, b, k))}, i, head, head, "li")
  <2>1. \A c \in Range(Row(i, b, k)) : c[1] = i
    BY BodyPiece
  <2>2. Steady(p, <<Open("li")>> \o Data(Row(i, b, k)) \o <<Close("li")>>,
               {Range(Row(i, b, k))}, i, head, Last(p.stack), "li")
    <3>1. head <= Len(p.nodes)
      BY <1>4
    <3>2. "li" # "caption"
      OBVIOUS
    <3> QED BY <1>1, <1>2, <1>4, <2>1, <3>1, <3>2, ElementPiece
  <2>3. s[k] = <<Open("li")>> \o Data(Row(i, b, k)) \o <<Close("li")>>
    BY <1>5 DEF Element
  <2> HIDE DEF s
  <2> QED BY <1>4, <2>2, <2>3
<1> HIDE DEF s
<1>7. s \in Seq(Tokenized) /\ Len(s) = Len(b.rows)
  BY <1>1, <1>5, SeqBy
<1>8. PICK goals : goals = [k \in 1 .. Len(b.rows) |-> {Range(Row(i, b, k))}]
  OBVIOUS
<1>9. \A k \in 1 .. Len(s) : goals[k] = {Range(Row(i, b, k))}
  BY <1>7, <1>8
<1>10. \A k \in 1 .. Len(s) : Steady(p, s[k], goals[k], i, head, head, "li")
  BY <1>6, <1>7, <1>9
<1>11. PICK t : /\ Grows(p, FlattenSeq(s), t, i, head)
                /\ \A k \in 1 .. Len(s) : \A all \in goals[k] : Goal(t.nodes, head, "li", all)
  BY <1>4, <1>7, <1>10, PiecesGrow
<1>12. PICK r : /\ Grows(q, <<Open("ul")>> \o FlattenSeq(s) \o <<Close("ul")>>, r, i, head)
                /\ r.nodes = t.nodes /\ Top(q, r, "ul")
  <2>1. "ul" # "caption"
    OBVIOUS
  <2> QED BY <1>2, <1>3, <1>11, <2>1, GrowsAround DEF head
<1>13. RenderListItems(i, b) = <<Open("ul")>> \o FlattenSeq(s) \o <<Close("ul")>>
  BY DEF RenderListItems, s
<1>14. \A k \in 1 .. Len(b.rows) : Holding(r.nodes, head, "li", Range(Row(i, b, k)))
  <2>1. \A k \in 1 .. Len(b.rows) : Goal(t.nodes, head, "li", Range(Row(i, b, k)))
    BY <1>7, <1>9, <1>11
  <2> QED BY <1>12, <2>1 DEF Goal
<1> QED BY <1>12, <1>13, <1>14 DEF head

LEMMA RowPiece ==
  ASSUME NEW p, ParserOK(p), p.stack # <<>>, NEW i \in Nat \ {0}, NEW b \in SourceBlock,
         NEW n \in 1 .. Len(b.rows), NEW head \in Nat, head <= Len(p.nodes)
  PROVE  Steady(p, TableRow(i, b, n), {Range(Cell(i, b, n, c)) : c \in 1 .. Len(b.rows[n])},
                i, head, Last(p.stack), "row")
<1> DEFINE s == [c \in DOMAIN b.rows[n] |-> TableCell(i, b, n, c)]
           row == b.rows[n]
<1>1. /\ DOMAIN row = 1 .. Len(row) /\ Len(row) \in Nat
      /\ \A c \in 1 .. Len(row) : Cell(i, b, n, c) \in Texts /\ row[c].span \in Span
  BY BlockFields, CellTyped
<1> SUFFICES ASSUME NEW q, ParserOK(q), q.stack = p.stack, Len(p.nodes) <= Len(q.nodes)
             PROVE  \E r : /\ Grows(q, TableRow(i, b, n), r, i, head)
                           /\ \A c \in 1 .. Len(row) : Goal(r.nodes, Last(p.stack), "row", Range(Cell(i, b, n, c)))
  BY DEF Steady
<1>2. /\ Open("tr") \in TokenSet /\ Open("tr").do = "open" /\ Open("tr").text = <<>>
      /\ Open("tr").tag = "tr" /\ "tr" \notin VoidTags /\ "tr" \in Inner /\ "td" \in Inner
  <2>1. "tr" \in Tag /\ "tr" \notin VoidTags /\ "tr" \in Inner /\ "td" \in Inner
    BY TagsIn DEF Inner
  <2> QED BY <2>1, OpenIs
<1>3. PICK u : u = Feed(q, Open("tr"))
  OBVIOUS
<1> DEFINE y == Len(q.nodes) + 1
<1>4. /\ ParserOK(u) /\ Len(u.nodes) = y /\ y \in Nat /\ u.stack # <<>> /\ Last(u.stack) = y
      /\ head <= Len(u.nodes)
  <2>1. /\ ParserOK(u) /\ Len(u.nodes) = y /\ Len(q.nodes) \in Nat /\ u.stack # <<>> /\ Last(u.stack) = y
    BY <1>2, <1>3, OpenElement
  <2>2. Len(p.nodes) \in Nat
    BY ParserFields
  <2> QED BY <2>1, <2>2
<1> HIDE DEF y
<1>5. /\ s = [c \in 1 .. Len(row) |-> s[c]]
      /\ \A c \in 1 .. Len(row) : s[c] = TableCell(i, b, n, c) /\ s[c] \in Tokenized
  BY <1>1, TableCellTyped
<1>6. ASSUME NEW c \in 1 .. Len(row)
      PROVE  Steady(u, s[c], {Range(Cell(i, b, n, c))}, i, head, y, "td")
  <2>1. \A e \in Range(Cell(i, b, n, c)) : e[1] = i
    BY BodyPiece
  <2>2. PICK o : o = Token("open", "td", <<>>, b.rows[n][c].span)
    OBVIOUS
  <2>3. o \in TokenSet /\ o.do = "open" /\ o.text = <<>> /\ o.tag = "td" /\ o.tag # "caption"
    BY <1>1, <2>2, TokenTyped DEF Token
  <2>4. Steady(u, <<o>> \o Data(Cell(i, b, n, c)) \o <<Close(o.tag)>>,
               {Range(Cell(i, b, n, c))}, i, head, Last(u.stack), o.tag)
    BY <1>1, <1>2, <1>4, <2>1, <2>3, ElementPiece
  <2>5. s[c] = <<o>> \o Data(Cell(i, b, n, c)) \o <<Close("td")>>
    BY <1>5, <2>2 DEF TableCell
  <2> HIDE DEF s
  <2> QED BY <1>4, <2>3, <2>4, <2>5
<1> HIDE DEF s
<1>7. s \in Seq(Tokenized) /\ Len(s) = Len(row)
  BY <1>1, <1>5, SeqBy
<1>8. PICK goals : goals = [c \in 1 .. Len(row) |-> {Range(Cell(i, b, n, c))}]
  OBVIOUS
<1>9. \A c \in 1 .. Len(s) : goals[c] = {Range(Cell(i, b, n, c))}
  BY <1>7, <1>8
<1>10. \A c \in 1 .. Len(s) : Steady(u, s[c], goals[c], i, head, y, "td")
  BY <1>6, <1>7, <1>9
<1>11. PICK t : /\ Grows(u, FlattenSeq(s), t, i, head)
                /\ \A c \in 1 .. Len(s) : \A all \in goals[c] : Goal(t.nodes, y, "td", all)
  BY <1>4, <1>7, <1>10, PiecesGrow
<1>12. PICK r : /\ Grows(q, <<Open("tr")>> \o FlattenSeq(s) \o <<Close("tr")>>, r, i, head)
                /\ r.nodes = t.nodes /\ Top(q, r, "tr")
  <2>1. "tr" # "caption"
    OBVIOUS
  <2> QED BY <1>2, <1>3, <1>11, <2>1, GrowsAround
<1>13. TableRow(i, b, n) = <<Open("tr")>> \o FlattenSeq(s) \o <<Close("tr")>>
  BY DEF TableRow, s
<1>14. ASSUME NEW c \in 1 .. Len(row)
       PROVE  Goal(r.nodes, Last(p.stack), "row", Range(Cell(i, b, n, c)))
  <2>1. Goal(t.nodes, y, "td", Range(Cell(i, b, n, c)))
    BY <1>7, <1>9, <1>11
  <2>2. Holding(r.nodes, y, "td", Range(Cell(i, b, n, c)))
    BY <1>12, <2>1 DEF Goal
  <2>3. ChildOf(r.nodes, y, Last(p.stack), "tr")
    BY <1>12, TopIsChild DEF y
  <2> QED BY <2>2, <2>3 DEF Goal
<1> QED BY <1>12, <1>13, <1>14

-----------------------------------------------------------------------------
(* Tables.                                                                 *)
HeadIs(q, r, tag) ==
  /\ Len(q.nodes) + 1 \in 1 .. Len(r.nodes)
  /\ r.nodes[Len(q.nodes) + 1].tag = tag /\ r.nodes[Len(q.nodes) + 1].within = q.stack

LEMMA SteadyNow ==
  ASSUME NEW p, ParserOK(p), NEW piece, NEW goals, NEW i, NEW head, NEW y, NEW how,
         Steady(p, piece, goals, i, head, y, how)
  PROVE  \E r : Grows(p, piece, r, i, head) /\ \A all \in goals : Goal(r.nodes, y, how, all)
<1>1. Len(p.nodes) <= Len(p.nodes)
  BY ParserFields
<1> QED BY <1>1 DEF Steady

LEMMA CaptionGrows ==
  ASSUME NEW p, ParserOK(p), p.stack # <<>>, NEW i \in Nat \ {0}, NEW b \in SourceBlock,
         NEW head \in Nat, head <= Len(p.nodes)
  PROVE  /\ \E r : /\ Grows(p, IF b.caption = 0 THEN <<>> ELSE Element("caption", Caption(i, b)), r, i, head)
                   /\ b.caption # 0 => Holding(r.nodes, Last(p.stack), "caption", Range(Caption(i, b)))
         /\ \E r : Grows(p, IF b.footnote = 0 THEN <<>> ELSE Element("div", Footnote(i, b)), r, i, head)
<1>1. /\ Caption(i, b) \in Texts /\ Footnote(i, b) \in Texts
      /\ \A c \in Range(Caption(i, b)) : c = <<i, 0, 0>>
      /\ \A c \in Range(Footnote(i, b)) : c[1] = i
  <2>1. b.caption \in Nat /\ b.footnote \in Nat /\ Len(b.rows) + 1 \in Nat
    BY BlockFields
  <2>2. Caption(i, b) = Chars(i, 0, 0, b.caption) /\ Footnote(i, b) = Chars(i, Len(b.rows) + 1, 0, b.footnote)
    BY DEF Caption, Footnote
  <2>3. PICK zero \in Nat : zero = 0
    OBVIOUS
  <2>4. PICK row \in Nat : row = Len(b.rows) + 1
    BY <2>1
  <2>5. /\ Chars(i, zero, zero, b.caption) \in Texts
        /\ \A x : x \in Range(Chars(i, zero, zero, b.caption)) => x = <<i, zero, zero>>
    BY <2>1, CharsTyped
  <2>6. /\ Chars(i, row, zero, b.footnote) \in Texts
        /\ \A x : x \in Range(Chars(i, row, zero, b.footnote)) => x = <<i, row, zero>>
    BY <2>1, CharsTyped
  <2>7. Caption(i, b) \in Texts /\ \A c \in Range(Caption(i, b)) : c = <<i, 0, 0>>
    BY <2>2, <2>3, <2>5
  <2>8. Footnote(i, b) \in Texts /\ \A c \in Range(Footnote(i, b)) : c = <<i, row, zero>>
    BY <2>2, <2>3, <2>4, <2>6
  <2> QED BY <2>7, <2>8
<1>2. \A c \in Range(Caption(i, b)) : c[1] = i
  BY <1>1
<1>3. {"caption", "div"} \subseteq Inner /\ "div" # "caption" /\ {"caption", "div"} \subseteq Tag
  BY TagsIn DEF Inner
<1>4. Grows(p, <<>>, p, i, head)
  BY GrowsNothing
<1>5. \E r : /\ Grows(p, Element("caption", Caption(i, b)), r, i, head)
             /\ Holding(r.nodes, Last(p.stack), "caption", Range(Caption(i, b)))
  <2>1. PICK o : o = Open("caption")
    OBVIOUS
  <2>2. o \in TokenSet /\ o.do = "open" /\ o.text = <<>> /\ o.tag = "caption"
    BY <1>3, <2>1, OpenIs
  <2>3. Steady(p, <<o>> \o Data(Caption(i, b)) \o <<Close(o.tag)>>, {Range(Caption(i, b))}, i, head,
               Last(p.stack), o.tag)
    BY <1>1, <1>2, <1>3, <2>2, ElementPiece
  <2>4. Element("caption", Caption(i, b)) = <<o>> \o Data(Caption(i, b)) \o <<Close(o.tag)>>
    BY <2>1, <2>2 DEF Element
  <2>41. PICK goals : goals = {Range(Caption(i, b))}
    OBVIOUS
  <2>42. Steady(p, Element("caption", Caption(i, b)), goals, i, head, Last(p.stack), o.tag)
    BY <2>3, <2>4, <2>41, Zenon
  <2>43. PICK r : /\ Grows(p, Element("caption", Caption(i, b)), r, i, head)
                  /\ \A all \in goals : Goal(r.nodes, Last(p.stack), o.tag, all)
    BY <2>42, SteadyNow
  <2>5. Goal(r.nodes, Last(p.stack), o.tag, Range(Caption(i, b)))
    BY <2>41, <2>43
  <2>6. Holding(r.nodes, Last(p.stack), "caption", Range(Caption(i, b)))
    BY <2>2, <2>5 DEF Goal
  <2> QED BY <2>43, <2>6
<1>6. \E r : Grows(p, Element("div", Footnote(i, b)), r, i, head)
  <2>1. PICK o : o = Open("div")
    OBVIOUS
  <2>2. o \in TokenSet /\ o.do = "open" /\ o.text = <<>> /\ o.tag = "div"
    BY <1>3, <2>1, OpenIs
  <2>3. Steady(p, <<o>> \o Data(Footnote(i, b)) \o <<Close(o.tag)>>, {Range(Footnote(i, b))}, i, head,
               Last(p.stack), o.tag)
    BY <1>1, <1>3, <2>2, ElementPiece
  <2>4. Element("div", Footnote(i, b)) = <<o>> \o Data(Footnote(i, b)) \o <<Close(o.tag)>>
    BY <2>1, <2>2 DEF Element
  <2> QED BY <2>3, <2>4, SteadyNow
<1>7. CASE b.caption = 0
  BY <1>4, <1>6, <1>7
<1>8. CASE b.caption # 0
  BY <1>4, <1>5, <1>6, <1>8
<1> QED BY <1>7, <1>8

LEMMA RowsGrow ==
  ASSUME NEW p, ParserOK(p), p.stack # <<>>, NEW i \in Nat \ {0}, NEW b \in SourceBlock, NEW rows,
         NEW head \in Nat, head <= Len(p.nodes),
         NEW s, s = [n \in 1 .. Len(b.rows) |-> s[n]],
         \A n \in 1 .. Len(b.rows) : s[n] = IF n \in rows THEN TableRow(i, b, n) ELSE <<>>
  PROVE  \E r : /\ Grows(p, FlattenSeq(s), r, i, head)
                /\ \A n \in 1 .. Len(b.rows) : n \in rows => \A c \in 1 .. Len(b.rows[n]) :
                      Goal(r.nodes, Last(p.stack), "row", Range(Cell(i, b, n, c)))
<1> DEFINE y == Last(p.stack)
           Cells(n) == {Range(Cell(i, b, n, c)) : c \in 1 .. Len(b.rows[n])}
<1>1. /\ DOMAIN b.rows = 1 .. Len(b.rows) /\ Len(b.rows) \in Nat
  BY BlockFields
<1>3. \A n \in 1 .. Len(b.rows) : s[n] \in Tokenized
  <2>1. <<>> \in Tokenized
    BY DEF Tokenized
  <2> QED BY <2>1, TableRowTyped
<1>4. s \in Seq(Tokenized) /\ Len(s) = Len(b.rows)
  BY <1>1, <1>3, SeqBy
<1>5. PICK goals : goals = [n \in 1 .. Len(b.rows) |-> IF n \in rows THEN Cells(n) ELSE {}]
  OBVIOUS
<1>6. \A n \in 1 .. Len(b.rows) : /\ n \in rows => goals[n] = Cells(n)
                                  /\ n \notin rows => goals[n] = {}
  BY <1>5
<1> HIDE DEF y
<1>7. ASSUME NEW n \in 1 .. Len(s) PROVE Steady(p, s[n], goals[n], i, head, y, "row")
  <2>1. CASE n \in rows
    <3>1. Steady(p, TableRow(i, b, n), Cells(n), i, head, y, "row")
      BY <1>4, RowPiece DEF y
    <3> QED BY <1>4, <1>6, <2>1, <3>1
  <2>2. CASE n \notin rows
    <3>1. s[n] = <<>> /\ goals[n] = {}
      BY <1>4, <1>6, <2>2
    <3>2. ASSUME NEW q, ParserOK(q) PROVE Grows(q, s[n], q, i, head)
      <4>1. Grows(q, <<>>, q, i, head)
        BY <3>2, GrowsNothing
      <4> QED BY <3>1, <4>1, Zenon
    <3> QED BY <3>1, <3>2 DEF Steady
  <2> QED BY <2>1, <2>2
<1>8. PICK r : /\ Grows(p, FlattenSeq(s), r, i, head)
               /\ \A n \in 1 .. Len(s) : \A all \in goals[n] : Goal(r.nodes, y, "row", all)
  BY <1>4, <1>7, PiecesGrow
<1>9. ASSUME NEW n \in 1 .. Len(b.rows), n \in rows, NEW c \in 1 .. Len(b.rows[n])
      PROVE  Goal(r.nodes, y, "row", Range(Cell(i, b, n, c)))
  <2>1. Range(Cell(i, b, n, c)) \in goals[n]
    BY <1>6, <1>9
  <2> QED BY <1>4, <1>8, <2>1
<1> QED BY <1>8, <1>9 DEF y

LEMMA HeadKept ==
  ASSUME NEW q, NEW r, NEW s, ParserOK(q), ParserOK(r), ParserOK(s), Longer(r, s), NEW tag,
         HeadIs(q, r, tag)
  PROVE  HeadIs(q, s, tag)
<1>1. Len(r.nodes) \in Nat /\ Len(s.nodes) \in Nat /\ Len(q.nodes) \in Nat
  BY ParserFields
<1> QED BY <1>1 DEF HeadIs, Longer

LEMMA TableGrows ==
  ASSUME NEW q, ParserOK(q), q.stack # <<>>, NEW i \in Nat \ {0}, NEW b \in SourceBlock, NEW rows
  PROVE  \E r : /\ Grows(q, RenderTable(i, b, rows), r, i, Len(q.nodes) + 1)
                /\ HeadIs(q, r, "table")
                /\ \A n \in 1 .. Len(b.rows) : n \in rows => \A c \in 1 .. Len(b.rows[n]) :
                      Goal(r.nodes, Len(q.nodes) + 1, "row", Range(Cell(i, b, n, c)))
                /\ b.caption # 0 =>
                      Holding(r.nodes, Len(q.nodes) + 1, "caption", Range(Caption(i, b)))
<1> DEFINE y == Len(q.nodes) + 1
           cap == IF b.caption = 0 THEN <<>> ELSE Element("caption", Caption(i, b))
           foot == IF b.footnote = 0 THEN <<>> ELSE Element("div", Footnote(i, b))
           s == [n \in DOMAIN b.rows |-> IF n \in rows THEN TableRow(i, b, n) ELSE <<>>]
           flat == FlattenSeq(s)
           o == Open("table")
           z == Close("table")
<1>1. o \in TokenSet /\ o.do = "open" /\ o.text = <<>> /\ o.tag = "table" /\ "table" \notin VoidTags
  BY TagsIn, OpenIs
<1>2. RenderTable(i, b, rows) = <<o>> \o cap \o flat \o <<z>> \o foot
  BY DEF RenderTable
<1> HIDE DEF o, z, flat
<1>3. PICK p : p = Feed(q, o)
  OBVIOUS
<1>4. ParserOK(p) /\ Len(p.nodes) = y /\ p.stack # <<>> /\ Last(p.stack) = y /\ y \in Nat
      /\ y <= Len(p.nodes)
  <2>1. ParserOK(p) /\ Len(p.nodes) = y /\ p.stack # <<>> /\ Last(p.stack) = y /\ Len(q.nodes) \in Nat
    BY <1>1, <1>3, OpenElement
  <2> QED BY <2>1
<1>5. PICK p1 : /\ Grows(p, cap, p1, i, y)
                /\ b.caption # 0 => Holding(p1.nodes, y, "caption", Range(Caption(i, b)))
  <2> HIDE DEF y
  <2> QED BY <1>4, CaptionGrows
<1> HIDE DEF cap
<1>6. ParserOK(p1) /\ p1.stack = p.stack /\ y <= Len(p1.nodes) /\ cap \in Tokenized
  <2> HIDE DEF y
  <2> QED BY <1>4, <1>5, GrowsSizes
<1>7. PICK p2 : /\ Grows(p1, flat, p2, i, y)
                /\ \A n \in 1 .. Len(b.rows) : n \in rows => \A c \in 1 .. Len(b.rows[n]) :
                      Goal(p2.nodes, y, "row", Range(Cell(i, b, n, c)))
  <2>1. PICK pieces : pieces = s
    OBVIOUS
  <2>2. flat = FlattenSeq(pieces)
    BY <2>1 DEF flat
  <2>3. /\ pieces = [n \in 1 .. Len(b.rows) |-> pieces[n]]
        /\ \A n \in 1 .. Len(b.rows) : pieces[n] = IF n \in rows THEN TableRow(i, b, n) ELSE <<>>
    <3>1. DOMAIN b.rows = 1 .. Len(b.rows)
      BY BlockFields
    <3> QED BY <2>1, <3>1
  <2>4. p1.stack # <<>> /\ Last(p1.stack) = y
    BY <1>4, <1>6
  <2> HIDE DEF y
  <2>5. PICK t : /\ Grows(p1, FlattenSeq(pieces), t, i, y)
                 /\ \A n \in 1 .. Len(b.rows) : n \in rows => \A c \in 1 .. Len(b.rows[n]) :
                       Goal(t.nodes, Last(p1.stack), "row", Range(Cell(i, b, n, c)))
    BY <1>4, <1>6, <2>3, <2>4, RowsGrow
  <2> QED BY <2>2, <2>4, <2>5
<1> HIDE DEF s
<1>8. ParserOK(p2) /\ Longer(p1, p2) /\ flat \in Tokenized
  <2> HIDE DEF y
  <2> QED BY <1>7, GrowsSizes
<1>9. Grows(p, cap \o flat, p2, i, y)
  <2> HIDE DEF y
  <2> QED BY <1>5, <1>7, GrowsOn
<1>10. PICK r1 : /\ Grows(q, <<o>> \o (cap \o flat) \o <<z>>, r1, i, y)
                 /\ r1.nodes = p2.nodes /\ Top(q, r1, "table")
  <2>1. "table" # "caption" /\ y = Len(q.nodes) + 1
    OBVIOUS
  <2> HIDE DEF y
  <2> QED BY <1>1, <1>3, <1>9, <2>1, GrowsAround DEF z
<1>11. ParserOK(r1) /\ r1.stack # <<>> /\ y <= Len(r1.nodes)
  <2>1. ParserOK(r1) /\ r1.stack = q.stack
    <3> HIDE DEF y
    <3> QED BY <1>10, GrowsSizes
  <2> QED BY <1>10, <2>1 DEF Top
<1>12. PICK r : Grows(r1, foot, r, i, y)
  <2> HIDE DEF y
  <2> QED BY <1>4, <1>11, CaptionGrows
<1> HIDE DEF foot
<1>13. Grows(q, <<o>> \o (cap \o flat) \o <<z>> \o foot, r, i, y)
  <2> HIDE DEF y
  <2> QED BY <1>10, <1>12, GrowsOn
<1>14. RenderTable(i, b, rows) = <<o>> \o (cap \o flat) \o <<z>> \o foot
  <2>1. <<o>> \in Seq(TokenSet) /\ cap \in Seq(TokenSet) /\ flat \in Seq(TokenSet)
    BY <1>1, <1>6, <1>8, FewElements DEF Tokenized
  <2>2. <<o>> \o cap \o flat = <<o>> \o (cap \o flat)
    BY <2>1, ConcatAssociative
  <2> QED BY <1>2, <2>2
<1>15. Longer(r1, r) /\ ParserOK(r) /\ HeadIs(q, r1, "table")
  <2>1. Longer(r1, r) /\ ParserOK(r)
    <3> HIDE DEF y
    <3> QED BY <1>12, GrowsSizes
  <2> QED BY <1>10, <2>1 DEF Top, HeadIs
<1>16. HeadIs(q, r, "table")
  BY <1>11, <1>15, HeadKept
<1>17. ASSUME NEW n \in 1 .. Len(b.rows), n \in rows, NEW c \in 1 .. Len(b.rows[n])
       PROVE  Goal(r.nodes, y, "row", Range(Cell(i, b, n, c)))
  <2>1. Goal(r1.nodes, y, "row", Range(Cell(i, b, n, c)))
    BY <1>7, <1>10, <1>17
  <2> HIDE DEF y
  <2> QED BY <1>11, <1>15, <2>1, GoalLater
<1>18. ASSUME b.caption # 0 PROVE Holding(r.nodes, y, "caption", Range(Caption(i, b)))
  <2>1. Goal(p1.nodes, y, "caption", Range(Caption(i, b)))
    BY <1>5, <1>18 DEF Goal
  <2> HIDE DEF y
  <2>2. Goal(p2.nodes, y, "caption", Range(Caption(i, b)))
    BY <1>6, <1>8, <2>1, GoalLater
  <2>3. Goal(r.nodes, y, "caption", Range(Caption(i, b)))
    BY <1>10, <1>11, <1>15, <2>2, GoalLater
  <2> QED BY <2>3 DEF Goal
<1> HIDE DEF y
<1>19. Grows(q, RenderTable(i, b, rows), r, i, y)
  BY <1>13, <1>14
<1> QED BY <1>16, <1>17, <1>18, <1>19 DEF y

-----------------------------------------------------------------------------
(* Blocks.                                                                 *)
LEMMA TagKinds ==
  /\ HeadingTag[1] = "h1" /\ HeadingTag[2] = "h2" /\ HeadingTag[3] = "h3"
  /\ HeadingTag[4] = "h4" /\ HeadingTag[5] = "h5" /\ HeadingTag[6] = "h6"
  /\ HeadingTag[7] = "h7" /\ HeadingTag[8] = "h8" /\ HeadingTag[9] = "h9"
  /\ HeadingTags = {"h1", "h2", "h3", "h4", "h5", "h6"}
  /\ HeadingTags \cap BlockTags = {} /\ (HeadingTags \cup BlockTags) \cap Inner = {}
<1>1. /\ HeadingTag[1] = "h1" /\ HeadingTag[2] = "h2" /\ HeadingTag[3] = "h3"
      /\ HeadingTag[4] = "h4" /\ HeadingTag[5] = "h5" /\ HeadingTag[6] = "h6"
      /\ HeadingTag[7] = "h7" /\ HeadingTag[8] = "h8" /\ HeadingTag[9] = "h9"
  BY DEF HeadingTag
<1>2. 1 .. 6 = {1, 2, 3, 4, 5, 6}
  OBVIOUS
<1>3. HeadingTags = {"h1", "h2", "h3", "h4", "h5", "h6"}
  BY <1>1, <1>2 DEF HeadingTags
<1> QED BY <1>1, <1>3 DEF BlockTags, Inner

(* What the file or the directory of a node will tell.                     *)
Tells(nodes, n, c) ==
  \/ nodes[n].tag \in HeadingTags \cup {"p"} /\ Shown(nodes, n, c)
  \/ nodes[n].tag = "ul" /\ \E all : c \in all /\ Holding(nodes, n, "li", all)
  \/ nodes[n].tag = "table" /\ \E all : c \in all /\ Goal(nodes, n, "row", all)
  \/ /\ nodes[n].tag = "table" /\ \E all : Goal(nodes, n, "row", all)
     /\ \E all : c \in all /\ Holding(nodes, n, "caption", all)

BlockLevel(i) == IF kind = "pdf" THEN HeadingLevel(blocks, blocks[i]) ELSE blocks[i].level

BlockTokens(i) ==
  IF kind = "pdf" THEN RenderBlock(i, blocks[i], BlockLevel(i))
  ELSE IF blocks[i].level > 0 THEN Element(HeadingTag[blocks[i].level], Body(i, blocks[i]))
  ELSE IF blocks[i].type = "paragraph" THEN Element("p", Body(i, blocks[i]))
  ELSE RenderTable(i, blocks[i], FilledRows(blocks[i]))

TagFits(i, tag) ==
  /\ tag \in HeadingTags <=> OutlineLevel(i) > 0
  /\ OutlineLevel(i) > 0 => OutlineLevel(i) \in 1 .. 6 /\ tag = HeadingTag[OutlineLevel(i)]
  /\ Placed(i) # {} => tag \in HeadingTags \cup BlockTags

BlockMade(i, q, r) ==
  /\ Grows(q, BlockTokens(i), r, i, Len(q.nodes) + 1)
  /\ \E tag : HeadIs(q, r, tag) /\ TagFits(i, tag)
  /\ OutlineLevel(i) > 0 => \E c : Tells(r.nodes, Len(q.nodes) + 1, c)
  /\ \A c \in Placed(i) : Tells(r.nodes, Len(q.nodes) + 1, c)

LEMMA OneElement ==
  ASSUME NEW q, ParserOK(q), NEW i \in Nat \ {0}, NEW b \in SourceBlock, NEW tag \in Tag, tag \notin VoidTags,
         tag # "caption"
  PROVE  \E r : /\ Grows(q, Element(tag, Body(i, b)), r, i, Len(q.nodes) + 1)
                /\ HeadIs(q, r, tag)
                /\ \A c \in Range(Body(i, b)) : Shown(r.nodes, Len(q.nodes) + 1, c)
<1>1. Body(i, b) \in Texts /\ \A c \in Range(Body(i, b)) : c[1] = i
  BY BodyTyped, BodyOwn
<1>2. PICK o : o = Open(tag)
  OBVIOUS
<1>3. o \in TokenSet /\ o.do = "open" /\ o.text = <<>> /\ o.tag = tag
  BY <1>2, OpenIs
<1>4. PICK head \in Nat : head = Len(q.nodes) + 1 /\ head <= Len(q.nodes) + 1
  <2>1. Len(q.nodes) \in Nat
    BY ParserFields
  <2> QED BY <2>1
<1>5. Element(tag, Body(i, b)) = <<o>> \o Data(Body(i, b)) \o <<Close(o.tag)>>
  BY <1>2, <1>3 DEF Element
<1>6. PICK r : /\ Grows(q, <<o>> \o Data(Body(i, b)) \o <<Close(o.tag)>>, r, i, head)
               /\ Top(q, r, o.tag)
               /\ \A c \in Range(Body(i, b)) : Shown(r.nodes, Len(q.nodes) + 1, c)
  BY <1>1, <1>3, <1>4, ElementGrows
<1>7. HeadIs(q, r, tag)
  BY <1>3, <1>6 DEF Top, HeadIs
<1> QED BY <1>4, <1>5, <1>6, <1>7

(* A block that renders has a text wherever it stands.                     *)
LEMMA HasText ==
  ASSUME NEW i \in Nat \ {0}, NEW b \in SourceBlock, Renders(b), b.caption = 0, b.footnote = 0
  PROVE  \E c : c \in Range(Body(i, b))
<1>1. Caption(1, b) = <<>> /\ Footnote(1, b) = <<>>
  BY DEF Caption, Footnote, Chars
<1>2. Body(1, b) \in Texts /\ BlockText(1, b) = Body(1, b)
  <2>1. Body(1, b) \in Texts
    BY BodyTyped
  <2>2. <<>> \o Body(1, b) \o <<>> = Body(1, b)
    BY <2>1, ConcatEmptySeq DEF Texts
  <2> QED BY <1>1, <2>1, <2>2, Zenon DEF BlockText
<1>3. Body(1, b) # <<>>
  BY <1>2 DEF Renders
<1>4. PICK x : x \in Range(Body(1, b))
  <2>1. 1 \in DOMAIN Body(1, b)
    BY <1>2, <1>3 DEF Texts
  <2> QED BY <2>1 DEF Range
<1>5. 1 \in Nat \ {0}
  OBVIOUS
<1>6. PICK r \in 1 .. Len(b.rows) : x \in Range(Row(1, b, r))
  BY <1>4, <1>5, BodyTyped
<1>7. PICK c \in 1 .. Len(b.rows[r]) : x \in Range(Cell(1, b, r, c))
  BY <1>5, <1>6, RowTyped
<1>8. r \in Nat /\ c \in Nat /\ b.rows[r][c].size \in Nat
  <2>1. Len(b.rows) \in Nat /\ Len(b.rows[r]) \in Nat /\ b.rows[r][c].size \in Nat
    BY BlockFields
  <2> QED BY <2>1
<1>9. b.rows[r][c].size > 0
  BY <1>5, <1>7, <1>8, CharsTyped DEF Cell
<1>10. <<i, r, c>> \in Range(Cell(i, b, r, c))
  BY <1>8, <1>9, CharsTyped DEF Cell
<1>11. <<i, r, c>> \in Range(Row(i, b, r))
  BY <1>10, RowTyped
<1>12. <<i, r, c>> \in Range(Body(i, b))
  BY <1>11, BodyTyped
<1> QED BY <1>12

LEMMA OutlineIs ==
  ASSUME SourceOK, NEW i \in 1 .. Len(blocks), Renders(blocks[i])
  PROVE  /\ BlockLevel(i) \in 0 .. 9
         /\ kind = "pdf" => /\ BlockLevel(i) \in 0 .. 6
                            /\ BlockLevel(i) > 0 => blocks[i].type = "title"
         /\ OutlineLevel(i) = IF BlockLevel(i) \in 1 .. (IF kind = "pdf" THEN 3 ELSE 6)
                              THEN BlockLevel(i) ELSE 0
<1> DEFINE b == blocks[i]
<1>1. b \in SourceBlock /\ b.level \in Nat /\ kind \in {"pdf", "docx"}
  BY SourceBlocks, BlockFields DEF SourceOK
<1>2. kind = "docx" => b.level \in 0 .. 9
  BY DEF SourceOK
<1>3. TitleLevel(b) \in 1 .. 6
  <2>1. CASE b.level = 0
    BY <2>1 DEF TitleLevel
  <2>2. CASE b.level # 0
    <3>1. PICK l \in Nat : l = b.level
      BY <1>1
    <3>2. Min({l, 6}) = IF l <= 6 THEN l ELSE 6
      BY <3>1, OfTwo
    <3>3. Min({l, 6}) \in 1 .. 6
      BY <2>2, <3>1, <3>2
    <3> QED BY <2>2, <3>1, <3>3 DEF TitleLevel
  <2> QED BY <2>1, <2>2
<1>4. HeadingLevel(blocks, b) \in 0 .. 6 /\ (HeadingLevel(blocks, b) > 0 => b.type = "title")
  BY <1>3 DEF HeadingLevel
<1>5. /\ BlockLevel(i) \in 0 .. 9
      /\ kind = "pdf" => BlockLevel(i) \in 0 .. 6 /\ (BlockLevel(i) > 0 => blocks[i].type = "title")
  BY <1>1, <1>2, <1>4 DEF BlockLevel
<1>6. OutlineLevel(i) = IF BlockLevel(i) \in 1 .. (IF kind = "pdf" THEN 3 ELSE 6)
                        THEN BlockLevel(i) ELSE 0
  BY DEF OutlineLevel, BlockLevel
<1> QED BY <1>5, <1>6

(* A heading or a paragraph of either kind of file.                        *)
LEMMA ElementMade ==
  ASSUME SourceOK, NEW i \in 1 .. Len(blocks), Renders(blocks[i]),
         blocks[i].caption = 0, blocks[i].footnote = 0, NEW q, ParserOK(q),
         NEW tag \in Tag, tag \notin VoidTags, tag # "caption",
         BlockTokens(i) = Element(tag, Body(i, blocks[i])),
         TagFits(i, tag), Placed(i) \subseteq Range(Body(i, blocks[i])),
         Placed(i) # {} => tag \in HeadingTags \cup {"p"}
  PROVE  \E r : BlockMade(i, q, r)
<1>1. i \in Nat \ {0} /\ blocks[i] \in SourceBlock
  BY SourceBlocks
<1>2. PICK r : /\ Grows(q, Element(tag, Body(i, blocks[i])), r, i, Len(q.nodes) + 1)
               /\ HeadIs(q, r, tag)
               /\ \A c \in Range(Body(i, blocks[i])) : Shown(r.nodes, Len(q.nodes) + 1, c)
  BY <1>1, OneElement
<1>3. tag \in HeadingTags \cup {"p"} =>
         \A c \in Range(Body(i, blocks[i])) : Tells(r.nodes, Len(q.nodes) + 1, c)
  BY <1>2 DEF Tells, HeadIs
<1>4. \E c : c \in Range(Body(i, blocks[i]))
  BY <1>1, HasText
<1>5. OutlineLevel(i) > 0 => tag \in HeadingTags
  BY DEF TagFits
<1>6. \A c \in Placed(i) : Tells(r.nodes, Len(q.nodes) + 1, c)
  BY <1>3
<1> QED BY <1>2, <1>3, <1>4, <1>5, <1>6 DEF BlockMade

LEMMA TableMade ==
  ASSUME SourceOK, NEW i \in 1 .. Len(blocks), Renders(blocks[i]), NEW q, ParserOK(q), q.stack # <<>>,
         NEW rows, BlockTokens(i) = RenderTable(i, blocks[i], rows), blocks[i].type = "table",
         OutlineLevel(i) = 0, FilledRows(blocks[i]) \subseteq rows,
         blocks[i].caption # 0 => DOMAIN blocks[i].rows \subseteq rows
  PROVE  \E r : BlockMade(i, q, r)
<1> DEFINE b == blocks[i]
           y == Len(q.nodes) + 1
<1>1. i \in Nat \ {0} /\ b \in SourceBlock
  BY SourceBlocks
<1>2. /\ DOMAIN b.rows = 1 .. Len(b.rows) /\ Len(b.rows) \in Nat
      /\ \A n \in 1 .. Len(b.rows) : DOMAIN b.rows[n] = 1 .. Len(b.rows[n]) /\ Len(b.rows[n]) \in Nat
      /\ \A n \in 1 .. Len(b.rows) : \A c \in 1 .. Len(b.rows[n]) : b.rows[n][c].size \in Nat
  BY <1>1, BlockFields
<1>3. PICK r : /\ Grows(q, RenderTable(i, b, rows), r, i, y) /\ HeadIs(q, r, "table")
               /\ \A n \in 1 .. Len(b.rows) : n \in rows => \A c \in 1 .. Len(b.rows[n]) :
                     Goal(r.nodes, y, "row", Range(Cell(i, b, n, c)))
               /\ b.caption # 0 => Holding(r.nodes, y, "caption", Range(Caption(i, b)))
  BY <1>1, TableGrows
<1>4. r.nodes[y].tag = "table"
  BY <1>3 DEF HeadIs
<1>5. TagFits(i, "table")
  <2>1. "table" \in BlockTags /\ "table" \notin HeadingTags
    BY TagKinds DEF BlockTags
  <2> QED BY <2>1 DEF TagFits
<1>6. ASSUME NEW x \in Range(Body(i, b)) PROVE Tells(r.nodes, y, x)
  <2>1. PICK n \in 1 .. Len(b.rows) : x \in Range(Row(i, b, n))
    BY <1>1, BodyTyped
  <2>2. PICK c \in 1 .. Len(b.rows[n]) : x \in Range(Cell(i, b, n, c))
    BY <1>1, <2>1, RowTyped
  <2>3. b.rows[n][c].size > 0
    <3>1. n \in Nat /\ c \in Nat /\ b.rows[n][c].size \in Nat
      BY <1>2
    <3> QED BY <1>1, <2>2, <3>1, CharsTyped DEF Cell
  <2>4. n \in rows
    BY <1>2, <2>3 DEF FilledRows
  <2>5. Goal(r.nodes, y, "row", Range(Cell(i, b, n, c)))
    BY <1>3, <2>4
  <2> QED BY <1>4, <2>2, <2>5 DEF Tells
<1>7. ASSUME NEW x \in Range(Caption(i, b)), NEW m \in DOMAIN b.rows, b.rows[m] # <<>>
      PROVE  Tells(r.nodes, y, x)
  <2>1. b.caption # 0
    <3>1. SUFFICES ASSUME b.caption = 0 PROVE FALSE
      OBVIOUS
    <3>2. Caption(i, b) = <<>>
      BY <3>1 DEF Caption, Chars
    <3> QED BY <3>2 DEF Range
  <2>2. Holding(r.nodes, y, "caption", Range(Caption(i, b))) /\ m \in rows
    BY <1>3, <2>1
  <2>3. m \in 1 .. Len(b.rows) /\ 1 \in 1 .. Len(b.rows[m])
    <3>1. b.rows[m] \in Seq(TextCell)
      BY <1>1, <1>2, BlockFields
    <3> QED BY <1>2, <1>7, <3>1
  <2>4. Goal(r.nodes, y, "row", Range(Cell(i, b, m, 1)))
    BY <1>3, <2>2, <2>3
  <2> QED BY <1>4, <2>2, <2>4 DEF Tells
<1>8. \A x \in Placed(i) : Tells(r.nodes, y, x)
  <2> SUFFICES ASSUME NEW x \in Placed(i) PROVE Tells(r.nodes, y, x)
    OBVIOUS
  <2>1. \/ x \in Range(Body(i, b))
        \/ x \in Range(Caption(i, b)) /\ \E m \in DOMAIN b.rows : b.rows[m] # <<>>
    BY DEF Placed
  <2> QED BY <1>6, <1>7, <2>1
<1> QED BY <1>3, <1>5, <1>8 DEF BlockMade

(* Every block makes its node, whatever its type.                          *)
LEMMA PlainFits ==
  ASSUME NEW i, OutlineLevel(i) = 0
  PROVE  TagFits(i, "p") /\ TagFits(i, "ul")
<1>1. {"p", "ul"} \subseteq BlockTags /\ "p" \notin HeadingTags /\ "ul" \notin HeadingTags
  BY TagKinds DEF BlockTags
<1> QED BY <1>1 DEF TagFits

LEMMA HeadingFits ==
  ASSUME NEW i, OutlineLevel(i) \in 1 .. 6
  PROVE  TagFits(i, HeadingTag[OutlineLevel(i)]) /\ HeadingTag[OutlineLevel(i)] \in HeadingTags
<1>1. HeadingTag[OutlineLevel(i)] \in HeadingTags /\ OutlineLevel(i) > 0
  BY DEF HeadingTags
<1> QED BY <1>1 DEF TagFits

LEMMA PlacedIn ==
  ASSUME NEW i, blocks[i].type # "table"
  PROVE  Placed(i) \subseteq Range(Body(i, blocks[i]))
  BY DEF Placed

LEMMA NamesOfTags ==
  /\ \A l \in 1 .. 9 : /\ HeadingTag[l] \in Tag /\ HeadingTag[l] \notin VoidTags
                       /\ HeadingTag[l] # "caption"
  /\ {"p", "div"} \subseteq Tag /\ {"p", "div"} \cap VoidTags = {}
<1>1. \A l \in 1 .. 9 : l \in {1, 2, 3, 4, 5, 6, 7, 8, 9}
  OBVIOUS
<1>2. \A l \in 1 .. 9 : HeadingTag[l] # "caption"
  BY <1>1, TagKinds
<1> QED BY <1>2, TagsIn, HeadingTagTyped DEF VoidTags

LEMMA PdfMade ==
  ASSUME SourceOK, kind = "pdf", NEW i \in 1 .. Len(blocks), Renders(blocks[i]),
         NEW q, ParserOK(q), q.stack # <<>>
  PROVE  \E r : BlockMade(i, q, r)
<1> DEFINE b == blocks[i]
           l == BlockLevel(i)
<1>1. /\ i \in Nat \ {0} /\ b \in SourceBlock /\ b.type \in BlockType
      /\ b.type \notin {"page_number", "image"}
      /\ b.type # "table" => b.caption = 0 /\ b.footnote = 0
  BY SourceBlocks, BlockFields DEF SourceOK, Renders
<1>2. /\ l \in 0 .. 6 /\ (l > 0 => b.type = "title")
      /\ OutlineLevel(i) = IF l \in 1 .. 3 THEN l ELSE 0
  BY OutlineIs
<1>3. BlockTokens(i) = RenderBlock(i, b, l)
  BY DEF BlockTokens
<1> HIDE DEF l
<1>4. CASE b.type = "title"
  <2>1. BlockTokens(i) = Element(IF l \in 1 .. 3 THEN HeadingTag[l] ELSE "p", Body(i, b))
    BY <1>3, <1>4 DEF RenderBlock
  <2>2. b.caption = 0 /\ b.footnote = 0 /\ Placed(i) \subseteq Range(Body(i, b))
    BY <1>1, <1>4, PlacedIn
  <2>3. CASE l \in 1 .. 3
    <3>1. OutlineLevel(i) = l /\ l \in 1 .. 6 /\ l \in 1 .. 9
      BY <1>2, <2>3
    <3>2. BlockTokens(i) = Element(HeadingTag[l], Body(i, b))
      BY <2>1, <2>3
    <3>3. TagFits(i, HeadingTag[l]) /\ HeadingTag[l] \in HeadingTags
      BY <3>1, HeadingFits
    <3> QED BY <2>2, <3>1, <3>2, <3>3, NamesOfTags, ElementMade
  <2>4. CASE l \notin 1 .. 3
    <3>1. OutlineLevel(i) = 0
      BY <1>2, <2>4
    <3>2. BlockTokens(i) = Element("p", Body(i, b))
      BY <2>1, <2>4
    <3>3. "p" \in HeadingTags \cup {"p"} /\ "p" # "caption"
      OBVIOUS
    <3> QED BY <2>2, <3>1, <3>2, <3>3, PlainFits, NamesOfTags, ElementMade
  <2> QED BY <2>3, <2>4
<1>5. b.type # "title" => OutlineLevel(i) = 0
  BY <1>2
<1>6. CASE b.type = "paragraph"
  <2>1. BlockTokens(i) = Element("p", Body(i, b))
    BY <1>3, <1>6 DEF RenderBlock
  <2>2. b.caption = 0 /\ b.footnote = 0 /\ Placed(i) \subseteq Range(Body(i, b)) /\ OutlineLevel(i) = 0
    BY <1>1, <1>5, <1>6, PlacedIn
  <2>3. "p" \in HeadingTags \cup {"p"} /\ "p" # "caption"
    OBVIOUS
  <2> QED BY <2>1, <2>2, <2>3, PlainFits, NamesOfTags, ElementMade
<1>7. CASE b.type = "list"
  <2>1. BlockTokens(i) = RenderListItems(i, b)
    BY <1>3, <1>7 DEF RenderBlock
  <2>2. Placed(i) \subseteq Range(Body(i, b)) /\ OutlineLevel(i) = 0
    BY <1>5, <1>7, PlacedIn
  <2> DEFINE y == Len(q.nodes) + 1
  <2>3. PICK r : /\ Grows(q, RenderListItems(i, b), r, i, y) /\ Top(q, r, "ul")
                 /\ \A k \in 1 .. Len(b.rows) : Holding(r.nodes, y, "li", Range(Row(i, b, k)))
    BY <1>1, ListGrows
  <2>4. HeadIs(q, r, "ul") /\ TagFits(i, "ul") /\ r.nodes[y].tag = "ul"
    BY <2>2, <2>3, PlainFits DEF Top, HeadIs
  <2>5. ASSUME NEW c \in Placed(i) PROVE Tells(r.nodes, y, c)
    <3>1. PICK k \in 1 .. Len(b.rows) : c \in Range(Row(i, b, k))
      BY <1>1, <2>2, BodyTyped
    <3>2. Holding(r.nodes, y, "li", Range(Row(i, b, k)))
      BY <2>3
    <3> QED BY <2>4, <3>1, <3>2 DEF Tells
  <2> QED BY <2>1, <2>2, <2>3, <2>4, <2>5 DEF BlockMade
<1>8. CASE b.type = "table"
  <2>1. BlockTokens(i) = RenderTable(i, b, DOMAIN b.rows)
    BY <1>3, <1>8 DEF RenderBlock
  <2>2. FilledRows(b) \subseteq DOMAIN b.rows /\ OutlineLevel(i) = 0
    BY <1>5, <1>8 DEF FilledRows
  <2> QED BY <1>8, <2>1, <2>2, TableMade
<1>9. CASE b.type = "page_footnote"
  <2>1. BlockTokens(i) = Element("div", Body(i, b))
    BY <1>3, <1>9 DEF RenderBlock
  <2>2. b.caption = 0 /\ b.footnote = 0 /\ Placed(i) = {} /\ OutlineLevel(i) = 0
    BY <1>1, <1>5, <1>9 DEF Placed
  <2>3. "div" # "caption" /\ "div" \notin HeadingTags
    BY TagKinds
  <2>4. TagFits(i, "div")
    BY <2>2, <2>3 DEF TagFits
  <2> QED BY <2>1, <2>2, <2>3, <2>4, NamesOfTags, ElementMade
<1> QED BY <1>1, <1>4, <1>6, <1>7, <1>8, <1>9 DEF BlockType

LEMMA DocxMade ==
  ASSUME SourceOK, kind = "docx", NEW i \in 1 .. Len(blocks), Renders(blocks[i]),
         NEW q, ParserOK(q), q.stack # <<>>
  PROVE  \E r : BlockMade(i, q, r)
<1> DEFINE b == blocks[i]
           l == blocks[i].level
<1>1. /\ i \in Nat \ {0} /\ b \in SourceBlock /\ b.type \in {"paragraph", "table"} /\ l \in 0 .. 9
      /\ b.caption = 0 /\ b.footnote = 0 /\ (b.type = "table" => l = 0) /\ kind # "pdf"
  BY SourceBlocks DEF SourceOK
<1>2. OutlineLevel(i) = IF l \in 1 .. 6 THEN l ELSE 0
  BY <1>1, OutlineIs DEF BlockLevel
<1>3. BlockTokens(i) =
        IF l > 0 THEN Element(HeadingTag[l], Body(i, b))
        ELSE IF b.type = "paragraph" THEN Element("p", Body(i, b))
        ELSE RenderTable(i, b, FilledRows(b))
  BY <1>1 DEF BlockTokens
<1>4. CASE l \in 1 .. 9
  <2>1. BlockTokens(i) = Element(HeadingTag[l], Body(i, b))
    BY <1>3, <1>4
  <2>2. Placed(i) \subseteq Range(Body(i, b))
    BY <1>1, <1>4, PlacedIn
  <2>3. CASE l \in 1 .. 6
    <3>1. OutlineLevel(i) = l
      BY <1>2, <2>3
    <3>2. TagFits(i, HeadingTag[l]) /\ HeadingTag[l] \in HeadingTags
      BY <2>3, <3>1, HeadingFits
    <3> QED BY <1>1, <1>4, <2>1, <2>2, <3>2, NamesOfTags, ElementMade
  <2>4. CASE l \notin 1 .. 6
    <3>1. l \in {7, 8, 9} /\ OutlineLevel(i) = 0 /\ l > 6
      BY <1>2, <1>4, <2>4
    <3>2. Placed(i) = {}
      BY <1>1, <3>1 DEF Placed
    <3>3. HeadingTag[l] \notin HeadingTags
      BY <3>1, TagKinds
    <3>4. TagFits(i, HeadingTag[l])
      BY <3>1, <3>2, <3>3 DEF TagFits
    <3> QED BY <1>1, <1>4, <2>1, <2>2, <3>2, <3>4, NamesOfTags, ElementMade
  <2> QED BY <2>3, <2>4
<1>5. CASE l = 0 /\ b.type = "paragraph"
  <2>1. BlockTokens(i) = Element("p", Body(i, b)) /\ OutlineLevel(i) = 0
    BY <1>2, <1>3, <1>5
  <2>2. Placed(i) \subseteq Range(Body(i, b))
    BY <1>5, PlacedIn
  <2>3. "p" \in HeadingTags \cup {"p"} /\ "p" # "caption"
    OBVIOUS
  <2> QED BY <1>1, <2>1, <2>2, <2>3, PlainFits, NamesOfTags, ElementMade
<1>6. CASE b.type = "table"
  <2>1. l = 0 /\ ~(l > 0) /\ b.type # "paragraph"
    BY <1>1, <1>6
  <2>2. BlockTokens(i) = RenderTable(i, b, FilledRows(b)) /\ OutlineLevel(i) = 0
    BY <1>2, <1>3, <2>1
  <2> QED BY <1>1, <1>6, <2>2, TableMade
<1> QED BY <1>1, <1>4, <1>5, <1>6

LEMMA BlockGrows ==
  ASSUME SourceOK, NEW i \in 1 .. Len(blocks), Renders(blocks[i]), NEW q, ParserOK(q), q.stack # <<>>
  PROVE  \E r : BlockMade(i, q, r)
  BY PdfMade, DocxMade DEF SourceOK

-----------------------------------------------------------------------------
(* The tree that is parsed, after n blocks: src gives the block of each    *)
(* node, and a block has at most one node that makes a directory or files. *)
Structure == {"html", "head", "meta", "title", "body", "main", "section"}

SrcOK(nodes, src, n) ==
  /\ src \in Seq(Nat) /\ Len(src) = Len(nodes)
  /\ \A d \in 1 .. Len(nodes) : src[d] <= n
  /\ \A d, e \in 1 .. Len(nodes) : d <= e => src[d] <= src[e]

AncestorOK(nodes, src, d, a) ==
  /\ a \in 1 .. Len(nodes)
  /\ nodes[a].tag \in Structure \/ src[a] = src[d]
  /\ IsBlockNode(nodes[d]) => nodes[a].tag \in Structure
  /\ nodes[a].tag = "caption" => \A c \in Range(nodes[d].text) : c = <<src[d], 0, 0>>

BlockNodeOK(nodes, src, d) ==
  /\ src[d] \in 1 .. Len(blocks) /\ Renders(blocks[src[d]])
  /\ nodes[d].tag \in HeadingTags <=> OutlineLevel(src[d]) > 0
  /\ OutlineLevel(src[d]) > 0 =>
        /\ OutlineLevel(src[d]) \in 1 .. 6 /\ nodes[d].tag = HeadingTag[OutlineLevel(src[d])]
        /\ \E c : Tells(nodes, d, c)

NodeOK(nodes, src, d) ==
  /\ \A c \in Range(nodes[d].text) : c[1] = src[d]
  /\ \A a \in Range(nodes[d].within) : AncestorOK(nodes, src, d, a)
  /\ IsBlockNode(nodes[d]) => BlockNodeOK(nodes, src, d)

Alone(nodes, src) ==
  \A d, e \in 1 .. Len(nodes) :
     IsBlockNode(nodes[d]) /\ IsBlockNode(nodes[e]) /\ src[d] = src[e] => d = e

Complete(nodes, src, n) ==
  \A i \in 1 .. n : Renders(blocks[i]) =>
     /\ OutlineLevel(i) > 0 => \E d \in 1 .. Len(nodes) : src[d] = i /\ IsBlockNode(nodes[d])
     /\ \A c \in Placed(i) : \E d \in 1 .. Len(nodes) :
           src[d] = i /\ IsBlockNode(nodes[d]) /\ Tells(nodes, d, c)

Traced(nodes, src, n) ==
  /\ SrcOK(nodes, src, n) /\ \A d \in 1 .. Len(nodes) : NodeOK(nodes, src, d)
  /\ Alone(nodes, src)

Tree(nodes, n) == \E src : Traced(nodes, src, n) /\ Complete(nodes, src, n)

Structural(q) == \A k \in 1 .. Len(q.stack) : q.nodes[q.stack[k]].tag \in Structure

LEMMA StructureTags ==
  Structure \cap (HeadingTags \cup BlockTags \cup {"caption"}) = {} /\ Structure \subseteq Tag
  BY TagKinds DEF Structure, BlockTags, Tag

LEMMA TellsLater ==
  ASSUME NEW q, NEW r, ParserOK(q), ParserOK(r), Longer(q, r), NEW d \in 1 .. Len(q.nodes), NEW c,
         Tells(q.nodes, d, c)
  PROVE  Tells(r.nodes, d, c)
<1>1. r.nodes[d].tag = q.nodes[d].tag
  BY DEF Longer
<1>2. /\ Shown(q.nodes, d, c) => Shown(r.nodes, d, c)
      /\ \A all : Goal(q.nodes, d, "row", all) => Goal(r.nodes, d, "row", all)
      /\ \A all : Goal(q.nodes, d, "li", all) => Goal(r.nodes, d, "li", all)
      /\ \A all : Goal(q.nodes, d, "caption", all) => Goal(r.nodes, d, "caption", all)
  BY GoalLater
<1>3. /\ \A all : Holding(q.nodes, d, "li", all) => Holding(r.nodes, d, "li", all)
      /\ \A all : Holding(q.nodes, d, "caption", all) => Holding(r.nodes, d, "caption", all)
  BY <1>2 DEF Goal
<1> QED BY <1>1, <1>2, <1>3 DEF Tells

(* Nodes that are there stay as they are, whatever comes after them.       *)
Keeps(src, more, n) == \A d \in 1 .. n : more[d] = src[d]

LEMMA OldNodes ==
  ASSUME NEW q, NEW r, ParserOK(q), ParserOK(r), Longer(q, r), NEW src, NEW n, Traced(q.nodes, src, n),
         NEW more, Keeps(src, more, Len(q.nodes)), NEW d \in 1 .. Len(q.nodes)
  PROVE  NodeOK(r.nodes, more, d)
<1>1. /\ r.nodes[d] = q.nodes[d] /\ more[d] = src[d]
      /\ NodeOK(q.nodes, src, d) /\ Len(q.nodes) \in Nat /\ Len(r.nodes) \in Nat
      /\ Len(q.nodes) <= Len(r.nodes)
  BY ParserFields DEF Longer, Keeps, Traced
<1>2. ASSUME NEW a \in Range(r.nodes[d].within) PROVE AncestorOK(r.nodes, more, d, a)
  <2>1. AncestorOK(q.nodes, src, d, a)
    BY <1>1, <1>2 DEF NodeOK
  <2>2. a \in 1 .. Len(q.nodes)
    BY <2>1 DEF AncestorOK
  <2>3. r.nodes[a] = q.nodes[a] /\ more[a] = src[a] /\ a \in 1 .. Len(r.nodes)
    BY <1>1, <2>2 DEF Longer, Keeps
  <2> QED BY <1>1, <2>1, <2>3 DEF AncestorOK
<1>3. ASSUME IsBlockNode(r.nodes[d]) PROVE BlockNodeOK(r.nodes, more, d)
  <2>1. BlockNodeOK(q.nodes, src, d)
    BY <1>1, <1>3 DEF NodeOK
  <2>2. (\E c : Tells(q.nodes, d, c)) => \E c : Tells(r.nodes, d, c)
    BY TellsLater
  <2> QED BY <1>1, <2>1, <2>2 DEF BlockNodeOK
<1>4. \A c \in Range(r.nodes[d].text) : c[1] = more[d]
  BY <1>1 DEF NodeOK
<1> QED BY <1>2, <1>3, <1>4 DEF NodeOK

LEMMA OldBlocks ==
  ASSUME NEW q, NEW r, ParserOK(q), ParserOK(r), Longer(q, r), NEW src, NEW n, Complete(q.nodes, src, n),
         NEW more, Keeps(src, more, Len(q.nodes))
  PROVE  Complete(r.nodes, more, n)
<1>1. /\ \A d \in 1 .. Len(q.nodes) : /\ d \in 1 .. Len(r.nodes) /\ r.nodes[d] = q.nodes[d]
                                      /\ more[d] = src[d]
  BY ParserFields DEF Longer, Keeps
<1> SUFFICES ASSUME NEW i \in 1 .. n, Renders(blocks[i])
             PROVE  /\ OutlineLevel(i) > 0 => \E d \in 1 .. Len(r.nodes) : more[d] = i /\ IsBlockNode(r.nodes[d])
                    /\ \A c \in Placed(i) : \E d \in 1 .. Len(r.nodes) :
                          more[d] = i /\ IsBlockNode(r.nodes[d]) /\ Tells(r.nodes, d, c)
  BY DEF Complete
<1>2. OutlineLevel(i) > 0 => \E d \in 1 .. Len(r.nodes) : more[d] = i /\ IsBlockNode(r.nodes[d])
  BY <1>1 DEF Complete
<1>3. ASSUME NEW c \in Placed(i)
      PROVE  \E d \in 1 .. Len(r.nodes) : more[d] = i /\ IsBlockNode(r.nodes[d]) /\ Tells(r.nodes, d, c)
  <2>1. PICK d \in 1 .. Len(q.nodes) : src[d] = i /\ IsBlockNode(q.nodes[d]) /\ Tells(q.nodes, d, c)
    BY DEF Complete
  <2>2. Tells(r.nodes, d, c)
    BY <2>1, TellsLater
  <2> QED BY <1>1, <2>1, <2>2
<1> QED BY <1>2, <1>3

SrcGrown(nodes, src, more, new, i) ==
  /\ SrcOK(more, new, i) /\ Keeps(src, new, Len(nodes))
  /\ \A d \in (Len(nodes) + 1) .. Len(more) : new[d] = i

LEMMA SrcGrows ==
  ASSUME NEW nodes, NEW more, Len(nodes) \in Nat, Len(more) \in Nat, Len(nodes) <= Len(more),
         NEW src, NEW n \in Nat, SrcOK(nodes, src, n), NEW i \in Nat, n <= i
  PROVE  \E new : SrcGrown(nodes, src, more, new, i)
<1>1. PICK new : new = [d \in 1 .. Len(more) |-> IF d <= Len(nodes) THEN src[d] ELSE i]
  OBVIOUS
<1>2. /\ src \in Seq(Nat) /\ Len(src) = Len(nodes) /\ \A d \in 1 .. Len(nodes) : src[d] <= n
      /\ \A d, e \in 1 .. Len(nodes) : d <= e => src[d] <= src[e]
  BY DEF SrcOK
<1>3. /\ \A d \in 1 .. Len(nodes) : new[d] = src[d]
      /\ \A d \in (Len(nodes) + 1) .. Len(more) : new[d] = i
  BY <1>1
<1>4. \A d \in 1 .. Len(more) : d \in 1 .. Len(nodes) \/ d \in (Len(nodes) + 1) .. Len(more)
  OBVIOUS
<1>5. \A d \in 1 .. Len(nodes) : src[d] \in Nat
  BY <1>2
<1>6. \A d \in 1 .. Len(more) : new[d] \in Nat /\ new[d] <= i
  BY <1>2, <1>3, <1>4, <1>5
<1>7. new \in Seq(Nat) /\ Len(new) = Len(more)
  <2>1. new = [d \in 1 .. Len(more) |-> new[d]]
    BY <1>1
  <2> QED BY <1>6, <2>1, SeqBy
<1>8. ASSUME NEW d \in 1 .. Len(more), NEW e \in 1 .. Len(more), d <= e PROVE new[d] <= new[e]
  <2>1. CASE e \in 1 .. Len(nodes)
    <3>1. d \in 1 .. Len(nodes)
      BY <1>8, <2>1
    <3> QED BY <1>2, <1>3, <1>8, <2>1, <3>1
  <2>2. CASE e \in (Len(nodes) + 1) .. Len(more)
    BY <1>3, <1>6, <2>2
  <2> QED BY <1>4, <2>1, <2>2
<1>9. SrcOK(more, new, i)
  BY <1>6, <1>7, <1>8 DEF SrcOK
<1> QED BY <1>3, <1>9 DEF Keeps, SrcGrown

(* A node of the page or of a section, which belongs to no block.          *)
LEMMA TreeNode ==
  ASSUME NEW q, ParserOK(q), Structural(q), NEW n \in Nat, Tree(q.nodes, n), NEW r, ParserOK(r),
         NEW node, Made(q.nodes, r.nodes, node),
         node.tag \in Structure, node.text = <<>>, node.within = q.stack
  PROVE  Tree(r.nodes, n) /\ Longer(q, r)
<1> DEFINE m == Len(q.nodes)
<1>1. /\ m \in Nat /\ Len(r.nodes) = m + 1 /\ r.nodes[m + 1] = node
      /\ \A d \in 1 .. m : r.nodes[d] = q.nodes[d]
  BY ParserFields DEF Made
<1>2. Longer(q, r)
  BY <1>1 DEF Longer
<1>3. PICK src : Traced(q.nodes, src, n) /\ Complete(q.nodes, src, n)
  BY DEF Tree
<1>4. PICK new : /\ SrcOK(r.nodes, new, n) /\ Keeps(src, new, m)
                 /\ \A d \in (m + 1) .. Len(r.nodes) : new[d] = n
  <2>1. /\ Len(q.nodes) \in Nat /\ Len(r.nodes) \in Nat /\ Len(q.nodes) <= Len(r.nodes) /\ n <= n
        /\ SrcOK(q.nodes, src, n)
    BY <1>1, <1>3 DEF Traced
  <2>2. \E new : SrcGrown(q.nodes, src, r.nodes, new, n)
    BY <2>1, SrcGrows
  <2> QED BY <2>2 DEF SrcGrown
<1>5. Complete(r.nodes, new, n) /\ \A d \in 1 .. m : NodeOK(r.nodes, new, d)
  BY <1>2, <1>3, <1>4, OldNodes, OldBlocks
<1>6. ~IsBlockNode(r.nodes[m + 1])
  BY <1>1, StructureTags DEF IsBlockNode
<1>7. NodeOK(r.nodes, new, m + 1)
  <2>1. Range(r.nodes[m + 1].text) = {}
    BY <1>1 DEF Range
  <2>2. ASSUME NEW a \in Range(r.nodes[m + 1].within)
        PROVE  a \in 1 .. Len(r.nodes) /\ r.nodes[a].tag \in Structure
    <3>1. DOMAIN q.stack = 1 .. Len(q.stack)
      BY ParserFields
    <3>2. PICK k \in 1 .. Len(q.stack) : a = q.stack[k]
      BY <1>1, <2>2, <3>1 DEF Range
    <3>3. a \in 1 .. m
      BY <3>2 DEF ParserOK
    <3>4. q.nodes[a].tag \in Structure
      BY <3>2 DEF Structural
    <3>5. r.nodes[a] = q.nodes[a]
      BY <1>1, <3>3
    <3>6. a \in 1 .. Len(r.nodes)
      BY <1>1, <3>3
    <3> QED BY <3>4, <3>5, <3>6
  <2> QED BY <1>6, <2>1, <2>2 DEF NodeOK, AncestorOK
<1>8. Alone(r.nodes, new)
  <2>1. \A d \in 1 .. Len(r.nodes) : d \in 1 .. m \/ d = m + 1
    BY <1>1
  <2>2. Alone(q.nodes, src)
    BY <1>3 DEF Traced
  <2> QED BY <1>1, <1>4, <1>6, <2>1, <2>2 DEF Alone, Keeps
<1>9. \A d \in 1 .. Len(r.nodes) : NodeOK(r.nodes, new, d)
  <2>1. \A d \in 1 .. Len(r.nodes) : d \in 1 .. m \/ d = m + 1
    BY <1>1
  <2> QED BY <1>5, <1>7, <2>1
<1> QED BY <1>2, <1>4, <1>5, <1>8, <1>9 DEF Tree, Traced

(* What a block adds to the tree.                                          *)
BlockHead(q, r, n, i, tag) ==
  tag \in HeadingTags \cup BlockTags =>
     /\ n < i /\ i \in 1 .. Len(blocks) /\ Renders(blocks[i]) /\ TagFits(i, tag)
     /\ OutlineLevel(i) > 0 => \E c : Tells(r.nodes, Len(q.nodes) + 1, c)

GrowsHere(q, tokens, r, i) == Grows(q, tokens, r, i, Len(q.nodes) + 1)
AddedSrc(r, src, new, i, m) ==
  Traced(r.nodes, new, i) /\ Keeps(src, new, m) /\ new[m + 1] = i

LEMMA TreeGrows ==
  ASSUME NEW q, Structural(q), NEW n \in Nat, NEW src, Traced(q.nodes, src, n),
         NEW r, NEW tokens, NEW i \in Nat, n <= i, GrowsHere(q, tokens, r, i),
         NEW tag, HeadIs(q, r, tag),
         BlockHead(q, r, n, i, tag)
  PROVE  \E new : AddedSrc(r, src, new, i, Len(q.nodes))
<1> DEFINE m == Len(q.nodes)
<1>0. Grows(q, tokens, r, i, m + 1)
  BY DEF GrowsHere
<1>1. /\ ParserOK(q) /\ ParserOK(r) /\ Longer(q, r) /\ m \in Nat /\ Len(r.nodes) \in Nat
      /\ m <= Len(r.nodes)
  <2>1. ParserOK(q) /\ ParserOK(r) /\ Longer(q, r)
    BY <1>0 DEF Grows
  <2> QED BY <1>0, <2>1, GrowsSizes
<1>2. \A d \in (m + 1) .. Len(r.nodes) : Own(r.nodes, d, i, m + 1, q.stack, m)
  BY <1>0 DEF Grows, NewNodes
<1>3. /\ m + 1 \in 1 .. Len(r.nodes) /\ r.nodes[m + 1].tag = tag
      /\ r.nodes[m + 1].within = q.stack
  BY DEF HeadIs
<1>4. PICK new : /\ SrcOK(r.nodes, new, i) /\ Keeps(src, new, m)
                 /\ \A d \in (m + 1) .. Len(r.nodes) : new[d] = i
  <2>1. /\ SrcOK(q.nodes, src, n) /\ Len(q.nodes) \in Nat /\ Len(q.nodes) <= Len(r.nodes)
        /\ Len(r.nodes) \in Nat
    BY <1>1 DEF Traced
  <2>2. \E new : SrcGrown(q.nodes, src, r.nodes, new, i)
    BY <2>1, SrcGrows
  <2> QED BY <2>2 DEF SrcGrown
<1>5. \A d \in 1 .. m : NodeOK(r.nodes, new, d)
  BY <1>1, <1>4, OldNodes
<1>6. \A k \in 1 .. Len(q.stack) :
         q.stack[k] \in 1 .. m /\ q.stack[k] \in 1 .. Len(r.nodes) /\ r.nodes[q.stack[k]].tag \in Structure
  <2>1. \A k \in 1 .. Len(q.stack) : q.stack[k] \in 1 .. m
    BY <1>1 DEF ParserOK
  <2>2. \A d \in 1 .. m : d \in 1 .. Len(r.nodes) /\ r.nodes[d] = q.nodes[d]
    BY <1>1 DEF Longer
  <2> QED BY <2>1, <2>2 DEF Structural
<1>7. \A d \in (m + 1) .. Len(r.nodes) : d # m + 1 => ~IsBlockNode(r.nodes[d])
  <2>1. \A d \in (m + 1) .. Len(r.nodes) : d # m + 1 => r.nodes[d].tag \in Inner
    BY <1>2 DEF Own
  <2> QED BY <2>1, TagKinds DEF IsBlockNode
<1>8. ASSUME NEW d \in (m + 1) .. Len(r.nodes) PROVE NodeOK(r.nodes, new, d)
  <2>1. d \in 1 .. Len(r.nodes) /\ new[d] = i /\ Own(r.nodes, d, i, m + 1, q.stack, m)
    BY <1>1, <1>2, <1>4
  <2> DEFINE w == r.nodes[d].within
  <2>2. w \in Seq(Nat) /\ Len(w) \in Nat /\ DOMAIN w = 1 .. Len(w) /\ Len(q.stack) \in Nat
    BY <1>1, <2>1, ParserFields, NodeFields
  <2>3. ASSUME NEW a \in Range(w) PROVE AncestorOK(r.nodes, new, d, a)
    <3>1. PICK k \in 1 .. Len(w) : a = w[k]
      BY <2>2 DEF Range
    <3>2. Stands(w, q.stack, m, d)
      BY <2>1 DEF Own
    <3>3. CASE k <= Len(q.stack)
      <4>1. k \in 1 .. Len(q.stack) /\ a = q.stack[k]
        <5>1. w[k] = q.stack[k]
          BY <3>2, <3>3 DEF Stands
        <5>2. k \in 1 .. Len(q.stack)
          BY <2>2, <3>3
        <5> QED BY <3>1, <5>1, <5>2
      <4>2. a \in 1 .. Len(r.nodes) /\ r.nodes[a].tag \in Structure
        BY <1>6, <4>1
      <4> QED BY <4>2, StructureTags DEF AncestorOK
    <3>4. CASE ~(k <= Len(q.stack))
      <4>1. a \in (m + 1) .. (d - 1)
        BY <3>1, <3>2, <3>4 DEF Stands
      <4>2. a \in (m + 1) .. Len(r.nodes) /\ a \in 1 .. Len(r.nodes) /\ d # m + 1
        BY <1>1, <4>1
      <4>3. new[a] = i
        BY <1>4, <4>2
      <4>4. ~IsBlockNode(r.nodes[d])
        BY <1>7, <4>2
      <4>5. k \in (Len(q.stack) + 1) .. Len(r.nodes[d].within)
        BY <2>2, <3>1, <3>4
      <4>6. r.nodes[a].tag = "caption" => \A c \in Range(r.nodes[d].text) : c = <<i, 0, 0>>
        BY <2>1, <3>1, <4>5 DEF Own, InCaption
      <4> QED BY <2>1, <4>2, <4>3, <4>4, <4>6 DEF AncestorOK
    <3> QED BY <3>3, <3>4
  <2>4. \A c \in Range(r.nodes[d].text) : c[1] = new[d]
    BY <2>1 DEF Own
  <2>5. ASSUME IsBlockNode(r.nodes[d]) PROVE BlockNodeOK(r.nodes, new, d)
    <3>1. d = m + 1
      BY <1>7, <2>5
    <3>2. tag \in HeadingTags \cup BlockTags
      BY <1>3, <2>5, <3>1 DEF IsBlockNode
    <3>3. /\ i \in 1 .. Len(blocks) /\ Renders(blocks[i]) /\ TagFits(i, tag)
          /\ OutlineLevel(i) > 0 => \E c : Tells(r.nodes, m + 1, c)
      BY <3>2 DEF BlockHead
    <3> QED BY <1>3, <2>1, <3>1, <3>3 DEF BlockNodeOK, TagFits
  <2> QED BY <2>3, <2>4, <2>5 DEF NodeOK
<1>9. \A d \in 1 .. Len(r.nodes) : d \in 1 .. m \/ d \in (m + 1) .. Len(r.nodes)
  BY <1>1
<1>10. Alone(r.nodes, new)
  <2> SUFFICES ASSUME NEW d \in 1 .. Len(r.nodes), NEW e \in 1 .. Len(r.nodes),
                      IsBlockNode(r.nodes[d]), IsBlockNode(r.nodes[e]), new[d] = new[e]
               PROVE  d = e
    BY DEF Alone
  <2>1. \A x \in (m + 1) .. Len(r.nodes) : IsBlockNode(r.nodes[x]) => x = m + 1 /\ n < i /\ new[x] = i
    BY <1>3, <1>4, <1>7 DEF IsBlockNode, BlockHead
  <2>2. \A x \in 1 .. m : new[x] = src[x] /\ r.nodes[x] = q.nodes[x] /\ src[x] <= n /\ src[x] \in Nat
    <3>1. SrcOK(q.nodes, src, n)
      BY DEF Traced
    <3>2. \A x \in 1 .. m : src[x] <= n /\ src[x] \in Nat
      BY <3>1 DEF SrcOK
    <3>3. \A x \in 1 .. m : new[x] = src[x] /\ r.nodes[x] = q.nodes[x]
      BY <1>1, <1>4 DEF Keeps, Longer
    <3> QED BY <3>2, <3>3
  <2>3. CASE d \in 1 .. m /\ e \in 1 .. m
    BY <2>2, <2>3 DEF Traced, Alone
  <2>4. CASE d \in 1 .. m /\ e \in (m + 1) .. Len(r.nodes)
    BY <2>1, <2>2, <2>4
  <2>5. CASE d \in (m + 1) .. Len(r.nodes) /\ e \in 1 .. m
    BY <2>1, <2>2, <2>5
  <2>6. CASE d \in (m + 1) .. Len(r.nodes) /\ e \in (m + 1) .. Len(r.nodes)
    BY <2>1, <2>6
  <2> QED BY <1>9, <2>3, <2>4, <2>5, <2>6
<1>11. \A d \in 1 .. Len(r.nodes) : NodeOK(r.nodes, new, d)
  BY <1>5, <1>8, <1>9
<1>12. new[m + 1] = i
  BY <1>1, <1>3, <1>4
<1> QED BY <1>4, <1>10, <1>11, <1>12 DEF Traced, AddedSrc

LEMMA BlockTree ==
  ASSUME SourceOK, NEW q, Structural(q), NEW n \in Nat, n + 1 \in 1 .. Len(blocks), Tree(q.nodes, n),
         NEW r, Renders(blocks[n + 1]), BlockMade(n + 1, q, r)
  PROVE  Tree(r.nodes, n + 1)
<1>1. PICK src : Traced(q.nodes, src, n) /\ Complete(q.nodes, src, n)
  BY DEF Tree
<1>2. PICK i \in Nat : i = n + 1 /\ n < i /\ n <= i
  OBVIOUS
<1>3. Grows(q, BlockTokens(i), r, i, Len(q.nodes) + 1)
  BY <1>2 DEF BlockMade
<1>4. PICK tag : HeadIs(q, r, tag) /\ TagFits(i, tag)
  BY <1>2 DEF BlockMade
<1>5. /\ OutlineLevel(i) > 0 => \E c : Tells(r.nodes, Len(q.nodes) + 1, c)
      /\ \A c \in Placed(i) : Tells(r.nodes, Len(q.nodes) + 1, c)
  BY <1>2 DEF BlockMade
<1>6. PICK new : /\ Traced(r.nodes, new, i) /\ Keeps(src, new, Len(q.nodes))
                 /\ new[Len(q.nodes) + 1] = i
  <2>1. i \in 1 .. Len(blocks) /\ Renders(blocks[i])
    BY <1>2
  <2>2. BlockHead(q, r, n, i, tag)
    BY <1>2, <1>4, <1>5, <2>1 DEF BlockHead
  <2>3. PICK tokens : GrowsHere(q, tokens, r, i)
    BY <1>3 DEF GrowsHere
  <2>4. \E new : AddedSrc(r, src, new, i, Len(q.nodes))
    BY <1>1, <1>2, <1>4, <2>2, <2>3, TreeGrows
  <2> QED BY <2>4 DEF AddedSrc
<1>7. ParserOK(q) /\ ParserOK(r) /\ Longer(q, r)
  BY <1>3 DEF Grows
<1>8. Complete(r.nodes, new, n)
  BY <1>1, <1>6, <1>7, OldBlocks
<1>9. /\ Len(q.nodes) + 1 \in 1 .. Len(r.nodes) /\ r.nodes[Len(q.nodes) + 1].tag = tag
  BY <1>4 DEF HeadIs
<1>10. OutlineLevel(i) > 0 \/ Placed(i) # {} => IsBlockNode(r.nodes[Len(q.nodes) + 1])
  BY <1>4, <1>9 DEF TagFits, IsBlockNode
<1>11. Complete(r.nodes, new, i)
  <2> SUFFICES ASSUME NEW j \in 1 .. i, Renders(blocks[j])
               PROVE  /\ OutlineLevel(j) > 0 => \E d \in 1 .. Len(r.nodes) : new[d] = j /\ IsBlockNode(r.nodes[d])
                      /\ \A c \in Placed(j) : \E d \in 1 .. Len(r.nodes) :
                            new[d] = j /\ IsBlockNode(r.nodes[d]) /\ Tells(r.nodes, d, c)
    BY DEF Complete
  <2>1. CASE j \in 1 .. n
    BY <1>8, <2>1 DEF Complete
  <2>2. CASE j = i
    BY <1>5, <1>6, <1>9, <1>10, <2>2
  <2> QED BY <1>2, <2>1, <2>2
<1> QED BY <1>2, <1>6, <1>11 DEF Tree

(* A block that does not render adds nothing.                              *)
LEMMA SkippedTree ==
  ASSUME NEW nodes, NEW n \in Nat, Tree(nodes, n), ~Renders(blocks[n + 1])
  PROVE  Tree(nodes, n + 1)
<1>1. PICK src : Traced(nodes, src, n) /\ Complete(nodes, src, n)
  BY DEF Tree
<1>2. \A j \in 1 .. (n + 1) : j \in 1 .. n \/ j = n + 1
  OBVIOUS
<1>3. Complete(nodes, src, n + 1)
  BY <1>1, <1>2 DEF Complete
<1>4. SrcOK(nodes, src, n + 1)
  <2>1. SrcOK(nodes, src, n)
    BY <1>1 DEF Traced
  <2>2. \A d \in 1 .. Len(nodes) : src[d] \in Nat
    BY <2>1 DEF SrcOK
  <2>3. \A d \in 1 .. Len(nodes) : src[d] <= n + 1
    BY <2>1, <2>2 DEF SrcOK
  <2> QED BY <2>1, <2>3 DEF SrcOK
<1> QED BY <1>1, <1>3, <1>4 DEF Tree, Traced

-----------------------------------------------------------------------------
(* The page and its sections: the elements that are open have these tags.  *)
Structured == Seq(Structure)

StackTags(q, tags) ==
  Len(q.stack) = Len(tags) /\ \A k \in 1 .. Len(tags) : q.nodes[q.stack[k]].tag = tags[k]

InTree(q, n, tags) == ParserOK(q) /\ StackTags(q, tags) /\ Tree(q.nodes, n)

LEMMA StackStructural ==
  ASSUME NEW q, NEW n, NEW tags \in Structured, InTree(q, n, tags)
  PROVE  Structural(q)
<1>1. Len(tags) \in Nat /\ \A k \in 1 .. Len(tags) : tags[k] \in Structure
  BY DEF Structured
<1> QED BY <1>1 DEF InTree, StackTags, Structural

LEMMA TagsKept ==
  ASSUME NEW q, NEW r, ParserOK(q), Longer(q, r), NEW tags \in Structured, StackTags(q, tags),
         r.stack = q.stack
  PROVE  StackTags(r, tags)
<1>1. \A k \in 1 .. Len(tags) : q.stack[k] \in 1 .. Len(q.nodes)
  BY DEF ParserOK, StackTags
<1> QED BY <1>1 DEF StackTags, Longer

LEMMA OpenTree ==
  ASSUME NEW q, NEW n \in Nat, NEW tags \in Structured, InTree(q, n, tags),
         NEW tag \in Structure, tag \notin VoidTags, NEW more, more = Append(tags, tag),
         NEW o, o = Open(tag), NEW r, r = Feed(q, o)
  PROVE  more \in Structured /\ InTree(r, n, more) /\ Parses(q, <<o>>, r)
<1>1. ParserOK(q) /\ StackTags(q, tags) /\ Tree(q.nodes, n) /\ Structural(q)
  BY StackStructural DEF InTree
<1>2. tag \in Tag
  BY StructureTags
<1>3. o \in TokenSet /\ o.do = "open" /\ o.text = <<>> /\ o.tag = tag
  BY <1>2, OpenIs
<1>4. PICK node : node = Node(q, o)
  OBVIOUS
<1>5. node.tag = tag /\ node.text = <<>> /\ node.within = q.stack
  BY <1>3, <1>4, NodeIs
<1>6. /\ ParserOK(r) /\ Made(q.nodes, r.nodes, node)
      /\ Len(r.stack) = Len(q.stack) + 1 /\ r.stack[Len(q.stack) + 1] = Len(q.nodes) + 1
      /\ \A k \in 1 .. Len(q.stack) : r.stack[k] = q.stack[k]
  BY <1>1, <1>3, <1>4, OpenedIs
<1>7. Tree(r.nodes, n) /\ Longer(q, r)
  BY <1>1, <1>5, <1>6, TreeNode
<1>8. /\ more \in Structured /\ Len(more) = Len(tags) + 1 /\ more[Len(tags) + 1] = tag
      /\ \A k \in 1 .. Len(tags) : more[k] = tags[k] /\ Len(tags) \in Nat
  BY AppendProperties DEF Structured
<1>9. StackTags(r, more)
  <2>1. Len(r.stack) = Len(more) /\ Len(q.stack) = Len(tags) /\ Len(tags) \in Nat
    BY <1>1, <1>6, <1>8 DEF StackTags, Structured
  <2>2. r.nodes[Len(q.nodes) + 1].tag = tag
    BY <1>5, <1>6 DEF Made
  <2>3. ASSUME NEW k \in 1 .. Len(tags) PROVE r.nodes[r.stack[k]].tag = more[k]
    <3>1. k \in 1 .. Len(q.stack) /\ q.stack[k] \in 1 .. Len(q.nodes)
      BY <1>1, <2>1 DEF ParserOK
    <3> QED BY <1>1, <1>6, <1>7, <1>8, <3>1 DEF Longer, StackTags
  <2>4. \A k \in 1 .. Len(more) : k \in 1 .. Len(tags) \/ k = Len(tags) + 1
    BY <1>8, <2>1
  <2> QED BY <1>6, <1>8, <2>1, <2>2, <2>3, <2>4 DEF StackTags
<1>10. Parses(q, <<o>>, r)
  <2>1. Strictly(q, o)
    BY <1>3 DEF Strictly
  <2> QED BY <1>3, <2>1, ParsesOne
<1> QED BY <1>6, <1>7, <1>8, <1>9, <1>10 DEF InTree

LEMMA CloseTree ==
  ASSUME NEW q, NEW n \in Nat, NEW tags \in Structured, NEW tag \in Structure,
         NEW more, more = Append(tags, tag), InTree(q, n, more),
         NEW o, o = Close(tag), NEW r, r = Feed(q, o)
  PROVE  InTree(r, n, tags) /\ r.nodes = q.nodes /\ Parses(q, <<o>>, r)
<1>1. ParserOK(q) /\ StackTags(q, more) /\ Tree(q.nodes, n)
  BY DEF InTree
<1>2. /\ Len(more) = Len(tags) + 1 /\ more[Len(tags) + 1] = tag /\ Len(tags) \in Nat
      /\ \A k \in 1 .. Len(tags) : more[k] = tags[k]
  BY AppendProperties DEF Structured
<1>3. tag \in Tag
  BY StructureTags
<1>4. o \in TokenSet /\ o.do = "close" /\ o.tag = tag
  BY <1>3, TokenTyped DEF Close, Token
<1>5. Len(q.stack) = Len(tags) + 1 /\ q.nodes[q.stack[Len(tags) + 1]].tag = tag
  BY <1>1, <1>2 DEF StackTags
<1>6. Strictly(q, o)
  <2>1. q.stack \in Seq(Nat) /\ Len(q.stack) \in 1 .. Len(q.stack)
    BY <1>1, <1>2, <1>5, ParserFields
  <2>2. q.stack # <<>>
    BY <1>2, <1>5, <2>1
  <2>3. Last(q.stack) = q.stack[Len(q.stack)]
    BY <2>1, <2>2, LastOf
  <2> QED BY <1>4, <1>5, <2>2, <2>3 DEF Strictly
<1>7. /\ ParserOK(r) /\ r.nodes = q.nodes /\ Len(r.stack) = Len(q.stack) - 1
      /\ \A k \in 1 .. Len(q.stack) - 1 : r.stack[k] = q.stack[k]
  BY <1>1, <1>4, <1>6, ClosedIs
<1>8. StackTags(r, tags)
  <2>1. Len(r.stack) = Len(tags) /\ \A k \in 1 .. Len(tags) : k \in 1 .. Len(more) /\ k \in 1 .. Len(q.stack) - 1
    BY <1>2, <1>5, <1>7
  <2> QED BY <1>1, <1>2, <1>7, <2>1 DEF StackTags
<1>9. Parses(q, <<o>>, r)
  BY <1>4, <1>6, ParsesOne
<1> QED BY <1>1, <1>7, <1>8, <1>9 DEF InTree

-----------------------------------------------------------------------------
(* The shell.                                                              *)
LEMMA ThreeTokens ==
  ASSUME NEW a \in TokenSet, NEW b \in TokenSet, NEW c \in TokenSet,
         NEW q, NEW r, NEW s, NEW t, Parses(q, <<a>>, r), Parses(r, <<b>>, s), Parses(s, <<c>>, t)
  PROVE  Parses(q, <<a, b, c>>, t) /\ <<a, b, c>> \in Tokenized
<1>1. PICK x \in Tokenized : x = <<a>>
  BY FewElements DEF Tokenized
<1>2. PICK y \in Tokenized : y = <<b>>
  BY FewElements DEF Tokenized
<1>3. PICK z \in Tokenized : z = <<c>>
  BY FewElements DEF Tokenized
<1>4. Parses(q, x, r) /\ Parses(r, y, s) /\ Parses(s, z, t)
  BY <1>1, <1>2, <1>3
<1>5. x \o y \in Tokenized /\ Parses(q, x \o y, s)
  BY <1>4, ParsesOn, JoinTokens
<1>6. Parses(q, (x \o y) \o z, t) /\ (x \o y) \o z \in Tokenized
  BY <1>4, <1>5, ParsesOn, JoinTokens
<1>7. (x \o y) \o z = <<a, b, c>>
  <2>1. PICK two \in Tokenized : two = x \o y
    BY <1>5
  <2>2. Len(two) = 2 /\ two[1] = a /\ two[2] = b
    BY <1>1, <1>2, <2>1
  <2>3. PICK all \in Tokenized : all = two \o z
    BY <1>6, <2>1
  <2>4. Len(z) = 1 /\ z[1] = c
    BY <1>3
  <2>5. Len(all) = 3 /\ all[1] = a /\ all[2] = b /\ all[3] = c
    <3>1. /\ Len(all) = Len(two) + Len(z)
          /\ \A k \in 1 .. Len(two) + Len(z) :
                all[k] = IF k <= Len(two) THEN two[k] ELSE z[k - Len(two)]
      BY <2>3, ConcatProperties DEF Tokenized
    <3> QED BY <2>2, <2>4, <3>1
  <2>6. PICK abc \in Tokenized : abc = <<a, b, c>>
    BY FewElements DEF Tokenized
  <2>7. Len(abc) = 3 /\ abc[1] = a /\ abc[2] = b /\ abc[3] = c
    BY <2>6
  <2>8. \A k \in 1 .. 3 : k = 1 \/ k = 2 \/ k = 3
    OBVIOUS
  <2>9. all \in Seq(TokenSet) /\ abc \in Seq(TokenSet)
    BY DEF Tokenized
  <2>10. \A k \in 1 .. Len(all) : all[k] = abc[k]
    BY <2>5, <2>7, <2>8
  <2>11. all = abc
    BY <2>5, <2>7, <2>9, <2>10, SeqEqual
  <2> QED BY <2>1, <2>3, <2>6, <2>11
<1> QED BY <1>6, <1>7

LEMMA VoidTree ==
  ASSUME NEW q, NEW n \in Nat, NEW tags \in Structured, InTree(q, n, tags),
         NEW o, o = Open("meta"), NEW r, r = Feed(q, o)
  PROVE  InTree(r, n, tags) /\ Parses(q, <<o>>, r)
<1>1. ParserOK(q) /\ StackTags(q, tags) /\ Tree(q.nodes, n) /\ Structural(q)
  BY StackStructural DEF InTree
<1>2. "meta" \in Tag /\ "meta" \in VoidTags /\ "meta" \in Structure
  BY DEF Tag, VoidTags, Structure
<1>3. o \in TokenSet /\ o.do = "open" /\ o.text = <<>> /\ o.tag = "meta"
  BY <1>2, OpenIs
<1>4. PICK node : node = Node(q, o)
  OBVIOUS
<1>5. node.tag = "meta" /\ node.text = <<>> /\ node.within = q.stack
  BY <1>3, <1>4, NodeIs
<1>6. ParserOK(r) /\ Made(q.nodes, r.nodes, node) /\ r.stack = q.stack
  BY <1>1, <1>2, <1>3, <1>4, VoidIs
<1>7. Tree(r.nodes, n) /\ Longer(q, r)
  BY <1>1, <1>2, <1>5, <1>6, TreeNode
<1>8. Parses(q, <<o>>, r)
  <2>1. Strictly(q, o)
    BY <1>3 DEF Strictly
  <2> QED BY <1>3, <2>1, ParsesOne
<1> QED BY <1>1, <1>6, <1>7, <1>8, TagsKept DEF InTree

LEMMA TitleTree ==
  ASSUME NEW q, NEW tags \in Structured, InTree(q, 0, tags)
  PROVE  \E r : Parses(q, Element("title", <<ShellTitle>>), r) /\ InTree(r, 0, tags)
<1>1. ParserOK(q) /\ StackTags(q, tags) /\ Tree(q.nodes, 0) /\ Structural(q)
  BY StackStructural DEF InTree
<1>2. PICK text : text = <<ShellTitle>>
  OBVIOUS
<1>3. text \in Texts /\ \A c \in Range(text) : c[1] = 0
  <2>1. text \in Texts
    BY <1>2, VisibleIs, FewElements DEF Texts
  <2>2. DOMAIN text = {1} /\ text[1] = ShellTitle
    BY <1>2
  <2>3. ShellTitle[1] = 0
    BY DEF ShellTitle
  <2> QED BY <2>1, <2>2, <2>3 DEF Range
<1>4. PICK tag : tag = "title"
  OBVIOUS
<1>5. tag \in Tag /\ tag \notin VoidTags /\ tag # "caption" /\ tag \notin HeadingTags \cup BlockTags
  BY <1>4, TagKinds DEF Tag, VoidTags, BlockTags
<1>6. PICK o : o = Open(tag)
  OBVIOUS
<1>7. o \in TokenSet /\ o.do = "open" /\ o.text = <<>> /\ o.tag = tag
  BY <1>5, <1>6, OpenIs
<1>8. PICK i \in Nat : i = 0
  OBVIOUS
<1>9. PICK head \in Nat : head = Len(q.nodes) + 1 /\ head <= Len(q.nodes) + 1
  <2>1. Len(q.nodes) \in Nat
    BY <1>1, ParserFields
  <2> QED BY <2>1
<1>10. \A c \in Range(text) : c[1] = i
  BY <1>3, <1>8
<1>11. PICK tokens : tokens = <<o>> \o Data(text) \o <<Close(o.tag)>>
  OBVIOUS
<1>12. PICK r : Grows(q, tokens, r, i, head) /\ Top(q, r, o.tag)
  BY <1>1, <1>3, <1>5, <1>7, <1>9, <1>10, <1>11, ElementGrows
<1>13. tokens = Element("title", <<ShellTitle>>)
  BY <1>2, <1>4, <1>6, <1>7, <1>11 DEF Element
<1>14. GrowsHere(q, tokens, r, i) /\ HeadIs(q, r, tag)
  BY <1>7, <1>9, <1>12 DEF GrowsHere, Top, HeadIs
<1>15. BlockHead(q, r, i, i, tag)
  BY <1>5 DEF BlockHead
<1>16. PICK src : Traced(q.nodes, src, i)
  BY <1>1, <1>8 DEF Tree
<1>17. i <= i
  OBVIOUS
<1>18. PICK new : AddedSrc(r, src, new, i, Len(q.nodes))
  BY <1>1, <1>14, <1>15, <1>16, <1>17, TreeGrows
<1>19. Tree(r.nodes, 0)
  <2>1. Traced(r.nodes, new, 0)
    BY <1>8, <1>18 DEF AddedSrc
  <2>2. Complete(r.nodes, new, 0)
    BY DEF Complete
  <2> QED BY <2>1, <2>2 DEF Tree
<1>20. ParserOK(r) /\ Longer(q, r) /\ r.stack = q.stack /\ Parses(q, tokens, r)
  BY <1>12 DEF Grows
<1>21. StackTags(r, tags)
  BY <1>1, <1>20, TagsKept
<1> QED BY <1>13, <1>19, <1>20, <1>21 DEF InTree

PageTags == Append(Append(Append(<<>>, "html"), "body"), "main")

LEMMA ShellTree ==
  \E q : Parses(NewParser, Shell, q) /\ InTree(q, 0, PageTags)
<1>1. <<>> \in Structured /\ InTree(NewParser, 0, <<>>)
  <2>1. NewParser.nodes = <<>> /\ NewParser.stack = <<>> /\ Len(<<>>) = 0 /\ <<>> \in Seq(Nat)
    BY DEF NewParser
  <2>2. ParserOK(NewParser)
    BY DEF ParserOK, NewParser
  <2>3. SrcOK(<<>>, <<>>, 0) /\ Alone(<<>>, <<>>) /\ Complete(<<>>, <<>>, 0)
    BY <2>1 DEF SrcOK, Alone, Complete
  <2>4. \A d \in 1 .. Len(<<>>) : NodeOK(<<>>, <<>>, d)
    BY <2>1
  <2>5. Tree(<<>>, 0)
    BY <2>3, <2>4 DEF Tree, Traced
  <2>6. StackTags(NewParser, <<>>)
    BY <2>1 DEF StackTags
  <2> QED BY <2>1, <2>2, <2>5, <2>6 DEF InTree, Structured
<1>2. /\ {"html", "head", "body", "main"} \subseteq Structure
      /\ "html" \notin VoidTags /\ "head" \notin VoidTags /\ "body" \notin VoidTags /\ "main" \notin VoidTags
  BY DEF Structure, VoidTags
<1>3. /\ Open("html") \in TokenSet /\ Open("head") \in TokenSet /\ Open("meta") \in TokenSet
      /\ Close("head") \in TokenSet /\ Open("body") \in TokenSet /\ Open("main") \in TokenSet
  <2>1. {"html", "head", "meta", "body", "main"} \subseteq Tag
    BY DEF Tag
  <2> QED BY <2>1, TokenTyped
<1>4. PICK t1 \in Structured : t1 = Append(<<>>, "html")
  <2>1. Append(<<>>, "html") \in Structured
    BY <1>1, <1>2, AppendProperties DEF Structured
  <2> QED BY <2>1
<1>5. PICK q1 : Parses(NewParser, <<Open("html")>>, q1) /\ InTree(q1, 0, t1)
  BY <1>1, <1>2, <1>4, OpenTree
<1>6. PICK t2 \in Structured : t2 = Append(t1, "head")
  <2>1. Append(t1, "head") \in Structured
    BY <1>2, AppendProperties DEF Structured
  <2> QED BY <2>1
<1>7. PICK q2 : Parses(q1, <<Open("head")>>, q2) /\ InTree(q2, 0, t2)
  BY <1>2, <1>5, <1>6, OpenTree
<1>8. PICK q3 : Parses(q2, <<Open("meta")>>, q3) /\ InTree(q3, 0, t2)
  BY <1>7, VoidTree
<1>9. PICK q4 : Parses(q3, Element("title", <<ShellTitle>>), q4) /\ InTree(q4, 0, t2)
  BY <1>8, TitleTree
<1>10. PICK q5 : Parses(q4, <<Close("head")>>, q5) /\ InTree(q5, 0, t1)
  BY <1>2, <1>6, <1>9, CloseTree
<1>11. PICK t3 \in Structured : t3 = Append(t1, "body")
  <2>1. Append(t1, "body") \in Structured
    BY <1>2, AppendProperties DEF Structured
  <2> QED BY <2>1
<1>12. PICK q6 : Parses(q5, <<Open("body")>>, q6) /\ InTree(q6, 0, t3)
  BY <1>2, <1>10, <1>11, OpenTree
<1>13. PICK t4 \in Structured : t4 = Append(t3, "main")
  <2>1. Append(t3, "main") \in Structured
    BY <1>2, AppendProperties DEF Structured
  <2> QED BY <2>1
<1>14. PICK q7 : Parses(q6, <<Open("main")>>, q7) /\ InTree(q7, 0, t4)
  BY <1>2, <1>12, <1>13, OpenTree
<1>15. t4 = PageTags
  BY <1>4, <1>11, <1>13 DEF PageTags
<1>16. PICK a \in Tokenized : a = <<Open("html"), Open("head"), Open("meta")>> /\ Parses(NewParser, a, q3)
  BY <1>3, <1>5, <1>7, <1>8, ThreeTokens
<1>17. PICK c \in Tokenized : c = <<Close("head"), Open("body"), Open("main")>> /\ Parses(q4, c, q7)
  BY <1>3, <1>10, <1>12, <1>14, ThreeTokens
<1>18. PICK b \in Tokenized : b = Element("title", <<ShellTitle>>)
  <2>1. <<ShellTitle>> \in Texts
    BY VisibleIs, FewElements DEF Texts
  <2>2. "title" \in Tag
    BY DEF Tag
  <2> QED BY <2>1, <2>2, ElementTyped
<1>19. a \o b \in Tokenized /\ Parses(NewParser, a \o b, q4)
  BY <1>9, <1>16, <1>18, ParsesOn, JoinTokens
<1>20. Parses(NewParser, a \o b \o c, q7)
  BY <1>17, <1>19, ParsesOn
<1>21. Shell = a \o b \o c
  BY <1>16, <1>17, <1>18 DEF Shell
<1> QED BY <1>14, <1>15, <1>20, <1>21

-----------------------------------------------------------------------------
(* So many sections are open in the page.                                  *)
SectionTags(depth) == PageTags \o [k \in 1 .. depth |-> "section"]
Good(q, n, depth) == InTree(q, n, SectionTags(depth))

LEMMA PageTagsIs == PageTags \in Structured /\ Len(PageTags) = 3
<1>1. "html" \in Structure /\ "body" \in Structure /\ "main" \in Structure /\ <<>> \in Structured
  BY DEF Structure, Structured
<1>2. PICK a \in Structured : a = Append(<<>>, "html") /\ Len(a) = 1
  <2>1. Append(<<>>, "html") \in Structured /\ Len(Append(<<>>, "html")) = 1
    BY <1>1, AppendProperties DEF Structured
  <2> QED BY <2>1
<1>3. PICK b \in Structured : b = Append(a, "body") /\ Len(b) = 2
  <2>1. Append(a, "body") \in Structured /\ Len(Append(a, "body")) = 2
    BY <1>1, <1>2, AppendProperties DEF Structured
  <2> QED BY <2>1
<1>4. Append(b, "main") \in Structured /\ Len(Append(b, "main")) = 3
  BY <1>1, <1>3, AppendProperties DEF Structured
<1> QED BY <1>2, <1>3, <1>4 DEF PageTags

LEMMA SectionTagsIs ==
  /\ SectionTags(0) = PageTags
  /\ \A d \in Nat : SectionTags(d) \in Structured /\ Len(SectionTags(d)) = d + 3
  /\ \A d \in Nat : SectionTags(d + 1) = Append(SectionTags(d), "section")
<1>1. "section" \in Structure
  BY DEF Structure
<1>2. PICK page \in Structured : page = PageTags /\ Len(page) = 3
  BY PageTagsIs
<1> DEFINE S(d) == [k \in 1 .. d |-> "section"]
<1>3. \A d \in Nat : S(d) \in Structured /\ Len(S(d)) = d /\ \A k \in 1 .. d : S(d)[k] = "section"
  <2> SUFFICES ASSUME NEW d \in Nat
               PROVE  S(d) \in Structured /\ Len(S(d)) = d /\ \A k \in 1 .. d : S(d)[k] = "section"
    OBVIOUS
  <2>1. PICK s : s = S(d)
    OBVIOUS
  <2>2. s = [k \in 1 .. d |-> s[k]] /\ \A k \in 1 .. d : s[k] = "section"
    BY <2>1
  <2>3. \A k \in 1 .. d : s[k] \in Structure
    BY <1>1, <2>2
  <2>4. s \in Seq(Structure) /\ Len(s) = d
    BY <2>2, <2>3, SeqBy
  <2> QED BY <2>1, <2>2, <2>4 DEF Structured
<1>4. \A d \in Nat : SectionTags(d) = page \o S(d)
  BY <1>2 DEF SectionTags
<1> HIDE DEF S
<1>5. ASSUME NEW d \in Nat
      PROVE  /\ SectionTags(d) \in Structured /\ Len(SectionTags(d)) = d + 3
             /\ \A k \in 1 .. d + 3 : SectionTags(d)[k] = IF k <= 3 THEN page[k] ELSE "section"
  <2>1. PICK s \in Structured : s = S(d)
    BY <1>3
  <2>2. PICK t : t = page \o s
    OBVIOUS
  <2>3. SectionTags(d) = t
    BY <1>4, <2>1, <2>2
  <2>4. /\ t \in Structured /\ Len(t) = 3 + Len(s)
        /\ \A k \in 1 .. 3 + Len(s) : t[k] = IF k <= 3 THEN page[k] ELSE s[k - 3]
    <3>1. page \in Seq(Structure) /\ s \in Seq(Structure)
      BY <2>1 DEF Structured
    <3>2. /\ t \in Seq(Structure) /\ Len(t) = Len(page) + Len(s)
          /\ \A k \in 1 .. Len(page) + Len(s) :
                t[k] = IF k <= Len(page) THEN page[k] ELSE s[k - Len(page)]
      BY <2>2, <3>1, ConcatProperties
    <3> QED BY <1>2, <3>2 DEF Structured
  <2>5. Len(s) = d /\ \A k \in 1 .. d : s[k] = "section"
    BY <1>3, <2>1
  <2>6. ASSUME NEW k \in 1 .. d + 3 PROVE t[k] = IF k <= 3 THEN page[k] ELSE "section"
    <3>1. ~(k <= 3) => k - 3 \in 1 .. d
      OBVIOUS
    <3> QED BY <2>4, <2>5, <3>1
  <2> QED BY <2>3, <2>4, <2>5, <2>6
<1>6. SectionTags(0) = PageTags
  <2>1. SectionTags(0) \in Seq(Structure) /\ Len(SectionTags(0)) = 3
        /\ \A k \in 1 .. 3 : SectionTags(0)[k] = page[k]
    <3>1. PICK z \in Nat : z = 0
      OBVIOUS
    <3>2. /\ SectionTags(z) \in Seq(Structure) /\ Len(SectionTags(z)) = z + 3
          /\ \A k \in 1 .. z + 3 : SectionTags(z)[k] = IF k <= 3 THEN page[k] ELSE "section"
      BY <1>5 DEF Structured
    <3>3. z + 3 = 3
      BY <3>1
    <3> QED BY <3>1, <3>2, <3>3
  <2>2. PICK t \in Seq(Structure) : t = SectionTags(0)
    BY <2>1
  <2>3. page \in Seq(Structure)
    BY DEF Structured
  <2> QED BY <1>2, <2>1, <2>2, <2>3, SeqEqual
<1>7. ASSUME NEW d \in Nat PROVE SectionTags(d + 1) = Append(SectionTags(d), "section")
  <2>1. PICK s \in Seq(Structure) : s = SectionTags(d)
    BY <1>5 DEF Structured
  <2>2. PICK t \in Seq(Structure) : t = SectionTags(d + 1)
    BY <1>5 DEF Structured
  <2>3. PICK u \in Seq(Structure) : u = Append(s, "section")
    BY <1>1, AppendProperties
  <2>4. Len(s) = d + 3 /\ \A k \in 1 .. d + 3 : s[k] = IF k <= 3 THEN page[k] ELSE "section"
    BY <1>5, <2>1
  <2>5. Len(t) = d + 4 /\ \A k \in 1 .. d + 4 : t[k] = IF k <= 3 THEN page[k] ELSE "section"
    <3>1. PICK e \in Nat : e = d + 1
      OBVIOUS
    <3>2. Len(t) = e + 3 /\ \A k \in 1 .. e + 3 : t[k] = IF k <= 3 THEN page[k] ELSE "section"
      BY <1>5, <2>2, <3>1
    <3> QED BY <3>1, <3>2
  <2>6. Len(u) = d + 4 /\ u[d + 4] = "section" /\ \A k \in 1 .. d + 3 : u[k] = s[k]
    BY <1>1, <2>3, <2>4, AppendProperties
  <2>7. \A k \in 1 .. d + 4 : k \in 1 .. d + 3 \/ (k = d + 4 /\ ~(k <= 3))
    OBVIOUS
  <2>8. \A k \in 1 .. Len(t) : t[k] = u[k]
    BY <2>4, <2>5, <2>6, <2>7
  <2>9. t = u
    BY <2>5, <2>6, <2>8, SeqEqual
  <2> QED BY <2>1, <2>2, <2>3, <2>9
<1> QED BY <1>5, <1>6, <1>7

(* Tokens that lead from one such state to another.                        *)
Leads(q, tokens, r, n, depth) == tokens \in Tokenized /\ Parses(q, tokens, r) /\ Good(r, n, depth)

LEMMA LeadsOn ==
  ASSUME NEW q, NEW a, NEW r, NEW n, NEW d, Leads(q, a, r, n, d),
         NEW b, NEW s, NEW m, NEW e, Leads(r, b, s, m, e)
  PROVE  Leads(q, a \o b, s, m, e)
<1>1. a \in Tokenized /\ b \in Tokenized /\ Parses(q, a, r) /\ Parses(r, b, s) /\ Good(s, m, e)
  BY DEF Leads
<1>2. PICK ab : ab = a \o b
  OBVIOUS
<1>3. ab \in Tokenized /\ Parses(q, ab, s)
  BY <1>1, <1>2, ParsesOn, JoinTokens
<1>4. Leads(q, ab, s, m, e)
  BY <1>1, <1>3 DEF Leads
<1> QED BY <1>2, <1>4

LEMMA LeadsNowhere ==
  ASSUME NEW q, NEW n, NEW d, Good(q, n, d)
  PROVE  Leads(q, <<>>, q, n, d)
<1>1. <<>> \in Tokenized
  BY DEF Tokenized
<1> QED BY <1>1, ParsesNothing, Zenon DEF Leads

LEMMA OpenSection ==
  ASSUME NEW q, NEW n \in Nat, NEW d \in Nat, Good(q, n, d), NEW e, e = d + 1
  PROVE  \E r : Leads(q, <<Open("section")>>, r, n, e)
<1>1. "section" \in Structure /\ "section" \notin VoidTags
  BY DEF Structure, VoidTags
<1>2. PICK tags \in Structured : tags = SectionTags(d) /\ InTree(q, n, tags)
  BY SectionTagsIs DEF Good
<1>3. PICK more : more = Append(tags, "section") /\ more = SectionTags(e)
  BY <1>2, SectionTagsIs
<1>4. PICK o : o = Open("section")
  OBVIOUS
<1>5. PICK r : r = Feed(q, o)
  OBVIOUS
<1>6. InTree(r, n, more) /\ Parses(q, <<o>>, r)
  BY <1>1, <1>2, <1>3, <1>4, <1>5, OpenTree
<1>7. <<o>> \in Tokenized
  <2>1. "section" \in Tag
    BY <1>1, StructureTags
  <2> QED BY <1>4, <2>1, TokenTyped, FewElements DEF Tokenized
<1> QED BY <1>3, <1>4, <1>6, <1>7 DEF Leads, Good

LEMMA CloseOne ==
  ASSUME NEW q, NEW n \in Nat, NEW d \in Nat, NEW e, e = d + 1, Good(q, n, e)
  PROVE  \E r : Leads(q, <<Close("section")>>, r, n, d)
<1>1. "section" \in Structure /\ "section" \notin VoidTags
  BY DEF Structure, VoidTags
<1>2. PICK tags \in Structured : tags = SectionTags(d)
  BY SectionTagsIs
<1>3. PICK more : more = Append(tags, "section") /\ more = SectionTags(e)
  BY <1>2, SectionTagsIs
<1>31. InTree(q, n, more)
  BY <1>3 DEF Good
<1>4. PICK o : o = Close("section")
  OBVIOUS
<1>5. PICK r : r = Feed(q, o)
  OBVIOUS
<1>6. InTree(r, n, tags) /\ Parses(q, <<o>>, r)
  BY <1>1, <1>2, <1>3, <1>31, <1>4, <1>5, CloseTree
<1>7. <<o>> \in Tokenized
  <2>1. "section" \in Tag
    BY <1>1, StructureTags
  <2> QED BY <1>4, <2>1, TokenTyped, FewElements DEF Tokenized
<1> QED BY <1>2, <1>4, <1>6, <1>7 DEF Leads, Good

LEMMA CloseMore ==
  /\ CloseSections(0) = <<>>
  /\ \A k \in Nat : CloseSections(k + 1) = CloseSections(k) \o <<Close("section")>>
<1>1. CloseSections(0) = <<>>
  BY DEF CloseSections
<1>2. ASSUME NEW k \in Nat PROVE CloseSections(k + 1) = CloseSections(k) \o <<Close("section")>>
  <2>1. PICK c : c = Close("section")
    OBVIOUS
  <2>2. PICK j \in Nat : j = k + 1
    OBVIOUS
  <2>3. PICK s \in Seq(TokenSet) : s = CloseSections(k) /\ Len(s) = k
    BY CloseTyped DEF Tokenized
  <2>4. PICK t \in Seq(TokenSet) : t = CloseSections(j) /\ Len(t) = j
    BY CloseTyped DEF Tokenized
  <2>5. (\A i \in 1 .. k : s[i] = c) /\ \A i \in 1 .. j : t[i] = c
    BY <2>1, <2>3, <2>4 DEF CloseSections
  <2>6. c \in TokenSet
    <3>1. "section" \in Tag
      BY DEF Tag
    <3> QED BY <2>1, <3>1, TokenTyped
  <2>7. PICK one \in Seq(TokenSet) : one = <<c>> /\ Len(one) = 1 /\ one[1] = c
    <3>1. <<c>> \in Seq(TokenSet)
      BY <2>6, FewElements
    <3>2. Len(<<c>>) = 1 /\ <<c>>[1] = c
      OBVIOUS
    <3> QED BY <3>1, <3>2
  <2>8. PICK u \in Seq(TokenSet) : u = s \o one
    BY ConcatProperties
  <2>9. Len(u) = k + 1 /\ \A i \in 1 .. k + 1 : u[i] = IF i <= k THEN s[i] ELSE one[i - k]
    BY <2>3, <2>7, <2>8, ConcatProperties
  <2>10. \A i \in 1 .. k + 1 : u[i] = c
    <3> SUFFICES ASSUME NEW i \in 1 .. k + 1 PROVE u[i] = c
      OBVIOUS
    <3>1. i \in 1 .. k \/ (~(i <= k) /\ i - k = 1)
      OBVIOUS
    <3> QED BY <2>5, <2>7, <2>9, <3>1
  <2>11. \A i \in 1 .. Len(t) : t[i] = u[i]
    BY <2>2, <2>4, <2>5, <2>10
  <2>12. t = u
    BY <2>2, <2>4, <2>9, <2>11, SeqEqual
  <2> QED BY <2>1, <2>2, <2>3, <2>4, <2>7, <2>8, <2>12
<1> QED BY <1>1, <1>2

LEMMA CloseSome ==
  ASSUME NEW q, NEW n \in Nat, NEW d \in Nat, Good(q, n, d), NEW m \in 0 .. d
  PROVE  \E r : Leads(q, CloseSections(d - m), r, n, m)
<1> DEFINE Closed(k) == \E r : Leads(q, CloseSections(k), r, n, d - k)
           G == {k \in Nat : Closed(k)}
<1>1. 0 \in G
  <2>1. Leads(q, CloseSections(0), q, n, d)
    BY LeadsNowhere, CloseMore
  <2>2. d - 0 = d
    OBVIOUS
  <2> QED BY <2>1, <2>2
<1>2. ASSUME NEW k \in 0 .. (d - 1), k \in G PROVE k + 1 \in G
  <2>1. PICK r : Leads(q, CloseSections(k), r, n, d - k)
    BY <1>2
  <2>2. PICK f \in Nat : f = d - (k + 1) /\ d - k = f + 1
    BY <1>2
  <2>3. PICK e \in Nat : e = f + 1 /\ e = d - k
    BY <2>2
  <2>4. Good(r, n, e)
    BY <2>1, <2>3 DEF Leads
  <2>5. PICK s : Leads(r, <<Close("section")>>, s, n, f)
    BY <2>3, <2>4, CloseOne
  <2>6. PICK a : a = CloseSections(k)
    OBVIOUS
  <2>7. PICK b : b = <<Close("section")>>
    OBVIOUS
  <2>8. Leads(q, a, r, n, e) /\ Leads(r, b, s, n, f)
    BY <2>1, <2>3, <2>5, <2>6, <2>7
  <2>9. Leads(q, a \o b, s, n, f)
    BY <2>8, LeadsOn
  <2>10. CloseSections(k + 1) = a \o b
    <3>1. k \in Nat
      BY <1>2
    <3> QED BY <2>6, <2>7, <3>1, CloseMore
  <2>11. Leads(q, CloseSections(k + 1), s, n, d - (k + 1))
    BY <2>2, <2>9, <2>10
  <2> QED BY <1>2, <2>11
<1> HIDE DEF G
<1>3. \A k \in 0 .. d : k \in G
  BY <1>1, <1>2, UpTo
<1>4. d - m \in 0 .. d /\ d - (d - m) = m
  OBVIOUS
<1>5. d - m \in G
  BY <1>3, <1>4
<1>6. Closed(d - m)
  BY <1>5 DEF G
<1> QED BY <1>4, <1>6

LEMMA BlockLeads ==
  ASSUME SourceOK, NEW n \in Nat, NEW i \in 1 .. Len(blocks), i = n + 1, Renders(blocks[i]),
         NEW q, NEW d \in Nat, Good(q, n, d)
  PROVE  \E r : Leads(q, BlockTokens(i), r, i, d)
<1>1. PICK tags \in Structured : tags = SectionTags(d) /\ Len(tags) = d + 3
  BY SectionTagsIs
<1>2. ParserOK(q) /\ StackTags(q, tags) /\ Tree(q.nodes, n) /\ Structural(q)
  BY <1>1, StackStructural DEF Good, InTree
<1>3. q.stack # <<>>
  <2>1. Len(q.stack) = d + 3
    BY <1>1, <1>2 DEF StackTags
  <2> QED BY <2>1
<1>4. PICK r : BlockMade(i, q, r)
  BY <1>2, <1>3, BlockGrows
<1>5. Tree(r.nodes, i)
  BY <1>2, <1>4, BlockTree
<1>6. PICK head : Grows(q, BlockTokens(i), r, i, head)
  BY <1>4 DEF BlockMade
<1>7. /\ BlockTokens(i) \in Tokenized /\ ParserOK(r) /\ Parses(q, BlockTokens(i), r)
      /\ r.stack = q.stack /\ Longer(q, r)
  BY <1>6 DEF Grows
<1>8. StackTags(r, tags)
  BY <1>2, <1>7, TagsKept
<1>9. Leads(q, BlockTokens(i), r, i, d)
  BY <1>1, <1>5, <1>7, <1>8 DEF Leads, Good, InTree
<1> QED BY <1>9

LEMMA SkipGood ==
  ASSUME NEW q, NEW n \in Nat, NEW d, Good(q, n, d), ~Renders(blocks[n + 1])
  PROVE  Good(q, n + 1, d)
<1>1. Tree(q.nodes, n)
  BY DEF Good, InTree
<1>2. Tree(q.nodes, n + 1)
  BY <1>1, SkippedTree
<1> QED BY <1>2 DEF Good, InTree

(* The end of the page.                                                    *)
LEMMA EndTree ==
  ASSUME NEW q, NEW n \in Nat, Good(q, n, 0)
  PROVE  \E r : /\ ShellEnd \in Tokenized /\ Parses(q, ShellEnd, r)
                /\ r.stack = <<>> /\ Tree(r.nodes, n)
<1>1. "html" \in Structure /\ "body" \in Structure /\ "main" \in Structure /\ <<>> \in Structured
  BY DEF Structure, Structured
<1>2. PICK a \in Structured : a = Append(<<>>, "html")
  <2>1. Append(<<>>, "html") \in Structured
    BY <1>1, AppendProperties DEF Structured
  <2> QED BY <2>1
<1>3. PICK b \in Structured : b = Append(a, "body")
  <2>1. Append(a, "body") \in Structured
    BY <1>1, <1>2, AppendProperties DEF Structured
  <2> QED BY <2>1
<1>4. PICK c : c = Append(b, "main") /\ InTree(q, n, c)
  BY <1>2, <1>3, SectionTagsIs DEF PageTags, Good
<1>5. PICK r1 : Parses(q, <<Close("main")>>, r1) /\ InTree(r1, n, b)
  BY <1>1, <1>4, CloseTree
<1>6. PICK r2 : Parses(r1, <<Close("body")>>, r2) /\ InTree(r2, n, a)
  BY <1>1, <1>3, <1>5, CloseTree
<1>7. PICK r3 : Parses(r2, <<Close("html")>>, r3) /\ InTree(r3, n, <<>>)
  BY <1>1, <1>2, <1>6, CloseTree
<1>8. Close("main") \in TokenSet /\ Close("body") \in TokenSet /\ Close("html") \in TokenSet
  <2>1. {"html", "body", "main"} \subseteq Tag
    BY DEF Tag
  <2> QED BY <2>1, TokenTyped
<1>9. Parses(q, ShellEnd, r3) /\ ShellEnd \in Tokenized
  BY <1>5, <1>6, <1>7, <1>8, ThreeTokens DEF ShellEnd
<1>10. r3.stack = <<>> /\ Tree(r3.nodes, n)
  <2>1. r3.stack \in Seq(Nat) /\ Len(r3.stack) = 0 /\ Tree(r3.nodes, n)
    BY <1>7, ParserFields DEF InTree, StackTags
  <2> QED BY <2>1
<1> QED BY <1>9, <1>10

-----------------------------------------------------------------------------
(* The pages of a PDF follow each other.                                   *)
SamePage(j, k) == Renders(blocks[j]) /\ Renders(blocks[k]) /\ blocks[j].page = blocks[k].page

(* A page is open after n blocks when it has some before and some behind.  *)
PageOpen(n) == \E j \in 1 .. n : \E k \in (n + 1) .. Len(blocks) : SamePage(j, k)

LEMMA PagesRise ==
  ASSUME SourceOK, kind = "pdf"
  PROVE  \A j, k \in 1 .. Len(blocks) : j <= k => blocks[j].page <= blocks[k].page
<1>1. /\ Len(blocks) \in Nat /\ \A i \in 1 .. Len(blocks) : blocks[i] \in SourceBlock
      /\ \A i \in 1 .. Len(blocks) - 1 : blocks[i].page <= blocks[i + 1].page
  BY SourceBlocks DEF SourceOK
<1>2. \A i \in 1 .. Len(blocks) : blocks[i].page \in Nat
  BY <1>1 DEF SourceBlock
<1> SUFFICES ASSUME NEW j \in 1 .. Len(blocks)
             PROVE  \A k \in 1 .. Len(blocks) : j <= k => blocks[j].page <= blocks[k].page
  OBVIOUS
<1> DEFINE G == {m \in Nat : j + m <= Len(blocks) => blocks[j].page <= blocks[j + m].page}
<1>3. 0 \in G
  BY <1>1, <1>2
<1>4. \A m \in 0 .. (Len(blocks) - 1) : m \in G => m + 1 \in G
  <2> SUFFICES ASSUME NEW m \in 0 .. (Len(blocks) - 1), m \in G, j + (m + 1) <= Len(blocks)
               PROVE  blocks[j].page <= blocks[j + (m + 1)].page
    OBVIOUS
  <2>1. PICK i \in 1 .. Len(blocks) : i = j + m
    BY <1>1
  <2>2. i \in 1 .. Len(blocks) - 1 /\ i + 1 \in 1 .. Len(blocks) /\ j + (m + 1) = i + 1
    BY <1>1, <2>1
  <2>3. blocks[j].page <= blocks[i].page
    BY <2>1, <2>2
  <2>4. blocks[i].page <= blocks[i + 1].page
    BY <1>1, <2>2
  <2> QED BY <1>2, <2>2, <2>3, <2>4
<1> HIDE DEF G
<1>5. \A m \in 0 .. Len(blocks) : m \in G
  BY <1>1, <1>3, <1>4, UpTo
<1> SUFFICES ASSUME NEW k \in 1 .. Len(blocks), j <= k PROVE blocks[j].page <= blocks[k].page
  OBVIOUS
<1>6. PICK m \in 0 .. Len(blocks) : k = j + m
  <2>1. k - j \in 0 .. Len(blocks) /\ k = j + (k - j)
    BY <1>1
  <2> QED BY <2>1
<1>7. m \in G /\ j + m <= Len(blocks)
  BY <1>1, <1>5, <1>6
<1> QED BY <1>6, <1>7 DEF G

LEMMA PageBetween ==
  ASSUME SourceOK, kind = "pdf", NEW i \in 1 .. Len(blocks), NEW j \in 1 .. Len(blocks),
         NEW k \in 1 .. Len(blocks), j <= i, i <= k, blocks[j].page = blocks[k].page
  PROVE  blocks[i].page = blocks[j].page
<1>1. \A x \in 1 .. Len(blocks) : blocks[x].page \in Nat
  BY SourceBlocks DEF SourceBlock
<1>2. blocks[j].page <= blocks[i].page /\ blocks[i].page <= blocks[k].page
  BY PagesRise
<1> QED BY <1>1, <1>2

LEMMA PageIs ==
  ASSUME SourceOK, kind = "pdf", NEW n \in Nat, NEW i \in 1 .. Len(blocks), i = n + 1,
         Renders(blocks[i])
  PROVE  (Opens(i) <=> ~PageOpen(n)) /\ (Ends(i) <=> ~PageOpen(i))
<1>0. Len(blocks) \in Nat
  BY SourceBlocks
<1>1. ASSUME PageOpen(n) PROVE ~Opens(i)
  <2>1. PICK j \in 1 .. n, k \in (n + 1) .. Len(blocks) : SamePage(j, k)
    BY <1>1 DEF PageOpen
  <2>2. j \in 1 .. Len(blocks) /\ k \in 1 .. Len(blocks) /\ j <= i /\ i <= k /\ j \in 1 .. i - 1
    BY <1>0
  <2>3. Renders(blocks[j]) /\ blocks[i].page = blocks[j].page
    BY <2>1, <2>2, PageBetween DEF SamePage
  <2> QED BY <2>2, <2>3 DEF Opens
<1>2. ASSUME ~Opens(i) PROVE PageOpen(n)
  <2>1. PICK j \in 1 .. i - 1 : Renders(blocks[j]) /\ blocks[j].page = blocks[i].page
    BY <1>2 DEF Opens
  <2>2. j \in 1 .. n /\ i \in (n + 1) .. Len(blocks) /\ SamePage(j, i)
    BY <1>0, <2>1 DEF SamePage
  <2> QED BY <2>2 DEF PageOpen
<1>3. ASSUME PageOpen(i) PROVE ~Ends(i)
  <2>1. PICK j \in 1 .. i, k \in (i + 1) .. Len(blocks) : SamePage(j, k)
    BY <1>3 DEF PageOpen
  <2>2. j \in 1 .. Len(blocks) /\ k \in 1 .. Len(blocks) /\ j <= i /\ i <= k
    BY <1>0
  <2>3. Renders(blocks[k]) /\ blocks[i].page = blocks[k].page
    BY <2>1, <2>2, PageBetween DEF SamePage
  <2> QED BY <2>3 DEF Ends
<1>4. ASSUME ~Ends(i) PROVE PageOpen(i)
  <2>1. PICK k \in (i + 1) .. Len(blocks) : Renders(blocks[k]) /\ blocks[k].page = blocks[i].page
    BY <1>4 DEF Ends
  <2>2. i \in 1 .. i /\ SamePage(i, k)
    BY <2>1 DEF SamePage
  <2> QED BY <2>1, <2>2 DEF PageOpen
<1> QED BY <1>1, <1>2, <1>3, <1>4

LEMMA PageSkips ==
  ASSUME NEW n \in Nat, ~Renders(blocks[n + 1]), Len(blocks) \in Nat
  PROVE  PageOpen(n + 1) <=> PageOpen(n)
<1>1. PICK i \in Nat : i = n + 1
  OBVIOUS
<1>2. ASSUME PageOpen(i) PROVE PageOpen(n)
  <2>1. PICK j \in 1 .. i, k \in (i + 1) .. Len(blocks) : SamePage(j, k)
    BY <1>2 DEF PageOpen
  <2>2. j # i
    BY <1>1, <2>1 DEF SamePage
  <2>3. j \in 1 .. n /\ k \in (n + 1) .. Len(blocks)
    BY <1>1, <2>2
  <2> QED BY <2>1, <2>3 DEF PageOpen
<1>3. ASSUME PageOpen(n) PROVE PageOpen(i)
  <2>1. PICK j \in 1 .. n, k \in (n + 1) .. Len(blocks) : SamePage(j, k)
    BY <1>3 DEF PageOpen
  <2>2. k # i
    BY <1>1, <2>1 DEF SamePage
  <2>3. j \in 1 .. i /\ k \in (i + 1) .. Len(blocks)
    BY <1>1, <2>2
  <2> QED BY <2>1, <2>3 DEF PageOpen
<1> QED BY <1>1, <1>2, <1>3

LEMMA PageEnds == ~PageOpen(0) /\ (Len(blocks) \in Nat => ~PageOpen(Len(blocks)))
  BY DEF PageOpen

-----------------------------------------------------------------------------
(* The section of a heading: what it ends is closed, and it is opened.     *)
LEMMA StartLeads ==
  ASSUME NEW o \in Seq(1 .. 9), NEW level \in 1 .. 9, NEW q, NEW n \in Nat, NEW base \in Nat,
         NEW d, d = Len(o) + base, Good(q, n, d),
         NEW within, within = Append(Popped(o, level), level), NEW e, e = Len(within) + base
  PROVE  \E r : Leads(q, StartSection(o, level), r, n, e)
<1>1. PICK m \in 0 .. Len(o) : m = Len(Popped(o, level)) /\ Len(o) \in Nat
  BY PoppedIs
<1>2. Popped(o, level) \in Seq(1 .. 9)
  BY PoppedIs
<1>3. Len(within) = m + 1
  BY <1>1, <1>2, AppendProperties
<1>4. PICK c \in 0 .. d : c = m + base /\ d - c = Len(o) - m /\ d \in Nat
  <2>1. m + base \in 0 .. d /\ d - (m + base) = Len(o) - m /\ d \in Nat
    BY <1>1
  <2> QED BY <2>1
<1>5. PICK s : Leads(q, CloseSections(d - c), s, n, c)
  BY <1>4, CloseSome
<1>6. Good(s, n, c) /\ c \in Nat
  BY <1>4, <1>5 DEF Leads
<1>7. e = c + 1
  BY <1>1, <1>3, <1>4
<1>8. PICK r : Leads(s, <<Open("section")>>, r, n, e)
  BY <1>6, <1>7, OpenSection
<1>9. PICK a : a = CloseSections(d - c)
  OBVIOUS
<1>10. PICK b : b = <<Open("section")>>
  OBVIOUS
<1>11. Leads(q, a \o b, r, n, e)
  BY <1>5, <1>8, <1>9, <1>10, LeadsOn
<1>12. StartSection(o, level) = a \o b
  BY <1>1, <1>4, <1>9, <1>10 DEF StartSection
<1> QED BY <1>11, <1>12

-----------------------------------------------------------------------------
(* What is rendered of n blocks leads from the shell to a tree of them, in *)
(* a page with a section for itself and one for each open heading.         *)
DepthAt(o, n) == Len(o) + (IF kind = "pdf" /\ PageOpen(n) THEN 1 ELSE 0)

Rendered(h, o, n) ==
  /\ o \in Seq(1 .. 9)
  /\ \E q0, q : Parses(NewParser, Shell, q0) /\ Leads(q0, h, q, n, DepthAt(o, n))
  /\ kind = "pdf" /\ ~PageOpen(n) => o = <<>>

LEMMA RenderedFirst == Rendered(<<>>, <<>>, 0)
<1>1. PICK z : z = 0
  OBVIOUS
<1>2. DepthAt(<<>>, z) = 0
  BY <1>1, PageEnds DEF DepthAt
<1>3. PICK q0 : Parses(NewParser, Shell, q0) /\ InTree(q0, 0, PageTags)
  BY ShellTree
<1>4. Good(q0, z, 0)
  BY <1>1, <1>3, SectionTagsIs DEF Good
<1>5. Leads(q0, <<>>, q0, z, 0)
  BY <1>4, LeadsNowhere
<1>6. \E q1, q : Parses(NewParser, Shell, q1) /\ Leads(q1, <<>>, q, z, DepthAt(<<>>, z))
  BY <1>2, <1>3, <1>5
<1>7. <<>> \in Seq(1 .. 9)
  OBVIOUS
<1>8. Rendered(<<>>, <<>>, z)
  BY <1>6, <1>7, Zenon DEF Rendered
<1> QED BY <1>1, <1>8

LEMMA RenderedSkip ==
  ASSUME SourceOK, NEW h, NEW o, NEW n \in Nat, Rendered(h, o, n), ~Renders(blocks[n + 1]),
         NEW i, i = n + 1
  PROVE  Rendered(h, o, i)
<1>1. PageOpen(i) <=> PageOpen(n)
  BY SourceBlocks, PageSkips
<1>2. DepthAt(o, i) = DepthAt(o, n)
  BY <1>1 DEF DepthAt
<1>3. PICK q0, q : Parses(NewParser, Shell, q0) /\ Leads(q0, h, q, n, DepthAt(o, n))
  BY DEF Rendered
<1>4. PICK d : d = DepthAt(o, n)
  OBVIOUS
<1>5. Good(q, i, d) /\ Leads(q0, h, q, n, d)
  BY <1>3, <1>4, SkipGood DEF Leads
<1>6. Leads(q0, h, q, i, d)
  BY <1>5 DEF Leads
<1> QED BY <1>1, <1>2, <1>3, <1>4, <1>6 DEF Rendered

LEMMA RenderedPdf ==
  ASSUME SourceOK, kind = "pdf", NEW h, NEW o, NEW n \in Nat, Rendered(h, o, n),
         NEW i \in 1 .. Len(blocks), i = n + 1, Renders(blocks[i]),
         NEW level, level = HeadingLevel(blocks, blocks[i]), NEW within, within = PdfSections(o, level),
         NEW first, first = IF Opens(i) THEN <<Open("section")>> ELSE <<>>,
         NEW last, last = IF Ends(i) THEN CloseSections(Len(within) + 1) ELSE <<>>,
         NEW more, more = IF Ends(i) THEN <<>> ELSE within
  PROVE  Rendered(h \o first \o PdfStart(o, level) \o RenderBlock(i, blocks[i], level) \o last, more, i)
<1>0. (Opens(i) <=> ~PageOpen(n)) /\ (Ends(i) <=> ~PageOpen(i)) /\ i \in Nat
  BY PageIs
<1>1. o \in Seq(1 .. 9) /\ Len(o) \in Nat /\ (~PageOpen(n) => o = <<>>)
  BY DEF Rendered
<1>2. PICK q0, q : Parses(NewParser, Shell, q0) /\ Leads(q0, h, q, n, DepthAt(o, n))
  BY DEF Rendered
<1>3. PICK d \in Nat : d = Len(o) + 1
  BY <1>1
<1>4. PICK q1 : Leads(q0, h \o first, q1, n, d)
  <2>1. CASE Opens(i)
    <3>1. DepthAt(o, n) = 0 /\ d = 1
      BY <1>0, <1>1, <1>3, <2>1 DEF DepthAt
    <3>2. PICK z \in Nat : z = 0 /\ d = z + 1
      BY <3>1
    <3>3. Leads(q0, h, q, n, z)
      BY <1>2, <3>1, <3>2
    <3>4. Good(q, n, z)
      BY <3>3 DEF Leads
    <3>5. PICK r : Leads(q, <<Open("section")>>, r, n, d)
      BY <3>2, <3>4, OpenSection
    <3>6. Leads(q, first, r, n, d)
      BY <2>1, <3>5
    <3> QED BY <3>3, <3>6, LeadsOn
  <2>2. CASE ~Opens(i)
    <3>1. DepthAt(o, n) = d
      BY <1>0, <1>3, <2>2 DEF DepthAt
    <3>2. Good(q, n, d)
      BY <1>2, <3>1 DEF Leads
    <3>3. Leads(q, <<>>, q, n, d)
      BY <3>2, LeadsNowhere
    <3>4. Leads(q, first, q, n, d)
      BY <2>2, <3>3
    <3> QED BY <1>2, <3>1, <3>4, LeadsOn
  <2> QED BY <2>1, <2>2
<1>5. within \in Seq(1 .. 9) /\ Len(within) \in Nat
  <2>1. within \in Seq(1 .. 9)
    BY <1>1, StartTyped
  <2> QED BY <2>1
<1>6. PICK e \in Nat : e = Len(within) + 1
  BY <1>5
<1>7. PICK start1 : start1 = PdfStart(o, level)
  OBVIOUS
<1>8. Good(q1, n, d)
  BY <1>4 DEF Leads
<1>9. PICK q2 : Leads(q1, start1, q2, n, e)
  <2>1. CASE level \in {2, 3}
    <3>1. level \in 1 .. 9
      BY <2>1
    <3>2. within = Append(Popped(o, level), level) /\ start1 = StartSection(o, level)
      BY <1>7, <2>1 DEF PdfSections, PdfStart
    <3>3. PICK base \in Nat : base = 1
      OBVIOUS
    <3>4. d = Len(o) + base /\ e = Len(within) + base
      BY <1>3, <1>6, <3>3
    <3> QED BY <1>1, <1>8, <3>1, <3>2, <3>4, StartLeads
  <2>2. CASE level \notin {2, 3}
    <3>1. within = o /\ start1 = <<>> /\ e = d
      BY <1>3, <1>6, <1>7, <2>2 DEF PdfSections, PdfStart
    <3>2. Leads(q1, <<>>, q1, n, d)
      BY <1>8, LeadsNowhere
    <3> QED BY <3>1, <3>2
  <2> QED BY <2>1, <2>2
<1>10. PICK body : body = RenderBlock(i, blocks[i], level)
  OBVIOUS
<1>11. body = BlockTokens(i)
  BY <1>10 DEF BlockTokens, BlockLevel
<1>12. Good(q2, n, e)
  BY <1>9 DEF Leads
<1>13. PICK q3 : Leads(q2, body, q3, i, e)
  BY <1>11, <1>12, BlockLeads
<1>14. Good(q3, i, e)
  BY <1>13 DEF Leads
<1>15. PICK f \in 0 .. e : f = IF Ends(i) THEN 0 ELSE e
  BY <1>6
<1>16. PICK q4 : Leads(q3, last, q4, i, f)
  <2>1. CASE Ends(i)
    <3>1. f = 0 /\ e - f = Len(within) + 1
      BY <1>5, <1>6, <1>15, <2>1
    <3>2. PICK r : Leads(q3, CloseSections(e - f), r, i, f)
      BY <1>0, <1>14, CloseSome
    <3>3. last = CloseSections(e - f)
      BY <2>1, <3>1
    <3> QED BY <3>2, <3>3
  <2>2. CASE ~Ends(i)
    <3>1. Leads(q3, <<>>, q3, i, e)
      BY <1>14, LeadsNowhere
    <3> QED BY <1>15, <2>2, <3>1
  <2> QED BY <2>1, <2>2
<1>17. PICK h1 : h1 = h \o first /\ Leads(q0, h1, q1, n, d)
  BY <1>4
<1>18. PICK h2 : h2 = h1 \o start1 /\ Leads(q0, h2, q2, n, e)
  BY <1>9, <1>17, LeadsOn
<1>19. PICK h3 : h3 = h2 \o body /\ Leads(q0, h3, q3, i, e)
  BY <1>13, <1>18, LeadsOn
<1>20. PICK h4 : h4 = h3 \o last /\ Leads(q0, h4, q4, i, f)
  <2>1. Leads(q0, h3, q3, i, e) /\ Leads(q3, last, q4, i, f)
    BY <1>16, <1>19
  <2>2. Leads(q0, h3 \o last, q4, i, f)
    BY <2>1, LeadsOn
  <2> QED BY <2>2
<1>21. f = DepthAt(more, i)
  <2>1. CASE Ends(i)
    BY <1>0, <1>15, <2>1 DEF DepthAt
  <2>2. CASE ~Ends(i)
    BY <1>0, <1>6, <1>15, <2>2 DEF DepthAt
  <2> QED BY <2>1, <2>2
<1>22. more \in Seq(1 .. 9) /\ (~PageOpen(i) => more = <<>>)
  <2>1. <<>> \in Seq(1 .. 9)
    OBVIOUS
  <2> QED BY <1>0, <1>5, <2>1
<1>23. Rendered(h4, more, i)
  BY <1>2, <1>20, <1>21, <1>22 DEF Rendered
<1> QED BY <1>7, <1>10, <1>17, <1>18, <1>19, <1>20, <1>23

LEMMA RenderedDocx ==
  ASSUME SourceOK, kind = "docx", NEW h, NEW o, NEW n \in Nat, Rendered(h, o, n),
         NEW i \in 1 .. Len(blocks), i = n + 1, Renders(blocks[i])
  PROVE  Rendered(h \o DocxBlock(o, i, blocks[i]), DocxSections(o, blocks[i]), i)
<1>0. i \in Nat /\ blocks[i].level \in 0 .. 9 /\ kind # "pdf"
  BY DEF SourceOK
<1>1. o \in Seq(1 .. 9) /\ Len(o) \in Nat
  BY DEF Rendered
<1>2. PICK q0, q : Parses(NewParser, Shell, q0) /\ Leads(q0, h, q, n, DepthAt(o, n))
  BY DEF Rendered
<1>3. PICK d \in Nat : d = Len(o) /\ DepthAt(o, n) = d
  <2>1. DepthAt(o, n) = Len(o)
    BY <1>0, <1>1 DEF DepthAt
  <2> QED BY <1>1, <2>1
<1>4. PICK level \in 0 .. 9 : level = blocks[i].level
  BY <1>0
<1>5. PICK within : within = DocxSections(o, blocks[i])
  OBVIOUS
<1>6. PICK body : body = BlockTokens(i)
  OBVIOUS
<1>7. PICK begin : begin = IF level > 0 THEN StartSection(o, level) ELSE <<>>
  OBVIOUS
<1>8. Good(q, n, d) /\ Leads(q0, h, q, n, d)
  BY <1>2, <1>3 DEF Leads
<1>9. within \in Seq(1 .. 9) /\ Len(within) \in Nat
  <2>1. CASE level > 0
    <3>1. level \in 1 .. 9 /\ within = Append(Popped(o, level), level)
      BY <1>4, <1>5, <2>1 DEF DocxSections
    <3>2. within \in Seq(1 .. 9)
      BY <1>1, <3>1, StartTyped
    <3> QED BY <3>2
  <2>2. CASE ~(level > 0)
    BY <1>1, <1>4, <1>5, <2>2 DEF DocxSections
  <2> QED BY <2>1, <2>2
<1>10. PICK e \in Nat : e = Len(within)
  BY <1>9
<1>11. PICK q1 : Leads(q, begin, q1, n, e)
  <2>1. CASE level > 0
    <3>1. level \in 1 .. 9 /\ within = Append(Popped(o, level), level) /\ begin = StartSection(o, level)
      BY <1>4, <1>5, <1>7, <2>1 DEF DocxSections
    <3>2. PICK base \in Nat : base = 0
      OBVIOUS
    <3>3. d = Len(o) + base /\ e = Len(within) + base
      BY <1>1, <1>3, <1>9, <1>10, <3>2
    <3> QED BY <1>1, <1>8, <3>1, <3>3, StartLeads
  <2>2. CASE ~(level > 0)
    <3>1. within = o /\ begin = <<>> /\ e = d
      BY <1>3, <1>4, <1>5, <1>7, <1>10, <2>2 DEF DocxSections
    <3>2. Leads(q, <<>>, q, n, d)
      BY <1>8, LeadsNowhere
    <3> QED BY <3>1, <3>2
  <2> QED BY <2>1, <2>2
<1>12. Good(q1, n, e)
  BY <1>11 DEF Leads
<1>13. PICK q2 : Leads(q1, body, q2, i, e)
  BY <1>6, <1>12, BlockLeads
<1>14. PICK tail : tail = begin \o body /\ Leads(q, tail, q2, i, e)
  BY <1>11, <1>13, LeadsOn
<1>15. PICK h1 : h1 = h \o tail /\ Leads(q0, h1, q2, i, e)
  BY <1>8, <1>14, LeadsOn
<1>16. tail = DocxBlock(o, i, blocks[i])
  <2>1. CASE level > 0
    BY <1>0, <1>4, <1>6, <1>7, <1>14, <2>1 DEF BlockTokens, DocxBlock
  <2>2. CASE ~(level > 0)
    <3>1. body = DocxBlock(o, i, blocks[i]) /\ begin = <<>>
      BY <1>0, <1>4, <1>6, <1>7, <2>2 DEF BlockTokens, DocxBlock
    <3>2. body \in Seq(TokenSet)
      BY <1>13 DEF Leads, Tokenized
    <3>3. begin \o body = body
      BY <3>1, <3>2, ConcatEmptySeq
    <3> QED BY <1>14, <3>1, <3>3
  <2> QED BY <2>1, <2>2
<1>17. DepthAt(within, i) = e
  BY <1>0, <1>9, <1>10 DEF DepthAt
<1>18. Rendered(h1, within, i)
  BY <1>0, <1>2, <1>9, <1>15, <1>17 DEF Rendered
<1> QED BY <1>5, <1>15, <1>16, <1>18

(* The whole page.                                                         *)
Shelled(h, n) ==
  /\ h \in Tokenized
  /\ \E t : /\ t[0] = NewParser /\ Trace(t, h)
            /\ t[Len(h)].stack = <<>> /\ Tree(t[Len(h)].nodes, n)

LEMMA RenderedAll ==
  ASSUME SourceOK, NEW h, NEW o, NEW n \in Nat, n = Len(blocks), Rendered(h, o, n)
  PROVE  Shelled(Shell \o h \o CloseSections(Len(o)) \o ShellEnd, n)
<1>1. o \in Seq(1 .. 9) /\ Len(o) \in Nat /\ ~PageOpen(n)
  BY PageEnds DEF Rendered
<1>2. PICK d \in Nat : d = Len(o) /\ d = DepthAt(o, n)
  BY <1>1 DEF DepthAt
<1>3. PICK q0, q : Parses(NewParser, Shell, q0) /\ Leads(q0, h, q, n, d)
  BY <1>2 DEF Rendered
<1>4. Good(q, n, d) /\ h \in Tokenized /\ Parses(q0, h, q)
  BY <1>3 DEF Leads
<1>5. PICK z \in 0 .. d : z = 0 /\ d - z = Len(o)
  BY <1>2
<1>6. PICK r : Leads(q, CloseSections(d - z), r, n, z)
  BY <1>4, CloseSome
<1>7. PICK c \in Tokenized : c = CloseSections(Len(o)) /\ Parses(q, c, r)
  BY <1>5, <1>6 DEF Leads
<1>8. Good(r, n, 0)
  BY <1>5, <1>6 DEF Leads
<1>9. PICK s : /\ ShellEnd \in Tokenized /\ Parses(r, ShellEnd, s)
               /\ s.stack = <<>> /\ Tree(s.nodes, n)
  BY <1>8, EndTree
<1>10. PICK a : a = Shell \o h /\ a \in Tokenized /\ Parses(NewParser, a, q)
  BY <1>3, <1>4, ShellTyped, ParsesOn, JoinTokens
<1>11. PICK b : b = a \o c /\ b \in Tokenized /\ Parses(NewParser, b, r)
  BY <1>7, <1>10, ParsesOn, JoinTokens
<1>12. PICK e : e = b \o ShellEnd /\ e \in Tokenized /\ Parses(NewParser, e, s)
  BY <1>9, <1>11, ParsesOn, JoinTokens
<1>13. Shelled(e, n)
  BY <1>9, <1>12 DEF Shelled, Parses
<1> QED BY <1>7, <1>10, <1>11, <1>12, <1>13

-----------------------------------------------------------------------------
(* The file does not change while it is built.                             *)
SameFile == UNCHANGED <<kind, blocks>>

LEMMA SameBlocks ==
  ASSUME SameFile
  PROVE  /\ \A i : OutlineLevel(i)' = OutlineLevel(i) /\ Placed(i)' = Placed(i)
         /\ \A nodes, src, d : BlockNodeOK(nodes, src, d)' <=> BlockNodeOK(nodes, src, d)
         /\ \A nodes, src, n : Complete(nodes, src, n)' <=> Complete(nodes, src, n)
<1>1. kind' = kind /\ blocks' = blocks
  BY DEF SameFile
<1>2. ASSUME NEW i PROVE OutlineLevel(i)' = OutlineLevel(i)
  BY <1>1 DEF OutlineLevel
<1>3. ASSUME NEW i PROVE Placed(i)' = Placed(i)
  BY <1>1 DEF Placed
<1>4. ASSUME NEW nodes, NEW src, NEW d
      PROVE  BlockNodeOK(nodes, src, d)' <=> BlockNodeOK(nodes, src, d)
  BY <1>1, <1>2 DEF BlockNodeOK
<1>5. ASSUME NEW nodes, NEW src, NEW n PROVE Complete(nodes, src, n)' <=> Complete(nodes, src, n)
  BY <1>1, <1>2, <1>3 DEF Complete
<1> QED BY <1>2, <1>3, <1>4, <1>5

LEMMA SameTree ==
  ASSUME SameFile, NEW nodes, NEW n
  PROVE  Tree(nodes, n)' <=> Tree(nodes, n)
<1>1. ASSUME NEW src PROVE Traced(nodes, src, n)' <=> Traced(nodes, src, n)
  BY SameBlocks DEF Traced, NodeOK
<1>2. ASSUME NEW src PROVE Complete(nodes, src, n)' <=> Complete(nodes, src, n)
  BY SameBlocks
<1> QED BY <1>1, <1>2 DEF Tree

LEMMA SameGood ==
  ASSUME SameFile, NEW q, NEW n, NEW d
  PROVE  Good(q, n, d)' <=> Good(q, n, d)
  BY SameTree DEF Good, InTree

LEMMA SameRendered ==
  ASSUME SameFile, NEW h, NEW o, NEW n
  PROVE  Rendered(h, o, n)' <=> Rendered(h, o, n)
<1>1. kind' = kind /\ blocks' = blocks
  BY DEF SameFile
<1>2. PageOpen(n)' <=> PageOpen(n)
  BY <1>1 DEF PageOpen, SamePage
<1>3. DepthAt(o, n)' = DepthAt(o, n)
  BY <1>1, <1>2 DEF DepthAt
<1>4. ASSUME NEW q0, NEW q, NEW d PROVE Leads(q0, h, q, n, d)' <=> Leads(q0, h, q, n, d)
  BY SameGood DEF Leads
<1> QED BY <1>1, <1>2, <1>3, <1>4 DEF Rendered

-----------------------------------------------------------------------------
(* The HTML is parsed strictly, and to a tree of the file's blocks.        *)
Parsing(h, p, k, n) ==
  /\ h \in Tokenized /\ k \in 0 .. Len(h)
  /\ \E t : /\ t[0] = NewParser /\ Trace(t, h) /\ t[k] = p
            /\ t[Len(h)].stack = <<>> /\ Tree(t[Len(h)].nodes, n)

PageOK ==
  /\ phase = "render" => parser = NewParser /\ Rendered(html, open, at)
  /\ phase = "parse" => Parsing(html, parser, at, Len(blocks))
  /\ phase \notin {"render", "parse"} => Tree(parser.nodes, Len(blocks))

LEMMA SameParsing ==
  ASSUME SameFile, NEW h, NEW p, NEW k, NEW n
  PROVE  Parsing(h, p, k, n)' <=> Parsing(h, p, k, n)
  BY SameTree DEF Parsing

LEMMA ParsingOn ==
  ASSUME NEW h, NEW p, NEW k \in Nat, NEW n, Parsing(h, p, k, n), k < Len(h)
  PROVE  Parsing(h, Feed(p, h[k + 1]), k + 1, n)
<1>1. Len(h) \in Nat
  BY DEF Parsing, Tokenized
<1>2. PICK t : /\ t[0] = NewParser /\ Trace(t, h) /\ t[k] = p
               /\ t[Len(h)].stack = <<>> /\ Tree(t[Len(h)].nodes, n)
  BY DEF Parsing
<1>3. PICK j \in 1 .. Len(h) : j = k + 1 /\ j - 1 = k
  BY <1>1
<1>4. t[j] = Feed(p, h[j])
  BY <1>2, <1>3 DEF Trace
<1>5. j \in 0 .. Len(h)
  BY <1>3
<1>6. Parsing(h, Feed(p, h[j]), j, n)
  BY <1>2, <1>4, <1>5 DEF Parsing
<1> QED BY <1>3, <1>6

LEMMA PageFirst == Init => PageOK
<1> SUFFICES ASSUME Init PROVE PageOK
  OBVIOUS
<1>1. phase = "render" /\ at = 0 /\ html = <<>> /\ open = <<>> /\ parser = NewParser
  BY DEF Init
<1> QED BY <1>1, RenderedFirst DEF PageOK

LEMMA PageStep == BuildOK /\ PageOK /\ [Next]_vars => PageOK'
<1> SUFFICES ASSUME BuildOK, PageOK, [Next]_vars PROVE PageOK'
  OBVIOUS
<1>0. SourceOK /\ HtmlOK /\ at \in Nat /\ Len(blocks) \in Nat
  BY SourceBlocks DEF BuildOK, HtmlOK
<1>1. CASE SkipBlock
  <2>1. /\ phase = "render" /\ at' = at + 1 /\ ~Renders(blocks[at + 1])
        /\ UNCHANGED <<kind, blocks, phase, html, open, parser>>
    BY <1>1 DEF SkipBlock, Rendering
  <2>2. Rendered(html, open, at)
    BY <2>1 DEF PageOK
  <2>3. Rendered(html', open', at')
    BY <1>0, <2>1, <2>2, RenderedSkip
  <2> QED BY <2>1, <2>3, SameRendered DEF PageOK, SameFile
<1>2. CASE RenderPdfBlock
  <2>1. PICK i : i = at + 1
    OBVIOUS
  <2>2. PICK level : level = HeadingLevel(blocks, blocks[i])
    OBVIOUS
  <2>3. PICK within : within = PdfSections(open, level)
    OBVIOUS
  <2>4. PICK first : first = IF Opens(i) THEN <<Open("section")>> ELSE <<>>
    OBVIOUS
  <2>5. PICK last : last = IF Ends(i) THEN CloseSections(Len(within) + 1) ELSE <<>>
    OBVIOUS
  <2>6. /\ Rendering /\ kind = "pdf" /\ Renders(blocks[i])
        /\ html' = html \o first \o PdfStart(open, level) \o RenderBlock(i, blocks[i], level) \o last
        /\ open' = IF Ends(i) THEN <<>> ELSE within
        /\ at' = i
        /\ UNCHANGED <<kind, blocks, phase, parser>>
    BY <1>2, <2>1, <2>2, <2>3, <2>4, <2>5 DEF RenderPdfBlock
  <2>7. i \in 1 .. Len(blocks)
    BY <2>1, <2>6, NextBlock
  <2>8. phase = "render" /\ Rendered(html, open, at)
    BY <2>6 DEF PageOK, Rendering
  <2>9. PICK more : more = IF Ends(i) THEN <<>> ELSE within
    OBVIOUS
  <2>10. Rendered(html \o first \o PdfStart(open, level) \o RenderBlock(i, blocks[i], level) \o last, more, i)
    BY <1>0, <2>1, <2>2, <2>3, <2>4, <2>5, <2>6, <2>7, <2>8, <2>9, RenderedPdf
  <2>11. Rendered(html', open', at')
    BY <2>6, <2>9, <2>10
  <2> QED BY <2>6, <2>8, <2>11, SameRendered DEF PageOK, SameFile
<1>3. CASE RenderDocxBlock
  <2>1. PICK i : i = at + 1
    OBVIOUS
  <2>2. /\ Rendering /\ kind = "docx" /\ Renders(blocks[i])
        /\ html' = html \o DocxBlock(open, i, blocks[i])
        /\ open' = DocxSections(open, blocks[i])
        /\ at' = i
        /\ UNCHANGED <<kind, blocks, phase, parser>>
    BY <1>3, <2>1 DEF RenderDocxBlock
  <2>3. i \in 1 .. Len(blocks)
    BY <2>1, <2>2, NextBlock
  <2>4. phase = "render" /\ Rendered(html, open, at)
    BY <2>2 DEF PageOK, Rendering
  <2>5. Rendered(html', open', at')
    BY <1>0, <2>1, <2>2, <2>3, <2>4, RenderedDocx
  <2> QED BY <2>2, <2>4, <2>5, SameRendered DEF PageOK, SameFile
<1>4. CASE FinishHtml
  <2>1. /\ phase = "render" /\ at = Len(blocks) /\ phase' = "parse" /\ at' = 0
        /\ html' = Shell \o html \o CloseSections(Len(open)) \o ShellEnd
        /\ UNCHANGED <<kind, blocks, parser>>
    BY <1>4 DEF FinishHtml
  <2>2. parser = NewParser /\ Rendered(html, open, at)
    BY <2>1 DEF PageOK
  <2>3. Shelled(html', at)
    BY <1>0, <2>1, <2>2, RenderedAll
  <2>4. 0 \in 0 .. Len(html')
    BY <2>3 DEF Shelled, Tokenized
  <2>5. Parsing(html', parser', at', Len(blocks'))
    BY <2>1, <2>2, <2>3, <2>4 DEF Shelled, Parsing
  <2> QED BY <2>1, <2>5, SameParsing DEF PageOK, SameFile
<1>5. CASE Parse
  <2>1. /\ phase = "parse" /\ at < Len(html) /\ parser' = Feed(parser, html[at + 1])
        /\ at' = at + 1 /\ UNCHANGED <<kind, blocks, phase, html>>
    BY <1>5 DEF Parse
  <2>2. Parsing(html, parser, at, Len(blocks))
    BY <2>1 DEF PageOK
  <2>3. Parsing(html, Feed(parser, html[at + 1]), at + 1, Len(blocks))
    BY <1>0, <2>1, <2>2, ParsingOn
  <2>4. Parsing(html', parser', at', Len(blocks'))
    BY <2>1, <2>3
  <2> QED BY <2>1, <2>4, SameParsing DEF PageOK, SameFile
<1>6. CASE StartWriting
  <2>1. phase = "parse" /\ at = Len(html) /\ phase' = "write" /\ UNCHANGED <<kind, blocks, parser>>
    BY <1>6 DEF StartWriting
  <2>2. Tree(parser.nodes, Len(blocks))
    BY <2>1 DEF PageOK, Parsing
  <2>3. Tree(parser'.nodes, Len(blocks'))
    BY <2>1, <2>2
  <2> QED BY <2>1, <2>3, SameTree DEF PageOK, SameFile
<1>7. CASE WriteHeading \/ WriteBlock \/ StartCutting \/ Cut \/ Validate
  <2>1. /\ phase \notin {"render", "parse"} /\ phase' \notin {"render", "parse"}
        /\ UNCHANGED <<kind, blocks, parser>>
    BY <1>7 DEF WriteHeading, WriteBlock, Writing, StartCutting, Cut, Validate, buildVars
  <2>2. Tree(parser'.nodes, Len(blocks'))
    BY <2>1 DEF PageOK
  <2> QED BY <2>1, <2>2, SameTree DEF PageOK, SameFile
<1>8. CASE UNCHANGED vars
  <2>1. UNCHANGED <<kind, blocks, phase, at, html, open, parser>>
    BY <1>8 DEF vars, buildVars
  <2>2. /\ phase' = "render" => parser' = NewParser /\ Rendered(html', open', at')
        /\ phase' = "parse" => Parsing(html', parser', at', Len(blocks'))
        /\ phase' \notin {"render", "parse"} => Tree(parser'.nodes, Len(blocks'))
    BY <2>1 DEF PageOK
  <2> QED BY <2>1, <2>2, SameRendered, SameParsing, SameTree DEF PageOK, SameFile
<1> QED BY <1>1, <1>2, <1>3, <1>4, <1>5, <1>6, <1>7, <1>8 DEF Next

(* The tags of the open elements.                                          *)
TagsOf(p, tags) == tags = [k \in DOMAIN p.stack |-> p.nodes[p.stack[k]].tag]

LEMMA OpenTags ==
  ASSUME NEW p, ParserOK(p), NEW n \in Nat, n = Len(p.stack), NEW tags, TagsOf(p, tags)
  PROVE  /\ tags \in Seq(Tag) /\ Len(tags) = n
         /\ \A k \in 1 .. n : tags[k] = p.nodes[p.stack[k]].tag
<1>1. DOMAIN p.stack = 1 .. n
  BY ParserFields
<1>2. tags = [k \in 1 .. n |-> tags[k]] /\ \A k \in 1 .. n : tags[k] = p.nodes[p.stack[k]].tag
  BY <1>1 DEF TagsOf
<1>3. \A k \in 1 .. n : tags[k] \in Tag
  BY <1>2, ParserFields, NodeFields DEF ParserOK
<1> QED BY <1>2, <1>3, SeqBy

LEMMA BalancedFollows == BuildOK /\ PageOK => Balanced
<1> SUFFICES ASSUME BuildOK, PageOK, phase = "parse", NEW tags, TagsOf(parser, tags)
             PROVE  /\ at < Len(html) /\ html[at + 1].do = "close"
                           => tags # <<>> /\ Last(tags) = html[at + 1].tag
                    /\ at = Len(html) => tags = <<>>
  BY DEF Balanced, TagsOf
<1>1. Parsing(html, parser, at, Len(blocks)) /\ ParserOK(parser) /\ at \in Nat
  BY DEF PageOK, BuildOK, HtmlOK
<1>2. PICK t : /\ t[0] = NewParser /\ Trace(t, html) /\ t[at] = parser
               /\ t[Len(html)].stack = <<>>
  BY <1>1 DEF Parsing
<1>3. Len(html) \in Nat
  BY <1>1 DEF Parsing, Tokenized
<1>4. parser.stack \in Seq(Nat) /\ DOMAIN parser.stack = 1 .. Len(parser.stack) /\ Len(parser.stack) \in Nat
  BY <1>1, ParserFields
<1>5. PICK n \in Nat : n = Len(parser.stack) /\ DOMAIN parser.stack = 1 .. n
  BY <1>4
<1>7. /\ tags \in Seq(Tag) /\ Len(tags) = n
      /\ \A k \in 1 .. n : tags[k] = parser.nodes[parser.stack[k]].tag
  BY <1>1, <1>5, OpenTags
<1>8. ASSUME at < Len(html), html[at + 1].do = "close"
      PROVE  tags # <<>> /\ Last(tags) = html[at + 1].tag
  <2>1. PICK j \in 1 .. Len(html) : j = at + 1 /\ j - 1 = at
    BY <1>1, <1>3, <1>8
  <2>2. Strictly(parser, html[j])
    BY <1>2, <2>1 DEF Trace
  <2>3. parser.stack # <<>> /\ parser.nodes[Last(parser.stack)].tag = html[j].tag
    BY <1>8, <2>1, <2>2 DEF Strictly
  <2>4. Last(parser.stack) = parser.stack[n] /\ n \in 1 .. n
    BY <1>4, <1>5, <2>3, LastOf
  <2>5. tags # <<>>
    BY <1>7, <2>4
  <2>6. Last(tags) = tags[n]
    BY <1>7, <2>5, LastOf
  <2> QED BY <1>7, <2>1, <2>3, <2>4, <2>5, <2>6
<1>9. ASSUME at = Len(html) PROVE tags = <<>>
  <2>1. n = 0
    BY <1>2, <1>5, <1>9
  <2> QED BY <1>7, <2>1
<1> QED BY <1>8, <1>9

-----------------------------------------------------------------------------
(* What the nodes of a tree tell, and of which block.                      *)
LEMMA MadeOfIs ==
  ASSUME NEW text \in Texts, NEW i \in Nat, \A c \in Range(text) : c[1] \in {0, i}
  PROVE  /\ MadeOf(text) \in {0, i}
         /\ (\E c \in Range(text) : c[1] = i) => MadeOf(text) = i
<1> DEFINE T == {c[1] : c \in Range(text)} \cup {0}
<1>1. \A y \in T : y \in {0, i} /\ y \in Nat /\ y <= i
  OBVIOUS
<1>2. T \in SUBSET Nat /\ T # {}
  BY <1>1
<1>3. MadeOf(text) = Max(T)
  BY DEF MadeOf
<1>4. (\E c \in Range(text) : c[1] = i) => i \in T
  OBVIOUS
<1> HIDE DEF T
<1>5. Max(T) \in T /\ \A y \in T : y <= Max(T)
  BY <1>1, <1>2, Greatest
<1>6. Max(T) \in {0, i} /\ Max(T) <= i /\ Max(T) \in Nat
  BY <1>1, <1>5
<1>7. (\E c \in Range(text) : c[1] = i) => Max(T) = i
  BY <1>4, <1>5, <1>6
<1> QED BY <1>3, <1>6, <1>7

LEMMA PartOwn ==
  ASSUME NEW nodes, NEW src, NEW n, Traced(nodes, src, n), NEW d, NEW x \in 1 .. Len(nodes),
         d \in Range(nodes[x].within), nodes[d].tag \notin Structure
  PROVE  src[x] = src[d] /\ d \in 1 .. Len(nodes)
  BY DEF Traced, NodeOK, AncestorOK

LEMMA TextOwn ==
  ASSUME NEW nodes \in Seq(NodeSet), NEW src, NEW n, Traced(nodes, src, n),
         NEW x, nodes[x].tag \notin Structure, NEW c \in Range(NodeText(nodes, x))
  PROVE  c[1] = src[x]
<1>1. PICK y \in 1 .. Len(nodes) : x \in Range(nodes[y].within) /\ c \in Range(nodes[y].text)
  BY NodeTextIs
<1>2. src[y] = src[x]
  BY <1>1, PartOwn
<1> QED BY <1>1, <1>2 DEF Traced, NodeOK

LEMMA BlockTagNot ==
  ASSUME NEW node, IsBlockNode(node)
  PROVE  node.tag \notin Structure
  BY StructureTags DEF IsBlockNode

LEMMA UnderOwn ==
  ASSUME NEW nodes \in Seq(NodeSet), NEW src, NEW n, Traced(nodes, src, n),
         NEW d \in 1 .. Len(nodes), IsBlockNode(nodes[d]),
         NEW x \in 1 .. Len(nodes), Under(nodes, d, x)
  PROVE  nodes[x].tag \notin Structure /\ src[x] = src[d]
<1>1. \A tag \in {"li", "caption", "tr", "th", "td"} : tag \notin Structure
  BY DEF Structure
<1>2. nodes[d].tag \notin Structure
  BY BlockTagNot
<1>3. CASE x = d
  BY <1>2, <1>3
<1>4. CASE PartOf(nodes, d, x)
  BY <1>1, <1>2, <1>4, PartOwn DEF PartOf
<1>5. ASSUME NEW y \in 1 .. Len(nodes), PartOf(nodes, d, y), PartOf(nodes, y, x)
      PROVE  nodes[x].tag \notin Structure /\ src[x] = src[d]
  <2>1. nodes[y].tag \notin Structure /\ src[y] = src[d]
    BY <1>1, <1>2, <1>5, PartOwn DEF PartOf
  <2> QED BY <1>1, <1>5, <2>1, PartOwn DEF PartOf
<1> QED BY <1>3, <1>4, <1>5 DEF Under

LEMMA FromOwn ==
  ASSUME NEW nodes \in Seq(NodeSet), NEW src, NEW n, Traced(nodes, src, n),
         NEW d \in 1 .. Len(nodes), IsBlockNode(nodes[d]), NEW text, From(nodes, d, text)
  PROVE  text \in Texts /\ \A c \in Range(text) : c[1] \in {0, src[d]}
<1> SUFFICES ASSUME NEW c \in Range(text) PROVE c[1] \in {0, src[d]}
  BY DEF From
<1>1. CASE c = Mark
  BY <1>1 DEF Mark
<1>2. ASSUME NEW x \in 1 .. Len(nodes), Under(nodes, d, x), c \in Range(NodeText(nodes, x))
      PROVE  c[1] = src[d]
  <2>1. nodes[x].tag \notin Structure /\ src[x] = src[d]
    BY <1>2, UnderOwn
  <2> QED BY <1>2, <2>1, TextOwn
<1> QED BY <1>1, <1>2 DEF From

(* The directory of a heading is named after its block.                    *)
LEMMA HeadingSays ==
  ASSUME NEW nodes \in Seq(NodeSet), NEW src, NEW n \in Nat, Traced(nodes, src, n),
         NEW d \in 1 .. Len(nodes), nodes[d].tag \in HeadingTags
  PROVE  /\ NodeText(nodes, d) \in Texts /\ MadeOf(NodeText(nodes, d)) = src[d]
         /\ src[d] \in Headings /\ src[d] \in 1 .. Len(blocks)
         /\ OutlineLevel(src[d]) \in 1 .. 6 /\ nodes[d].tag = HeadingTag[OutlineLevel(src[d])]
<1>1. IsBlockNode(nodes[d])
  BY DEF IsBlockNode
<1>2. BlockNodeOK(nodes, src, d)
  BY <1>1 DEF Traced, NodeOK
<1>3. /\ src[d] \in 1 .. Len(blocks) /\ OutlineLevel(src[d]) > 0
      /\ OutlineLevel(src[d]) \in 1 .. 6 /\ nodes[d].tag = HeadingTag[OutlineLevel(src[d])]
  BY <1>2 DEF BlockNodeOK
<1>4. PICK c : Tells(nodes, d, c)
  BY <1>2, <1>3 DEF BlockNodeOK
<1>5. Shown(nodes, d, c)
  <2>1. nodes[d].tag # "ul" /\ nodes[d].tag # "table"
    BY TagKinds DEF BlockTags
  <2> QED BY <1>4, <2>1 DEF Tells
<1>6. c \in Range(NodeText(nodes, d))
  BY <1>5, NodeTextIs DEF Shown
<1>7. nodes[d].tag \notin Structure
  BY <1>1, BlockTagNot
<1>8. NodeText(nodes, d) \in Texts /\ \A e \in Range(NodeText(nodes, d)) : e[1] = src[d]
  BY <1>7, NodeTextIs, TextOwn
<1>9. src[d] \in Nat
  BY <1>3
<1>10. MadeOf(NodeText(nodes, d)) = src[d]
  BY <1>6, <1>8, <1>9, MadeOfIs
<1> QED BY <1>3, <1>8, <1>10 DEF Headings, Block

-----------------------------------------------------------------------------
(* What a node tells is written for it.                                    *)
Said(nodes, d) == IF nodes[d].tag \in HeadingTags THEN NodeText(nodes, d) ELSE Markdown(nodes, d)

LEMMA ShownText ==
  ASSUME NEW nodes \in Seq(NodeSet), NEW x, NEW c, Shown(nodes, x, c)
  PROVE  c \in Range(NodeText(nodes, x))
  BY NodeTextIs DEF Shown

LEMMA ListSaid ==
  ASSUME NEW nodes \in Seq(NodeSet), NEW d, NEW all, NEW c \in all, Holding(nodes, d, "li", all)
  PROVE  c \in Range(ListMarkdown(ListItems(nodes, d)))
<1>1. PICK x : ChildOf(nodes, x, d, "li") /\ Shown(nodes, x, c)
  BY DEF Holding
<1>2. PICK kids : kids = ChildrenOf(nodes, d, {"li"})
  OBVIOUS
<1>3. x \in Range(kids)
  BY <1>1, <1>2, ChildrenIs DEF ChildOf
<1>4. kids \in Seq(Nat)
  BY <1>2, ChildrenIs
<1>5. PICK k \in 1 .. Len(kids) : kids[k] = x
  BY <1>3, <1>4 DEF Range
<1>6. /\ ListItems(nodes, d) \in Seq(Texts) /\ k \in 1 .. Len(ListItems(nodes, d))
      /\ ListItems(nodes, d)[k] = NodeText(nodes, x)
  BY <1>2, <1>5, ItemsTyped
<1>7. c \in Range(ListItems(nodes, d)[k])
  BY <1>1, <1>6, ShownText
<1> QED BY <1>6, <1>7, ListMarkdownIs

(* A cell of a table, and its place among the lines.                       *)
LEMMA CellSaid ==
  ASSUME NEW nodes \in Seq(NodeSet), NEW d, NEW all, Goal(nodes, d, "row", all)
  PROVE  \E k \in 1 .. Len(TableGrid(nodes, d)) : \E j \in 1 .. Len(TableGrid(nodes, d)[k]) :
            \A c \in all : c \in Range(TableGrid(nodes, d)[k][j])
<1>1. PICK z : ChildOf(nodes, z, d, "tr") /\ Holding(nodes, z, "td", all)
  BY DEF Goal
<1>2. PICK x : ChildOf(nodes, x, z, "td") /\ \A c \in all : Shown(nodes, x, c)
  BY <1>1 DEF Holding
<1>3. PICK rows : rows = TableRows(nodes, d)
  OBVIOUS
<1>4. d \in Range(nodes[z].within)
  <2>1. nodes[z].within \in Seq(Nat)
    BY <1>1, NodeFields DEF ChildOf
  <2> QED BY <1>1, <2>1, LastOf DEF ChildOf
<1>5. z \in Range(rows) /\ rows \in Seq(Nat)
  BY <1>1, <1>3, <1>4, RowsOf DEF ChildOf
<1>6. PICK r \in 1 .. Len(rows) : rows[r] = z
  BY <1>5 DEF Range
<1>7. PICK cells : cells = CellsOf(nodes, rows, r)
  OBVIOUS
<1>8. x \in Range(cells) /\ cells \in Seq(Nat)
  BY <1>2, <1>6, <1>7, ChildrenIs DEF CellsOf, ChildOf
<1>9. PICK i \in 1 .. Len(cells) : cells[i] = x
  BY <1>8 DEF Range
<1>10. PICK slots : slots = TableSlots(nodes, d)
  OBVIOUS
<1>11. PICK col \in Nat : <<r, col>> \in DOMAIN slots /\ slots[<<r, col>>] = NodeText(nodes, x)
  BY <1>3, <1>6, <1>7, <1>9, <1>10, SlotsIs
<1>12. PICK s : s = <<r, col>>
  OBVIOUS
<1>13. s \in DOMAIN slots /\ slots[s] = NodeText(nodes, x) /\ s[1] \in 1 .. Len(rows)
  <2>1. s[1] = r
    BY <1>12
  <2> QED BY <1>6, <1>11, <1>12, <2>1
<1>14. PICK k \in 1 .. Len(TableGrid(nodes, d)) : \E j \in 1 .. Len(TableGrid(nodes, d)[k]) :
          TableGrid(nodes, d)[k][j] = slots[s]
  <2>1. GridHolds(TableGrid(nodes, d), slots, rows)
    BY <1>3, <1>10, GridIs
  <2> QED BY <1>13, <2>1 DEF GridHolds
<1>15. \A c \in all : c \in Range(NodeText(nodes, x))
  BY <1>2, ShownText
<1> QED BY <1>13, <1>14, <1>15

(* The caption, which is the same text wherever a caption has one.         *)
LEMMA CaptionSaid ==
  ASSUME NEW nodes \in Seq(NodeSet), NEW src, NEW n, Traced(nodes, src, n),
         NEW d \in 1 .. Len(nodes), IsBlockNode(nodes[d]),
         NEW all, NEW c \in all, Holding(nodes, d, "caption", all)
  PROVE  c \in Range(TableLabel(nodes, d))
<1> DEFINE only == <<src[d], 0, 0>>
<1>1. PICK x : ChildOf(nodes, x, d, "caption") /\ Shown(nodes, x, c)
  BY DEF Holding
<1>2. x \in 1 .. Len(nodes) /\ nodes[x].tag = "caption" /\ d \in Range(nodes[x].within)
  <2>1. nodes[x].within \in Seq(Nat)
    BY <1>1, NodeFields DEF ChildOf
  <2> QED BY <1>1, <2>1, LastOf DEF ChildOf
<1>3. c \in Range(NodeText(nodes, x))
  BY <1>1, ShownText
<1>4. NodeText(nodes, x) # <<>>
  BY <1>3 DEF Range
<1>5. x \in CaptionsOf(nodes, d)
  BY <1>2, <1>4 DEF CaptionsOf
<1>6. PICK m \in CaptionsOf(nodes, d) : TableLabel(nodes, d) = NodeText(nodes, m)
  BY <1>5, LabelIs
<1>7. ASSUME NEW y \in CaptionsOf(nodes, d), NEW e \in Range(NodeText(nodes, y)) PROVE e = only
  <2>1. y \in 1 .. Len(nodes) /\ nodes[y].tag = "caption" /\ d \in Range(nodes[y].within)
    BY DEF CaptionsOf
  <2>2. PICK z \in 1 .. Len(nodes) : y \in Range(nodes[z].within) /\ e \in Range(nodes[z].text)
    BY NodeTextIs
  <2>3. nodes[y].tag \notin Structure
    BY <2>1, StructureTags
  <2>4. src[z] = src[y]
    BY <2>2, <2>3, PartOwn
  <2>5. src[y] = src[d]
    BY <2>1, BlockTagNot, PartOwn
  <2>6. AncestorOK(nodes, src, z, y)
    BY <2>2 DEF Traced, NodeOK
  <2> QED BY <2>1, <2>2, <2>4, <2>5, <2>6 DEF AncestorOK
<1>8. \E e : e \in Range(NodeText(nodes, m))
  <2>1. NodeText(nodes, m) # <<>> /\ NodeText(nodes, m) \in Texts
    BY <1>6, NodeTextIs DEF CaptionsOf
  <2>2. 1 \in DOMAIN NodeText(nodes, m)
    BY <2>1 DEF Texts
  <2> QED BY <2>2 DEF Range
<1>9. c = only /\ only \in Range(NodeText(nodes, m))
  BY <1>3, <1>5, <1>6, <1>7, <1>8
<1> QED BY <1>6, <1>9

LEMMA TableSaid ==
  ASSUME NEW nodes \in Seq(NodeSet), NEW src, NEW n, Traced(nodes, src, n),
         NEW d \in 1 .. Len(nodes), IsBlockNode(nodes[d]), NEW c,
         \/ \E all : c \in all /\ Goal(nodes, d, "row", all)
         \/ /\ \E all : Goal(nodes, d, "row", all)
            /\ \E all : c \in all /\ Holding(nodes, d, "caption", all)
  PROVE  c \in Range(TableMarkdown(TableLabel(nodes, d), TableGrid(nodes, d)))
<1>1. PICK label : label = TableLabel(nodes, d) /\ label \in Texts
  BY LabelIs
<1>2. PICK grid : grid = TableGrid(nodes, d) /\ grid \in Seq(Seq(Texts))
  BY GridIs DEF GridHolds
<1>3. ASSUME NEW all, c \in all, Goal(nodes, d, "row", all)
      PROVE  c \in Range(TableMarkdown(label, grid))
  <2>1. PICK k \in 1 .. Len(grid) : \E j \in 1 .. Len(grid[k]) : c \in Range(grid[k][j])
    BY <1>2, <1>3, CellSaid
  <2> QED BY <1>1, <1>2, <2>1, GridTextIs
<1>4. ASSUME NEW all, Goal(nodes, d, "row", all), NEW other, c \in other, Holding(nodes, d, "caption", other)
      PROVE  c \in Range(TableMarkdown(label, grid))
  <2>1. PICK k \in 1 .. Len(grid) : TRUE
    BY <1>2, <1>4, CellSaid
  <2>2. c \in Range(label)
    BY <1>1, <1>4, CaptionSaid
  <2> QED BY <1>1, <1>2, <2>1, <2>2, GridTextIs
<1> QED BY <1>1, <1>2, <1>3, <1>4

LEMMA TellsSaid ==
  ASSUME NEW nodes \in Seq(NodeSet), NEW src, NEW n, Traced(nodes, src, n),
         NEW d \in 1 .. Len(nodes), IsBlockNode(nodes[d]), NEW c, Tells(nodes, d, c)
  PROVE  c \in Range(Said(nodes, d))
<1>1. /\ "p" \notin HeadingTags /\ "ul" \notin HeadingTags /\ "table" \notin HeadingTags
  BY TagKinds DEF BlockTags
<1>2. CASE nodes[d].tag \in HeadingTags
  BY <1>1, <1>2, ShownText DEF Tells, Said
<1>3. CASE nodes[d].tag = "p"
  BY <1>1, <1>3, ShownText DEF Tells, Said, Markdown
<1>4. CASE nodes[d].tag = "ul"
  <2>1. Said(nodes, d) = ListMarkdown(ListItems(nodes, d))
    BY <1>1, <1>4 DEF Said, Markdown
  <2>2. PICK all : c \in all /\ Holding(nodes, d, "li", all)
    BY <1>1, <1>4 DEF Tells
  <2> QED BY <2>1, <2>2, ListSaid
<1>5. CASE nodes[d].tag = "table"
  <2>1. Said(nodes, d) = TableMarkdown(TableLabel(nodes, d), TableGrid(nodes, d))
    BY <1>1, <1>5 DEF Said, Markdown
  <2>2. \/ \E all : c \in all /\ Goal(nodes, d, "row", all)
        \/ /\ \E all : Goal(nodes, d, "row", all)
           /\ \E all : c \in all /\ Holding(nodes, d, "caption", all)
    BY <1>1, <1>5 DEF Tells
  <2> QED BY <2>1, <2>2, TableSaid
<1> QED BY <1>2, <1>3, <1>4, <1>5 DEF Tells

-----------------------------------------------------------------------------
(* The outline: the headings that a block behind x stands under, unless    *)
(* there is another heading on the way to it.                              *)
Standing(x) ==
  {h \in Headings : h <= x /\ \A g \in Headings \cap (h + 1 .. x) : OutlineLevel(g) > OutlineLevel(h)}

Quiet(x, y) == \A h \in Headings : ~(x < h /\ h <= y)

Listing(heads, S) ==
  /\ heads \in Seq(Nat) /\ \A h : h \in Range(heads) <=> h \in S
  /\ \A i, j \in 1 .. Len(heads) : i < j => heads[i] < heads[j]

LEMMA HeadingIs ==
  ASSUME NEW h \in Headings
  PROVE  /\ h \in 1 .. Len(blocks) /\ h \in Nat /\ Renders(blocks[h])
         /\ OutlineLevel(h) \in 1 .. 6 /\ OutlineLevel(h) > 0 /\ OutlineLevel(h) \in Nat
<1>1. h \in 1 .. Len(blocks) /\ h \in Nat /\ OutlineLevel(h) > 0
  BY DEF Headings, Block
<1>2. PICK level : level = IF kind = "pdf" THEN HeadingLevel(blocks, blocks[h]) ELSE blocks[h].level
  OBVIOUS
<1>3. OutlineLevel(h) = IF Renders(blocks[h]) /\ level \in 1 .. (IF kind = "pdf" THEN 3 ELSE 6)
                        THEN level ELSE 0
  BY <1>2 DEF OutlineLevel
<1> QED BY <1>1, <1>3

(* The directory of a heading shows it.                                    *)
Naming(slug, h) ==
  LET shown == Placed(h) \ (Barred \cup Trimmed)
  IN /\ MadeOf(slug) = h \/ (MadeOf(slug) = 0 /\ shown = {})
     /\ Len(slug) < NameLimit => shown \subseteq Range(slug)

LEMMA NamingIs == \A name, h : NamedAfter(name, h) <=> Naming(name.base.slug, h)
  BY DEF NamedAfter, Naming

LEMMA HeadingNamed ==
  ASSUME NEW nodes \in Seq(NodeSet), NEW src, Len(blocks) \in Nat,
         Traced(nodes, src, Len(blocks)), Complete(nodes, src, Len(blocks)),
         NEW d \in 1 .. Len(nodes), nodes[d].tag \in HeadingTags
  PROVE  SlugText(NodeText(nodes, d)) \in Texts /\ Naming(SlugText(NodeText(nodes, d)), src[d])
<1>1. PICK i : i = src[d]
  OBVIOUS
<1>2. PICK text : text = NodeText(nodes, d)
  OBVIOUS
<1>3. PICK slug : slug = SlugText(text)
  OBVIOUS
<1>4. text \in Texts /\ i \in Headings /\ i \in 1 .. Len(blocks) /\ i \in Nat /\ Renders(blocks[i])
  BY <1>1, <1>2, HeadingSays, HeadingIs
<1>5. IsBlockNode(nodes[d]) /\ nodes[d].tag \notin Structure
  <2>1. IsBlockNode(nodes[d])
    BY DEF IsBlockNode
  <2> QED BY <2>1, BlockTagNot
<1>6. \A c \in Range(text) : c[1] = i
  BY <1>1, <1>2, <1>5, TextOwn
<1>7. ASSUME NEW c \in Placed(i) PROVE c \in Range(text)
  <2>1. PICK e \in 1 .. Len(nodes) : src[e] = i /\ IsBlockNode(nodes[e]) /\ Tells(nodes, e, c)
    BY <1>4, <1>7 DEF Complete
  <2>2. e = d
    BY <1>1, <1>5, <2>1 DEF Traced, Alone
  <2>3. nodes[d].tag # "ul" /\ nodes[d].tag # "table"
    BY TagKinds DEF BlockTags
  <2>4. Shown(nodes, d, c)
    BY <2>1, <2>2, <2>3 DEF Tells
  <2> QED BY <1>2, <2>4, ShownText
<1>8. /\ slug \in Texts /\ \A c \in Range(slug) : c \in Range(text) \/ c \in {Dash, NoName}
      /\ (\E c \in Range(text) : Solid(c)) => \E c \in Range(slug) : c \in Range(text) /\ Solid(c)
      /\ Len(slug) < NameLimit => \A c \in Range(text) : Solid(c) => c \in Range(slug)
  BY <1>3, <1>4, SlugIs
<1>9. PICK shown : shown = Placed(i) \ (Barred \cup Trimmed)
  OBVIOUS
<1>10. \A c \in shown : c \in Range(text) /\ Solid(c)
  BY <1>7, <1>9 DEF Solid
<1>11. \A c \in Range(slug) : c[1] \in {0, i}
  <2>1. Dash[1] = 0 /\ NoName[1] = 0
    BY DEF Dash, NoName
  <2> QED BY <1>6, <1>8, <2>1
<1>12. MadeOf(slug) \in {0, i} /\ ((\E c \in Range(slug) : c[1] = i) => MadeOf(slug) = i)
  BY <1>4, <1>8, <1>11, MadeOfIs
<1>13. shown # {} => MadeOf(slug) = i
  BY <1>6, <1>8, <1>10, <1>12
<1>14. Len(slug) < NameLimit => shown \subseteq Range(slug)
  BY <1>8, <1>10
<1> QED BY <1>1, <1>2, <1>3, <1>8, <1>9, <1>12, <1>13, <1>14 DEF Naming

LEMMA StandingQuiet ==
  ASSUME NEW x \in Nat, NEW y \in Nat, x <= y, Quiet(x, y)
  PROVE  Standing(y) = Standing(x)
<1>1. \A h \in Headings : h \in Nat /\ OutlineLevel(h) \in Nat /\ (h <= x <=> h <= y)
  BY HeadingIs DEF Quiet
<1>2. ASSUME NEW h \in Headings
      PROVE  Headings \cap (h + 1 .. x) = Headings \cap (h + 1 .. y)
  BY <1>1
<1>3. ASSUME NEW h PROVE h \in Standing(y) <=> h \in Standing(x)
  BY <1>1, <1>2 DEF Standing
<1> QED BY <1>3

LEMMA StandingFile ==
  ASSUME NEW i \in Nat, i \notin Headings
  PROVE  StandsUnder(i) = Standing(i)
<1>1. \A h \in Headings : h \in Nat /\ (h <= i <=> h < i)
  BY HeadingIs
<1>2. ASSUME NEW h \in Headings
      PROVE  Headings \cap (h + 1 .. i - 1) = Headings \cap (h + 1 .. i)
  BY <1>1
<1>3. ASSUME NEW h PROVE h \in StandsUnder(i) <=> h \in Standing(i)
  BY <1>1, <1>2 DEF Standing, StandsUnder
<1> QED BY <1>3

LEMMA StandingHeading ==
  ASSUME NEW i \in Headings, NEW x \in Nat, x < i, Quiet(x, i - 1)
  PROVE  \A h : h \in Standing(i) <=> \/ h = i
                                      \/ h \in Standing(x) /\ OutlineLevel(h) < OutlineLevel(i)
<1>1. i \in Nat /\ OutlineLevel(i) \in Nat
  BY HeadingIs
<1>2. \A h \in Headings : h \in Nat /\ OutlineLevel(h) \in Nat /\ (h <= i <=> h <= x \/ h = i)
  BY <1>1, HeadingIs DEF Quiet
<1>3. i \in Standing(i)
  BY <1>1, <1>2 DEF Standing
<1>4. ASSUME NEW h \in Headings, h <= x
      PROVE  \A g : g \in Headings \cap (h + 1 .. i) <=> g = i \/ g \in Headings \cap (h + 1 .. x)
  BY <1>1, <1>2, <1>4
<1>5. ASSUME NEW h, h # i
      PROVE  h \in Standing(i) <=> h \in Standing(x) /\ OutlineLevel(h) < OutlineLevel(i)
  BY <1>1, <1>2, <1>4, <1>5 DEF Standing
<1> QED BY <1>3, <1>5

LEMMA HeadsRise ==
  ASSUME NEW x \in Nat, NEW heads, Listing(heads, Standing(x))
  PROVE  /\ Len(heads) \in Nat
         /\ \A k \in 1 .. Len(heads) : heads[k] \in Standing(x) /\ heads[k] \in Headings /\ heads[k] <= x
         /\ \A j, k \in 1 .. Len(heads) : j < k => OutlineLevel(heads[j]) < OutlineLevel(heads[k])
<1>1. Len(heads) \in Nat /\ DOMAIN heads = 1 .. Len(heads)
  BY DEF Listing
<1>2. ASSUME NEW k \in 1 .. Len(heads)
      PROVE  heads[k] \in Standing(x) /\ heads[k] \in Headings /\ heads[k] <= x
  <2>1. heads[k] \in Range(heads)
    BY <1>1 DEF Range
  <2> QED BY <2>1 DEF Listing, Standing
<1>3. ASSUME NEW j \in 1 .. Len(heads), NEW k \in 1 .. Len(heads), j < k
      PROVE  OutlineLevel(heads[j]) < OutlineLevel(heads[k])
  <2>1. heads[j] < heads[k] /\ heads[k] <= x /\ heads[j] \in Standing(x) /\ heads[k] \in Headings
    BY <1>2, <1>3 DEF Listing
  <2>2. /\ heads[j] \in Nat /\ heads[k] \in Nat
        /\ OutlineLevel(heads[j]) \in Nat /\ OutlineLevel(heads[k]) \in Nat
    <3>1. heads[j] \in Headings /\ heads[k] \in Headings
      BY <1>2
    <3> QED BY <3>1, HeadingIs
  <2>3. heads[k] \in Headings \cap (heads[j] + 1 .. x)
    BY <2>1, <2>2
  <2>4. OutlineLevel(heads[k]) > OutlineLevel(heads[j])
    BY <2>1, <2>3 DEF Standing
  <2> QED BY <2>2, <2>4
<1> QED BY <1>1, <1>2, <1>3

(* A heading ends the sections that are not of smaller levels.             *)
HeadsCut(heads, more, m, i) ==
  /\ more \in Seq(Nat) /\ Len(more) = m + 1 /\ more[m + 1] = i
  /\ \A k \in 1 .. m : more[k] = heads[k]

LEMMA CutHeads ==
  ASSUME NEW x \in Nat, NEW heads, Listing(heads, Standing(x)),
         NEW i \in Headings, x < i, Quiet(x, i - 1), NEW m \in 0 .. Len(heads),
         m > 0 => OutlineLevel(heads[m]) < OutlineLevel(i),
         \A k \in (m + 1) .. Len(heads) : ~(OutlineLevel(heads[k]) < OutlineLevel(i)),
         NEW more, HeadsCut(heads, more, m, i)
  PROVE  Listing(more, Standing(i))
<1>1. /\ Len(heads) \in Nat /\ DOMAIN heads = 1 .. Len(heads) /\ m \in Nat
      /\ DOMAIN more = 1 .. (m + 1) /\ i \in Nat /\ OutlineLevel(i) \in Nat
  BY HeadingIs DEF Listing, HeadsCut
<1>2. \A k \in 1 .. Len(heads) : /\ heads[k] \in Standing(x) /\ heads[k] <= x /\ heads[k] \in Nat
                                 /\ OutlineLevel(heads[k]) \in Nat
  <2>1. \A k \in 1 .. Len(heads) : heads[k] \in Standing(x) /\ heads[k] \in Headings /\ heads[k] <= x
    BY HeadsRise
  <2> QED BY <2>1, HeadingIs
<1>3. ASSUME NEW k \in 1 .. Len(heads)
      PROVE  k <= m <=> OutlineLevel(heads[k]) < OutlineLevel(i)
  <2>1. CASE k > m
    BY <1>1, <2>1
  <2>2. CASE k = m
    BY <1>1, <2>2
  <2>3. CASE k < m
    <3>1. m \in 1 .. Len(heads) /\ m > 0
      BY <1>1, <2>3
    <3>2. OutlineLevel(heads[k]) < OutlineLevel(heads[m])
      BY <2>3, <3>1, HeadsRise
    <3> QED BY <1>1, <1>2, <2>3, <3>1, <3>2
  <2> QED BY <1>1, <2>1, <2>2, <2>3
<1>4. ASSUME NEW h PROVE h \in Range(more) <=> h \in Standing(i)
  <2>1. h \in Range(more) <=> h = i \/ \E k \in 1 .. m : h = heads[k]
    <3>1. h \in Range(more) <=> \E k \in 1 .. (m + 1) : h = more[k]
      BY <1>1 DEF Range
    <3>2. \A k \in 1 .. (m + 1) : k \in 1 .. m \/ k = m + 1
      BY <1>1
    <3>3. \A k \in 1 .. m : k \in 1 .. (m + 1)
      BY <1>1
    <3>4. m + 1 \in 1 .. (m + 1)
      BY <1>1
    <3> QED BY <3>1, <3>2, <3>3, <3>4 DEF HeadsCut
  <2>2. (\E k \in 1 .. m : h = heads[k])
          <=> \E k \in 1 .. Len(heads) : h = heads[k] /\ OutlineLevel(h) < OutlineLevel(i)
    BY <1>1, <1>3
  <2>3. h \in Standing(x) <=> \E k \in 1 .. Len(heads) : h = heads[k]
    <3>1. h \in Standing(x) <=> h \in Range(heads)
      BY DEF Listing
    <3> QED BY <1>1, <3>1 DEF Range
  <2>4. h \in Standing(i) <=> h = i \/ (h \in Standing(x) /\ OutlineLevel(h) < OutlineLevel(i))
    BY StandingHeading
  <2> QED BY <2>1, <2>2, <2>3, <2>4
<1>5. ASSUME NEW j \in 1 .. Len(more), NEW k \in 1 .. Len(more), j < k PROVE more[j] < more[k]
  <2>1. j \in 1 .. m /\ j \in 1 .. Len(heads) /\ more[j] = heads[j] /\ heads[j] <= x /\ heads[j] \in Nat
    BY <1>1, <1>2, <1>5 DEF HeadsCut
  <2>2. CASE k = m + 1
    BY <1>1, <2>1, <2>2 DEF HeadsCut
  <2>3. CASE k # m + 1
    <3>1. k \in 1 .. m /\ k \in 1 .. Len(heads)
      BY <1>1, <2>3 DEF HeadsCut
    <3>2. heads[j] < heads[k]
      BY <1>5, <2>1, <3>1 DEF Listing
    <3> QED BY <2>1, <3>1, <3>2 DEF HeadsCut
  <2> QED BY <2>2, <2>3
<1> QED BY <1>4, <1>5 DEF Listing, HeadsCut

-----------------------------------------------------------------------------
(* The block nodes are written in the order of their blocks: k of them     *)
(* have been, those of the blocks up to x.                                 *)
LEMMA BlockNodesAre ==
  ASSUME NEW nodes \in Seq(NodeSet), NEW src, NEW n, Traced(nodes, src, n),
         NEW order, order = BlockNodes(nodes)
  PROVE  /\ order \in Seq(Nat) /\ Len(order) \in Nat
         /\ \A d : d \in Range(order) <=> d \in 1 .. Len(nodes) /\ IsBlockNode(nodes[d])
         /\ \A i, j \in 1 .. Len(order) : i < j => order[i] < order[j]
<1> DEFINE S == {d \in DOMAIN nodes : /\ IsBlockNode(nodes[d])
                                      /\ \A a \in Range(nodes[d].within) : ~IsBlockNode(nodes[a])}
<1>1. order = InOrder(S, Len(nodes)) /\ Len(nodes) \in Nat /\ DOMAIN nodes = 1 .. Len(nodes)
  BY NodeFields DEF BlockNodes
<1>2. ASSUME NEW d \in 1 .. Len(nodes), IsBlockNode(nodes[d]), NEW a \in Range(nodes[d].within)
      PROVE  ~IsBlockNode(nodes[a])
  <2>1. nodes[a].tag \in Structure
    BY <1>2 DEF Traced, NodeOK, AncestorOK
  <2> QED BY <2>1, BlockTagNot
<1>3. \A d : d \in S <=> d \in 1 .. Len(nodes) /\ IsBlockNode(nodes[d])
  BY <1>1, <1>2
<1> HIDE DEF S
<1>4. /\ order \in Seq(Nat)
      /\ \A d : d \in Range(order) <=> d \in S /\ d \in 1 .. Len(nodes)
      /\ \A i, j \in 1 .. Len(order) : i < j => order[i] < order[j]
  BY <1>1, InOrderIs
<1> QED BY <1>3, <1>4

LEMMA OrderRises ==
  ASSUME NEW nodes \in Seq(NodeSet), NEW src, NEW n \in Nat, Traced(nodes, src, n),
         NEW order, order = BlockNodes(nodes)
  PROVE  /\ \A j \in 1 .. Len(order) : /\ order[j] \in 1 .. Len(nodes) /\ IsBlockNode(nodes[order[j]])
                                       /\ src[order[j]] \in 1 .. Len(blocks)
                                       /\ src[order[j]] \in Nat
         /\ \A i, j \in 1 .. Len(order) : i < j => src[order[i]] < src[order[j]]
<1>1. /\ order \in Seq(Nat)
      /\ \A d : d \in Range(order) <=> d \in 1 .. Len(nodes) /\ IsBlockNode(nodes[d])
      /\ \A i, j \in 1 .. Len(order) : i < j => order[i] < order[j]
  BY BlockNodesAre
<1>2. \A j \in 1 .. Len(order) : order[j] \in 1 .. Len(nodes) /\ IsBlockNode(nodes[order[j]])
  BY <1>1 DEF Range
<1>3. ASSUME NEW j \in 1 .. Len(order)
      PROVE  src[order[j]] \in 1 .. Len(blocks) /\ src[order[j]] \in Nat
  BY <1>2, <1>3 DEF Traced, NodeOK, BlockNodeOK
<1>4. ASSUME NEW i \in 1 .. Len(order), NEW j \in 1 .. Len(order), i < j
      PROVE  src[order[i]] < src[order[j]]
  <2>1. order[i] < order[j] /\ order[i] \in Nat /\ order[j] \in Nat
    BY <1>1, <1>4
  <2>2. order[i] <= order[j] /\ order[i] # order[j]
    BY <2>1
  <2>3. src[order[i]] <= src[order[j]]
    BY <1>2, <2>2 DEF Traced, SrcOK
  <2>4. src[order[i]] # src[order[j]]
    BY <1>2, <2>2 DEF Traced, Alone
  <2> QED BY <1>3, <2>3, <2>4
<1> QED BY <1>2, <1>3, <1>4

Ahead(order, src, k, x) ==
  /\ x \in 0 .. Len(blocks) /\ k \in 0 .. Len(order)
  /\ \A j \in 1 .. Len(order) : IF j <= k THEN src[order[j]] <= x ELSE x < src[order[j]]

LEMMA AheadFirst ==
  ASSUME NEW nodes \in Seq(NodeSet), NEW src, NEW n \in Nat, Traced(nodes, src, n), Len(blocks) \in Nat,
         NEW order, order = BlockNodes(nodes)
  PROVE  Ahead(order, src, 0, 0)
<1>1. \A j \in 1 .. Len(order) : ~(j <= 0)
  OBVIOUS
<1>2. Len(order) \in Nat
  BY BlockNodesAre
<1>3. \A j \in 1 .. Len(order) : src[order[j]] \in 1 .. Len(blocks)
  BY OrderRises
<1>4. \A j \in 1 .. Len(order) : 0 < src[order[j]]
  BY <1>3
<1> QED BY <1>1, <1>2, <1>4 DEF Ahead

(* The next node's block, with no heading on the way to it.                *)
AheadNext(order, src, k, x, i) == Ahead(order, src, k + 1, i) /\ x < i /\ Quiet(x, i - 1)

LEMMA AheadOn ==
  ASSUME NEW nodes \in Seq(NodeSet), NEW src, NEW n \in Nat, Traced(nodes, src, n),
         n = Len(blocks), Complete(nodes, src, n), NEW order, order = BlockNodes(nodes),
         NEW k \in Nat, NEW x, Ahead(order, src, k, x), NEW m \in 1 .. Len(order), m = k + 1,
         NEW i, i = src[order[m]]
  PROVE  AheadNext(order, src, k, x, i)
<1>1. /\ Len(order) \in Nat /\ x \in Nat /\ i \in Nat /\ i \in 1 .. Len(blocks)
      /\ \A j \in 1 .. Len(order) : src[order[j]] \in Nat
      /\ \A a, b \in 1 .. Len(order) : a < b => src[order[a]] < src[order[b]]
  <2>1. Len(order) \in Nat
    BY BlockNodesAre
  <2>2. /\ \A j \in 1 .. Len(order) : src[order[j]] \in 1 .. Len(blocks) /\ src[order[j]] \in Nat
        /\ \A a, b \in 1 .. Len(order) : a < b => src[order[a]] < src[order[b]]
    BY OrderRises
  <2>3. x \in Nat
    BY DEF Ahead
  <2> QED BY <2>1, <2>2, <2>3
<1>2. x < i
  BY <1>1 DEF Ahead
<1>3. ASSUME NEW j \in 1 .. Len(order)
      PROVE  IF j <= k + 1 THEN src[order[j]] <= i ELSE i < src[order[j]]
  <2>1. CASE j <= k
    BY <1>1, <1>2, <2>1 DEF Ahead
  <2>2. CASE j = m
    BY <1>1, <2>2
  <2>3. CASE j > m
    BY <1>1, <2>3
  <2> QED BY <2>1, <2>2, <2>3
<1>4. Ahead(order, src, k + 1, i)
  BY <1>1, <1>3 DEF Ahead
<1>5. ASSUME NEW h \in Headings, x < h, h <= i - 1 PROVE FALSE
  <2>1. h \in 1 .. n /\ Renders(blocks[h]) /\ OutlineLevel(h) > 0 /\ h \in Nat
    BY HeadingIs
  <2>2. PICK d \in 1 .. Len(nodes) : src[d] = h /\ IsBlockNode(nodes[d])
    BY <2>1 DEF Complete
  <2>3. d \in Range(order) /\ DOMAIN order = 1 .. Len(order)
    BY <2>2, BlockNodesAre
  <2>4. PICK j \in 1 .. Len(order) : order[j] = d
    BY <2>3 DEF Range
  <2>5. src[order[j]] = h
    BY <2>2, <2>4
  <2>6. CASE j <= k
    <3>1. h <= x
      BY <2>5, <2>6 DEF Ahead
    <3> QED BY <1>1, <1>5, <2>1, <3>1
  <2>7. CASE j = m
    BY <1>1, <1>5, <2>1, <2>5, <2>7
  <2>8. CASE j > m
    <3>1. i < h
      BY <1>1, <2>5, <2>8
    <3> QED BY <1>1, <1>5, <2>1, <3>1
  <2> QED BY <2>6, <2>7, <2>8
<1> QED BY <1>2, <1>4, <1>5 DEF AheadNext, Quiet

-----------------------------------------------------------------------------
(* The open sections follow the headings that the next block stands under; *)
(* each of their directories is the last one made in its own directory.    *)
DirNames(path, heads, m) == \A j \in 1 .. m : NamedAfter(path[j], heads[j])

Nested(secs) ==
  \A k \in 1 .. Len(secs) : /\ Len(secs[k][2]) = k - 1
                            /\ \A j \in 1 .. k : SubSeq(secs[k][2], 1, j - 1) = secs[j][2]

HeadsOf(secs, heads) ==
  /\ Len(secs) = Len(heads) + 1
  /\ \A k \in 1 .. Len(heads) : secs[k + 1][1] = OutlineLevel(heads[k])
  /\ \A k \in 1 .. Len(secs) : DirNames(secs[k][2], heads, k - 1)

LastDirs(secs, given) ==
  \A k \in 2 .. Len(secs) : secs[k][2][k - 1].base.number = Len(given[secs[k - 1][2]])

SectionsFollow(secs, given, heads) == Nested(secs) /\ HeadsOf(secs, heads) /\ LastDirs(secs, given)

LEMMA SubSub ==
  ASSUME NEW T, NEW s \in Seq(T), NEW n \in 0 .. Len(s), NEW m \in 0 .. n
  PROVE  SubSeq(SubSeq(s, 1, n), 1, m) = SubSeq(s, 1, m)
<1> DEFINE t == SubSeq(s, 1, n)
<1>0. Len(s) \in Nat /\ n \in Nat /\ m \in Nat /\ DOMAIN s = 1 .. Len(s)
  OBVIOUS
<1>1. /\ \A k \in 1 .. n : k \in 1 .. Len(s) /\ s[k] \in T
      /\ \A k \in 1 .. m : k \in 1 .. n
  BY <1>0
<1>2. t \in Seq(T) /\ Len(t) = n /\ \A k \in 1 .. n : t[k] = s[k]
  BY <1>0, <1>1, SubSeqProperties
<1> HIDE DEF t
<1>3. /\ SubSeq(t, 1, m) \in Seq(T) /\ Len(SubSeq(t, 1, m)) = m
      /\ \A k \in 1 .. m : SubSeq(t, 1, m)[k] = t[k]
  <2>1. \A k \in 1 .. m : k \in 1 .. Len(t)
    BY <1>1, <1>2
  <2> QED BY <1>0, <1>2, <2>1, SubSeqProperties
<1>4. /\ SubSeq(s, 1, m) \in Seq(T) /\ Len(SubSeq(s, 1, m)) = m
      /\ \A k \in 1 .. m : SubSeq(s, 1, m)[k] = s[k]
  <2>1. \A k \in 1 .. m : k \in 1 .. Len(s)
    BY <1>1
  <2> QED BY <1>0, <2>1, SubSeqProperties
<1>5. SubSeq(t, 1, m) = SubSeq(s, 1, m)
  BY <1>1, <1>2, <1>3, <1>4, SeqEqual
<1> QED BY <1>5 DEF t

LEMMA PathUnder ==
  ASSUME NEW path \in Seq(GivenName), NEW dir \in Seq(GivenName), Len(path) = Len(dir) + 1,
         SubSeq(path, 1, Len(dir)) = dir
  PROVE  /\ \A m \in 0 .. Len(dir) : SubSeq(path, 1, m) = SubSeq(dir, 1, m)
         /\ \A j \in 1 .. Len(dir) : path[j] = dir[j]
         /\ SubSeq(path, 1, Len(path)) = path
<1>0. Len(dir) \in Nat /\ Len(path) \in Nat /\ Len(dir) \in 0 .. Len(path)
  OBVIOUS
<1>1. ASSUME NEW m \in 0 .. Len(dir) PROVE SubSeq(path, 1, m) = SubSeq(dir, 1, m)
  <2>1. SubSeq(SubSeq(path, 1, Len(dir)), 1, m) = SubSeq(path, 1, m)
    BY <1>0, SubSub
  <2> QED BY <2>1
<1>2. \A j \in 1 .. Len(dir) : SubSeq(path, 1, Len(dir))[j] = path[j]
  <2>1. \A k \in 1 .. Len(dir) : k \in 1 .. Len(path)
    BY <1>0
  <2> QED BY <1>0, <2>1, SubSeqProperties
<1>3. SubSeq(path, 1, Len(path)) = path
  BY SubSeqProperties
<1> QED BY <1>1, <1>2, <1>3

(* The directory of a new name, when names are given in the m-th section.  *)
LEMMA OtherDirs ==
  ASSUME SectionsOK, NamesOK(names), Nested(sections), NEW m \in 1 .. Len(sections),
         NEW dir, dir = sections[m][2], NEW slug \in Texts, NEW suffix \in {NoSuffix, ".md"},
         NEW after, after = AfterName(names, dir, slug, suffix)
  PROVE  \A k \in 1 .. Len(sections) : k # m => after[sections[k][2]] = names[sections[k][2]]
<1> SUFFICES ASSUME NEW k \in 1 .. Len(sections), k # m
             PROVE  after[sections[k][2]] = names[sections[k][2]]
  OBVIOUS
<1>1. sections[k][2] \in DOMAIN names /\ dir \in DOMAIN names
  BY DEF SectionsOK
<1>2. Len(sections[k][2]) = k - 1 /\ Len(dir) = m - 1
  BY DEF Nested
<1>3. sections[k][2] # dir
  <2>1. k \in Nat /\ m \in Nat
    BY DEF SectionsOK
  <2> QED BY <1>2, <2>1
<1> QED BY <1>1, <1>3, NameIs

-----------------------------------------------------------------------------
(* A heading's section.                                                    *)
Follows(secs, given, x) ==
  \E heads : Listing(heads, Standing(x)) /\ SectionsFollow(secs, given, heads)

Kept(secs, m, level, path) ==
  /\ Len(secs) = m + 1 /\ secs[m + 1][1] = level /\ secs[m + 1][2] = path
  /\ \A k \in 1 .. m : secs[k] = sections[k]

LEMMA HeadsFor ==
  ASSUME SectionsOK, NEW heads, NEW x \in Nat, Listing(heads, Standing(x)), HeadsOf(sections, heads),
         NEW i \in Headings, x < i, Quiet(x, i - 1), NEW level, level = OutlineLevel(i),
         NEW m \in 1 .. Len(sections), sections[m][1] < level,
         \A k \in (m + 1) .. Len(sections) : ~(sections[k][1] < level)
  PROVE  \E more : /\ Listing(more, Standing(i)) /\ Len(more) = m /\ more[m] = i
                   /\ \A k \in 1 .. m - 1 : more[k] = heads[k]
<1>1. /\ Len(heads) \in Nat /\ Len(sections) = Len(heads) + 1
      /\ \A k \in 1 .. Len(heads) : sections[k + 1][1] = OutlineLevel(heads[k])
  BY HeadsRise DEF HeadsOf
<1>2. PICK h \in 0 .. Len(heads) : h = m - 1 /\ h + 1 = m
  BY <1>1
<1>3. PICK more : more = [k \in 1 .. m |-> IF k = m THEN i ELSE heads[k]]
  OBVIOUS
<1>4. more[m] = i /\ \A k \in 1 .. m - 1 : more[k] = heads[k]
  BY <1>3
<1>5. more \in Seq(Nat) /\ Len(more) = m
  <2>1. more = [k \in 1 .. m |-> more[k]] /\ m \in Nat
    BY <1>3
  <2>2. ASSUME NEW k \in 1 .. m PROVE more[k] \in Nat
    <3>1. CASE k = m
      BY <1>4, <3>1, HeadingIs
    <3>2. CASE k # m
      <4>1. k \in 1 .. m - 1 /\ k \in 1 .. Len(heads)
        BY <1>1, <3>2
      <4>2. more[k] = heads[k]
        BY <1>4, <4>1
      <4>3. heads \in Seq(Nat)
        BY DEF Listing
      <4>4. heads[k] \in Nat
        BY <4>1, <4>3
      <4> QED BY <4>2, <4>4
    <3> QED BY <3>1, <3>2
  <2> QED BY <2>1, <2>2, SeqBy
<1>6. HeadsCut(heads, more, h, i)
  BY <1>2, <1>4, <1>5 DEF HeadsCut
<1>7. h > 0 => OutlineLevel(heads[h]) < OutlineLevel(i)
  <2>1. h > 0 => h \in 1 .. Len(heads)
    BY <1>1, <1>2
  <2>2. h > 0 => sections[h + 1][1] = OutlineLevel(heads[h])
    BY <1>1, <2>1
  <2> QED BY <1>2, <2>2
<1>8. ASSUME NEW k \in (h + 1) .. Len(heads) PROVE ~(OutlineLevel(heads[k]) < OutlineLevel(i))
  <2>1. k \in 1 .. Len(heads)
    BY <1>1, <1>2
  <2>2. sections[k + 1][1] = OutlineLevel(heads[k])
    BY <1>1, <2>1
  <2>3. PICK j \in (m + 1) .. Len(sections) : j = k + 1
    BY <1>1, <1>2
  <2> QED BY <2>2, <2>3
<1>9. Listing(more, Standing(i))
  BY <1>6, <1>7, <1>8, CutHeads
<1> QED BY <1>4, <1>5, <1>9

LEMMA SectionAdded ==
  ASSUME SectionsOK, DirsOK(names), NEW x \in Nat, Follows(sections, names, x),
         NEW i \in Headings, x < i, Quiet(x, i - 1), NEW level, level = OutlineLevel(i),
         NEW m \in 1 .. Len(sections), sections[m][1] < level,
         \A k \in (m + 1) .. Len(sections) : ~(sections[k][1] < level),
         NEW dir, dir = sections[m][2], NEW slug \in Texts, Naming(slug, i),
         NEW after, after = AfterName(names, dir, slug, NoSuffix),
         NEW path, path = NewPath(names, dir, slug, NoSuffix),
         NEW given, given = With(after, path, <<>>),
         NEW secs, Kept(secs, m, level, path)
  PROVE  Follows(secs, given, i)
<1>1. PICK heads : Listing(heads, Standing(x)) /\ SectionsFollow(sections, names, heads)
  BY DEF Follows
<1>2. PICK more : /\ Listing(more, Standing(i)) /\ Len(more) = m /\ more[m] = i
                  /\ \A k \in 1 .. m - 1 : more[k] = heads[k]
  BY <1>1, HeadsFor DEF SectionsFollow
<1>3. dir \in DOMAIN names /\ NamesOK(names) /\ dir \in Seq(GivenName) /\ m \in Nat
  BY DEF SectionsOK, DirsOK, NamesOK
<1>4. /\ path \in Seq(GivenName) /\ Len(path) = Len(dir) + 1 /\ SubSeq(path, 1, Len(dir)) = dir
      /\ path[Len(path)].base.number = Len(names[dir]) + 1 /\ path[Len(path)].base.slug = slug
  BY <1>3, PathIs
<1>5. Nested(sections) /\ HeadsOf(sections, heads) /\ LastDirs(sections, names)
  BY <1>1 DEF SectionsFollow
<1>6. Len(dir) = m - 1 /\ Len(path) = m
  BY <1>3, <1>4, <1>5 DEF Nested
<1>7. /\ \A j \in 0 .. m - 1 : SubSeq(path, 1, j) = SubSeq(dir, 1, j)
      /\ \A j \in 1 .. m - 1 : path[j] = dir[j]
      /\ SubSeq(path, 1, m) = path
  BY <1>3, <1>4, <1>6, PathUnder
<1>8. /\ Len(secs) = m + 1 /\ secs[m + 1][1] = level /\ secs[m + 1][2] = path
      /\ \A k \in 1 .. m : secs[k] = sections[k]
  BY DEF Kept
<1>9. \A k \in 1 .. m + 1 : k = m + 1 \/ k \in 1 .. m
  BY <1>3
<1>10. Nested(secs)
  <2>1. ASSUME NEW k \in 1 .. m PROVE /\ Len(secs[k][2]) = k - 1
                                      /\ \A j \in 1 .. k : SubSeq(secs[k][2], 1, j - 1) = secs[j][2]
    <3>1. k \in 1 .. Len(sections) /\ \A j \in 1 .. k : j \in 1 .. m
      BY <1>3
    <3> QED BY <1>5, <1>8, <2>1, <3>1 DEF Nested
  <2>2. ASSUME NEW j \in 1 .. m + 1 PROVE SubSeq(path, 1, j - 1) = secs[j][2]
    <3>1. CASE j = m + 1
      <4>1. j - 1 = m
        BY <1>3, <3>1
      <4> QED BY <1>7, <1>8, <3>1, <4>1
    <3>2. CASE j \in 1 .. m
      <4>1. j - 1 \in 0 .. m - 1
        BY <1>3, <3>2
      <4>2. SubSeq(dir, 1, j - 1) = sections[j][2]
        BY <1>5, <3>2 DEF Nested
      <4> QED BY <1>7, <1>8, <3>2, <4>1, <4>2
    <3> QED BY <1>9, <3>1, <3>2
  <2>3. Len(path) = (m + 1) - 1
    BY <1>3, <1>6
  <2>4. ASSUME NEW k \in 1 .. Len(secs)
        PROVE  Len(secs[k][2]) = k - 1 /\ \A j \in 1 .. k : SubSeq(secs[k][2], 1, j - 1) = secs[j][2]
    <3>1. CASE k = m + 1
      BY <1>8, <2>2, <2>3, <3>1
    <3> QED BY <1>8, <1>9, <2>1, <3>1
  <2> QED BY <2>4 DEF Nested
<1>11. HeadsOf(secs, more)
  <2>1. ASSUME NEW k \in 1 .. Len(more) PROVE secs[k + 1][1] = OutlineLevel(more[k])
    <3>1. CASE k = m
      BY <1>2, <1>8, <3>1
    <3>2. CASE k # m
      <4>1. k \in 1 .. m - 1 /\ k + 1 \in 1 .. m
        BY <1>2, <1>3, <3>2
      <4>2. k \in 1 .. Len(heads)
        BY <1>3, <1>5, <4>1 DEF HeadsOf
      <4>3. secs[k + 1] = sections[k + 1]
        BY <1>8, <4>1
      <4> QED BY <1>2, <1>5, <4>1, <4>2, <4>3 DEF HeadsOf
    <3> QED BY <3>1, <3>2
  <2>2. ASSUME NEW k \in 1 .. m, NEW j \in 1 .. k - 1 PROVE NamedAfter(secs[k][2][j], more[j])
    <3>1. j \in 1 .. m - 1 /\ k \in 1 .. Len(sections) /\ secs[k] = sections[k]
      BY <1>3, <1>8
    <3>2. NamedAfter(sections[k][2][j], heads[j])
      BY <1>5, <3>1 DEF HeadsOf, DirNames
    <3> QED BY <1>2, <3>1, <3>2
  <2>3. ASSUME NEW j \in 1 .. m PROVE NamedAfter(path[j], more[j])
    <3>1. CASE j = m
      BY <1>2, <1>4, <1>6, <3>1, NamingIs
    <3>2. CASE j # m
      <4>1. j \in 1 .. m - 1 /\ m \in 1 .. m
        BY <1>3, <3>2
      <4>2. secs[m][2] = dir
        BY <1>8, <4>1
      <4> QED BY <1>7, <2>2, <4>1, <4>2
    <3> QED BY <3>1, <3>2
  <2>4. ASSUME NEW k \in 1 .. Len(secs) PROVE DirNames(secs[k][2], more, k - 1)
    <3>1. CASE k = m + 1
      <4>1. k - 1 = m
        BY <1>3, <3>1
      <4> QED BY <1>8, <2>3, <3>1, <4>1 DEF DirNames
    <3>2. CASE k \in 1 .. m
      BY <2>2, <3>2 DEF DirNames
    <3> QED BY <1>8, <1>9, <3>1, <3>2
  <2> QED BY <1>2, <1>8, <2>1, <2>4 DEF HeadsOf
<1>12. LastDirs(secs, given)
  <2>1. /\ DOMAIN after = DOMAIN names /\ Len(after[dir]) = Len(names[dir]) + 1
    <3>1. /\ DOMAIN after = DOMAIN names /\ after[dir] = Append(names[dir], NewName(names, dir, slug, NoSuffix).base)
          /\ NewName(names, dir, slug, NoSuffix).base \in Base
      BY <1>3, NameIs
    <3>2. names[dir] \in Seq(Base)
      BY <1>3 DEF NamesOK
    <3> QED BY <3>1, <3>2, AppendProperties
  <2>2. path \notin DOMAIN names /\ \A d \in DOMAIN names : given[d] = after[d]
    BY <1>3, DirAdded
  <2>3. ASSUME NEW k \in 2 .. m
        PROVE  secs[k][2][k - 1].base.number = Len(given[secs[k - 1][2]])
    <3>1. PICK j \in 1 .. Len(sections) : j = k - 1 /\ j # m /\ j \in 1 .. m
      BY <1>3
    <3>2. k \in 2 .. Len(sections) /\ k \in 1 .. m
      BY <1>3
    <3>3. sections[k][2][k - 1].base.number = Len(names[sections[j][2]])
      BY <1>5, <3>1, <3>2 DEF LastDirs
    <3>4. after[sections[j][2]] = names[sections[j][2]]
      BY <1>3, <1>5, <3>1, OtherDirs
    <3>5. sections[j][2] \in DOMAIN names
      BY <3>1 DEF SectionsOK
    <3> QED BY <1>8, <2>2, <3>1, <3>2, <3>3, <3>4, <3>5
  <2>4. path[m].base.number = Len(given[dir])
    BY <1>3, <1>4, <1>6, <2>1, <2>2
  <2>5. ASSUME NEW k \in 2 .. Len(secs)
        PROVE  secs[k][2][k - 1].base.number = Len(given[secs[k - 1][2]])
    <3>1. CASE k = m + 1
      <4>1. k - 1 = m /\ m \in 1 .. m
        BY <1>3, <3>1
      <4>2. secs[k - 1][2] = dir
        BY <1>8, <4>1
      <4> QED BY <1>8, <2>4, <3>1, <4>1, <4>2
    <3>2. CASE k \in 2 .. m
      BY <2>3, <3>2
    <3>3. k = m + 1 \/ k \in 2 .. m
      BY <1>3, <1>8
    <3> QED BY <3>1, <3>2, <3>3
  <2> QED BY <2>5 DEF LastDirs
<1> QED BY <1>2, <1>10, <1>11, <1>12 DEF Follows, SectionsFollow

-----------------------------------------------------------------------------
(* The files: each is of one block and lies where that stands, and they    *)
(* are walked in the order of their blocks.                                *)
FileOf(path, text, i) ==
  /\ i \notin Headings /\ \A c \in Range(text) : c[1] \in {0, i}
  /\ \E heads : /\ Listing(heads, StandsUnder(i)) /\ Len(path) = Len(heads) + 1
                /\ DirNames(path, heads, Len(heads))

FileFollows(path, text, x) == \E i \in 1 .. x : FileOf(path, text, i)
FilesFollow(fs, x) == \A p \in DOMAIN fs : FileFollows(p, fs[p], x)

Rises(a, b) == \A c \in Range(a) : \A d \in Range(b) : d[1] > 0 => c[1] <= d[1]
FilesRise(fs) == \A p, q \in DOMAIN fs : WalkedBefore(p, q) => Rises(fs[p], fs[q])

(* The name of a file changes nothing for the sections.                    *)
LEMMA FollowsOn ==
  ASSUME SectionsOK, DirsOK(names), NEW x \in Nat, Follows(sections, names, x),
         NEW i \in Nat, x <= i, Quiet(x, i), NEW m \in 1 .. Len(sections), m = Len(sections),
         NEW dir, dir = sections[m][2], NEW slug \in Texts,
         NEW after, after = AfterName(names, dir, slug, ".md")
  PROVE  Follows(sections, after, i)
<1>1. PICK heads : Listing(heads, Standing(x)) /\ SectionsFollow(sections, names, heads)
  BY DEF Follows
<1>2. Listing(heads, Standing(i))
  BY <1>1, StandingQuiet
<1>3. Nested(sections) /\ HeadsOf(sections, heads) /\ LastDirs(sections, names) /\ NamesOK(names)
  BY <1>1 DEF SectionsFollow, DirsOK
<1>4. ASSUME NEW k \in 2 .. Len(sections)
      PROVE  sections[k][2][k - 1].base.number = Len(after[sections[k - 1][2]])
  <2>1. Len(sections) \in Nat
    BY DEF SectionsOK
  <2>2. PICK j \in 1 .. Len(sections) : j = k - 1 /\ j # m
    BY <2>1
  <2>3. after[sections[j][2]] = names[sections[j][2]]
    BY <1>3, <2>2, OtherDirs
  <2>4. sections[k][2][k - 1].base.number = Len(names[sections[j][2]])
    BY <1>3, <2>2 DEF LastDirs
  <2> QED BY <2>2, <2>3, <2>4
<1> QED BY <1>2, <1>3, <1>4 DEF Follows, SectionsFollow, LastDirs

(* Where it lies.                                                          *)
LEMMA FilePlace ==
  ASSUME SectionsOK, DirsOK(names), NEW x \in Nat, Follows(sections, names, x),
         NEW i \in Nat, x < i, Quiet(x, i), i \notin Headings,
         NEW m \in 1 .. Len(sections), m = Len(sections),
         NEW dir, dir = sections[m][2], NEW slug \in Texts,
         NEW path, path = NewPath(names, dir, slug, ".md"),
         NEW text, \A c \in Range(text) : c[1] \in {0, i}
  PROVE  FileFollows(path, text, i)
<1>1. PICK heads : Listing(heads, Standing(x)) /\ SectionsFollow(sections, names, heads)
  BY DEF Follows
<1>2. Listing(heads, StandsUnder(i))
  BY <1>1, StandingQuiet, StandingFile
<1>3. dir \in DOMAIN names /\ NamesOK(names) /\ dir \in Seq(GivenName) /\ m \in Nat
  BY DEF SectionsOK, DirsOK, NamesOK
<1>4. path \in Seq(GivenName) /\ Len(path) = Len(dir) + 1 /\ SubSeq(path, 1, Len(dir)) = dir
  <2>1. PICK after : after = AfterName(names, dir, slug, ".md")
    OBVIOUS
  <2> QED BY <1>3, <2>1, PathIs
<1>5. /\ Len(heads) \in Nat /\ m = Len(heads) + 1 /\ Len(dir) = m - 1
      /\ DirNames(dir, heads, m - 1)
  <2>1. Len(heads) \in Nat
    BY <1>1, HeadsRise
  <2> QED BY <1>1, <2>1 DEF SectionsFollow, HeadsOf, Nested
<1>6. Len(path) = Len(heads) + 1 /\ Len(dir) = Len(heads)
  BY <1>4, <1>5
<1>7. \A j \in 1 .. Len(dir) : path[j] = dir[j]
  BY <1>3, <1>4, PathUnder
<1>8. DirNames(path, heads, Len(heads))
  <2>1. m - 1 = Len(heads)
    BY <1>5
  <2> QED BY <1>5, <1>6, <1>7, <2>1 DEF DirNames
<1>9. FileOf(path, text, i)
  BY <1>2, <1>6, <1>8 DEF FileOf
<1>10. i \in 1 .. i
  OBVIOUS
<1> QED BY <1>9, <1>10 DEF FileFollows

(* No file is walked after the one that is written last.                   *)
LEMMA LastWalked ==
  ASSUME SectionsOK, DirsOK(names), Nested(sections), LastDirs(sections, names),
         NEW m \in 1 .. Len(sections), m = Len(sections),
         NEW dir, dir = sections[m][2], NEW slug \in Texts,
         NEW path, path = NewPath(names, dir, slug, ".md"),
         NEW q, Located(names, q, ".md")
  PROVE  ~WalkedBefore(path, q)
<1>1. dir \in DOMAIN names /\ NamesOK(names) /\ dir \in Seq(GivenName) /\ m \in Nat
  BY DEF SectionsOK, DirsOK, NamesOK
<1>2. /\ path \in Seq(GivenName) /\ Len(path) = Len(dir) + 1 /\ SubSeq(path, 1, Len(dir)) = dir
      /\ path[Len(path)].base.number = Len(names[dir]) + 1
  <2>1. PICK after : after = AfterName(names, dir, slug, ".md")
    OBVIOUS
  <2> QED BY <1>1, <2>1, PathIs
<1>3. Len(dir) = m - 1 /\ Len(path) = m
  BY <1>1, <1>2 DEF Nested
<1>4. /\ \A j \in 0 .. m - 1 : SubSeq(path, 1, j) = SubSeq(dir, 1, j)
      /\ \A j \in 1 .. m - 1 : path[j] = dir[j]
  BY <1>1, <1>2, <1>3, PathUnder
<1> SUFFICES ASSUME WalkedBefore(path, q) PROVE FALSE
  OBVIOUS
<1>5. q \in Seq(GivenName) /\ DOMAIN q = 1 .. Len(q) /\ Len(q) \in Nat /\ DOMAIN path = 1 .. m
  BY <1>2, <1>3 DEF Located
<1>6. PICK k \in 1 .. m : /\ k \in 1 .. Len(q) /\ \A j \in 1 .. k - 1 : path[j] = q[j]
                          /\ path[k].base.number < q[k].base.number
  BY <1>5 DEF WalkedBefore
<1>7. SubSeq(q, 1, k - 1) = SubSeq(path, 1, k - 1)
  <2>1. PICK n \in Nat : n = k - 1 /\ n < m
    BY <1>1
  <2>2. \A j \in 1 .. n : j \in 1 .. Len(q) /\ j \in 1 .. Len(path) /\ path[j] = q[j]
    BY <1>3, <1>5, <1>6, <2>1
  <2>3. \A j \in 1 .. n : j \in 1 .. Len(q)
    BY <2>2
  <2>4. \A j \in 1 .. n : j \in 1 .. Len(path)
    BY <2>2
  <2>5. /\ SubSeq(q, 1, n) \in Seq(GivenName) /\ Len(SubSeq(q, 1, n)) = n
        /\ \A j \in 1 .. n : SubSeq(q, 1, n)[j] = q[j]
    BY <1>5, <2>3, SubSeqProperties
  <2>6. /\ SubSeq(path, 1, n) \in Seq(GivenName) /\ Len(SubSeq(path, 1, n)) = n
        /\ \A j \in 1 .. n : SubSeq(path, 1, n)[j] = path[j]
    BY <1>2, <2>4, SubSeqProperties
  <2>7. SubSeq(q, 1, n) = SubSeq(path, 1, n)
    BY <2>2, <2>5, <2>6, SeqEqual
  <2> QED BY <2>1, <2>7
<1>8. SubSeq(path, 1, k - 1) = sections[k][2]
  <2>1. k - 1 \in 0 .. m - 1 /\ k \in 1 .. m
    BY <1>1
  <2>2. SubSeq(dir, 1, k - 1) = sections[k][2]
    BY <2>1 DEF Nested
  <2> QED BY <1>4, <2>1, <2>2
<1>9. q[k].base.number \in 1 .. Len(names[sections[k][2]])
  BY <1>6, <1>7, <1>8 DEF Located
<1>10. Len(names[sections[k][2]]) \in Nat
  <2>1. sections[k][2] \in DOMAIN names
    BY <1>6 DEF SectionsOK
  <2> QED BY <1>1, <2>1 DEF NamesOK
<1>11. CASE k = m
  <2>1. path[k].base.number = Len(names[sections[k][2]]) + 1
    BY <1>2, <1>3, <1>11
  <2> QED BY <1>6, <1>9, <1>10, <2>1
<1>12. CASE k # m
  <2>1. PICK j \in 2 .. Len(sections) : j = k + 1 /\ j - 1 = k
    BY <1>1, <1>12
  <2>2. sections[j][2][k].base.number = Len(names[sections[k][2]])
    BY <2>1 DEF LastDirs
  <2>3. path[k] = sections[j][2][k]
    <3>1. k \in 1 .. m - 1
      BY <1>1, <1>12
    <3>2. j \in 1 .. m /\ j \in 1 .. Len(sections)
      BY <1>1, <2>1, <3>1
    <3>3. sections[j][2] = SubSeq(dir, 1, k)
      BY <2>1, <3>2 DEF Nested
    <3>4. SubSeq(dir, 1, k)[k] = dir[k]
      <4>1. k \in Nat /\ k \in 1 .. k /\ \A l \in 1 .. k : l \in 1 .. Len(dir)
        BY <1>1, <1>3, <3>1
      <4> QED BY <1>1, <4>1, SubSeqProperties
    <3> QED BY <1>4, <3>1, <3>3, <3>4
  <2> QED BY <1>6, <1>9, <1>10, <2>2, <2>3
<1> QED BY <1>11, <1>12

-----------------------------------------------------------------------------
(* One file more, and what is told by the files and the directories.       *)
LEMMA FilesOn ==
  ASSUME NEW fs, NEW x \in Nat, NEW i \in Nat, x <= i, FilesFollow(fs, x)
  PROVE  FilesFollow(fs, i)
<1>1. \A k \in 1 .. x : k \in 1 .. i
  OBVIOUS
<1> QED BY <1>1 DEF FilesFollow, FileFollows

Grown(fs, more) == \A p \in DOMAIN fs : p \in DOMAIN more /\ more[p] = fs[p]

LEMMA FileAdded ==
  ASSUME NEW fs, \A p \in DOMAIN fs : p \in Seq(GivenName) /\ fs[p] \in Texts,
         NEW x \in Nat, FilesFollow(fs, x), FilesRise(fs), NEW i \in Nat, x < i,
         NEW path \in Seq(GivenName), path \notin DOMAIN fs, \A q \in DOMAIN fs : ~WalkedBefore(path, q),
         NEW text, FileFollows(path, text, i), \A c \in Range(text) : c[1] \in {0, i},
         NEW more, more = With(fs, path, text)
  PROVE  /\ FilesFollow(more, i) /\ FilesRise(more)
         /\ Grown(fs, more) /\ path \in DOMAIN more /\ more[path] = text
<1>1. /\ DOMAIN more = DOMAIN fs \cup {path} /\ more[path] = text
      /\ \A p \in DOMAIN fs : more[p] = fs[p]
  <2>1. /\ DOMAIN With(fs, path, text) = DOMAIN fs \cup {path} /\ With(fs, path, text)[path] = text
        /\ \A k \in DOMAIN fs : k # path => With(fs, path, text)[k] = fs[k]
    BY DEF With
  <2>2. \A p \in DOMAIN fs : p # path
    OBVIOUS
  <2>3. \A p \in DOMAIN fs : With(fs, path, text)[p] = fs[p]
    BY <2>1, <2>2
  <2> QED BY <2>1, <2>3
<1>2. FilesFollow(fs, i)
  BY FilesOn
<1>3. FilesFollow(more, i)
  BY <1>1, <1>2 DEF FilesFollow
<1>4. Grown(fs, more) /\ path \in DOMAIN more
  BY <1>1 DEF Grown
<1>5. ~WalkedBefore(path, path)
  BY WalkedOnce
<1>6. ASSUME NEW p \in DOMAIN fs PROVE Rises(fs[p], text)
  <2>1. PICK k \in 1 .. x : FileOf(p, fs[p], k)
    BY <1>6 DEF FilesFollow, FileFollows
  <2>2. ASSUME NEW c \in Range(fs[p]), NEW d \in Range(text), d[1] > 0 PROVE c[1] <= d[1]
    <3>1. c[1] \in {0, k}
      BY <2>1, <2>2 DEF FileOf
    <3>2. d[1] \in {0, i}
      BY <2>2
    <3> QED BY <2>2, <3>1, <3>2
  <2> QED BY <2>2 DEF Rises
<1>7. ASSUME NEW p \in DOMAIN more, NEW q \in DOMAIN more, WalkedBefore(p, q)
      PROVE  Rises(more[p], more[q])
  <2>1. CASE p \in DOMAIN fs /\ q \in DOMAIN fs
    BY <1>1, <1>7, <2>1 DEF FilesRise
  <2>2. CASE p \in DOMAIN fs /\ q = path
    BY <1>1, <1>6, <2>2
  <2>3. CASE p = path
    BY <1>1, <1>5, <1>7, <2>3
  <2> QED BY <1>1, <2>1, <2>2, <2>3
<1> QED BY <1>1, <1>3, <1>4, <1>7 DEF FilesRise

(* A heading has its directory, and another node's text is in the files.   *)
InFiles(c, fs) == \E p \in DOMAIN fs : c \in Range(fs[p])

HasDir(given, slug) == \E dir \in DOMAIN given : dir # <<>> /\ dir[Len(dir)].base.slug = slug

Told(nodes, d, fs, given) ==
  IF nodes[d].tag \in HeadingTags THEN HasDir(given, SlugText(NodeText(nodes, d)))
  ELSE \A c \in Range(Markdown(nodes, d)) : InFiles(c, fs)

AllTold(nodes, order, k, fs, given) == \A j \in 1 .. k : Told(nodes, order[j], fs, given)

LEMMA WrittenIs == \A c : c \in Written <=> InFiles(c, files)
<1> SUFFICES ASSUME NEW c PROVE c \in Written <=> InFiles(c, files)
  OBVIOUS
<1>1. c \in Written <=> \E S \in {Range(files[p]) : p \in DOMAIN files} : c \in S
  BY DEF Written
<1> QED BY <1>1 DEF InFiles

LEMMA ToldOn ==
  ASSUME NEW nodes, NEW order, NEW k \in Nat, NEW fs, NEW given, AllTold(nodes, order, k, fs, given),
         NEW more, Grown(fs, more), NEW after, DOMAIN given \subseteq DOMAIN after,
         NEW m \in Nat, m = k + 1, Told(nodes, order[m], more, after)
  PROVE  AllTold(nodes, order, m, more, after)
<1>1. ASSUME NEW d, Told(nodes, d, fs, given) PROVE Told(nodes, d, more, after)
  <2>1. \A c : InFiles(c, fs) => InFiles(c, more)
    BY DEF InFiles, Grown
  <2>2. \A slug : HasDir(given, slug) => HasDir(after, slug)
    BY DEF HasDir
  <2> QED BY <1>1, <2>1, <2>2 DEF Told
<1>2. \A j \in 1 .. m : j = m \/ j \in 1 .. k
  OBVIOUS
<1> QED BY <1>1, <1>2 DEF AllTold

-----------------------------------------------------------------------------
(* What has been written of the tree, when k of its nodes have been.       *)
WroteWith(nodes, src, k, x, secs, given, fs) ==
  /\ Traced(nodes, src, Len(blocks)) /\ Complete(nodes, src, Len(blocks))
  /\ Ahead(BlockNodes(nodes), src, k, x)
  /\ Follows(secs, given, x) /\ FilesFollow(fs, x) /\ FilesRise(fs)
  /\ AllTold(nodes, BlockNodes(nodes), k, fs, given)

Writes(nodes, k, secs, given, fs) == \E src, x : WroteWith(nodes, src, k, x, secs, given, fs)

LEMMA SameWrites ==
  ASSUME SameFile, NEW nodes, NEW k, NEW secs, NEW given, NEW fs
  PROVE  Writes(nodes, k, secs, given, fs)' <=> Writes(nodes, k, secs, given, fs)
<1>1. kind' = kind /\ blocks' = blocks /\ Headings' = Headings /\ \A i : OutlineLevel(i)' = OutlineLevel(i)
  BY SameBlocks DEF SameFile, Headings, Block
<1>2. ASSUME NEW x PROVE Standing(x)' = Standing(x) /\ StandsUnder(x)' = StandsUnder(x)
  BY <1>1 DEF Standing, StandsUnder
<1>11. ASSUME NEW path, NEW heads, NEW m PROVE DirNames(path, heads, m)' <=> DirNames(path, heads, m)
  <2>1. ASSUME NEW name, NEW h PROVE NamedAfter(name, h)' <=> NamedAfter(name, h)
    BY SameBlocks DEF NamedAfter
  <2> QED BY <2>1 DEF DirNames
<1>3. ASSUME NEW heads PROVE SectionsFollow(secs, given, heads)' <=> SectionsFollow(secs, given, heads)
  BY <1>1, <1>11 DEF SectionsFollow, HeadsOf
<1>4. ASSUME NEW x PROVE Follows(secs, given, x)' <=> Follows(secs, given, x)
  BY <1>2, <1>3 DEF Follows
<1>5. ASSUME NEW p, NEW text, NEW i PROVE FileOf(p, text, i)' <=> FileOf(p, text, i)
  BY <1>1, <1>2, <1>11 DEF FileOf
<1>6. ASSUME NEW x PROVE FilesFollow(fs, x)' <=> FilesFollow(fs, x)
  BY <1>5 DEF FilesFollow, FileFollows
<1>7. ASSUME NEW src PROVE Traced(nodes, src, Len(blocks))' <=> Traced(nodes, src, Len(blocks))
  BY <1>1, SameBlocks DEF Traced, NodeOK
<1>8. ASSUME NEW src PROVE Complete(nodes, src, Len(blocks))' <=> Complete(nodes, src, Len(blocks))
  BY <1>1, SameBlocks
<1>9. ASSUME NEW src, NEW x
      PROVE  Ahead(BlockNodes(nodes), src, k, x)' <=> Ahead(BlockNodes(nodes), src, k, x)
  BY <1>1 DEF Ahead
<1>10. ASSUME NEW src, NEW x
       PROVE  WroteWith(nodes, src, k, x, secs, given, fs)' <=> WroteWith(nodes, src, k, x, secs, given, fs)
  BY <1>4, <1>6, <1>7, <1>8, <1>9 DEF WroteWith
<1> QED BY <1>10 DEF Writes

LEMMA FirstWrites ==
  ASSUME SourceOK, NEW nodes \in Seq(NodeSet), Tree(nodes, Len(blocks)),
         NEW secs, secs = <<<<0, <<>>>>>>, NEW given, given = With(<<>>, <<>>, <<>>)
  PROVE  Writes(nodes, 0, secs, given, <<>>)
<1>1. PICK src : Traced(nodes, src, Len(blocks)) /\ Complete(nodes, src, Len(blocks))
  BY DEF Tree
<1>2. Len(blocks) \in Nat
  BY SourceBlocks
<1>3. Ahead(BlockNodes(nodes), src, 0, 0)
  BY <1>1, <1>2, AheadFirst
<1>4. Listing(<<>>, Standing(0))
  <2>1. ASSUME NEW h PROVE h \notin Standing(0)
    <3>1. \A g \in Headings : g \in Nat /\ g > 0
      BY HeadingIs
    <3> QED BY <3>1 DEF Standing
  <2>2. Range(<<>>) = {} /\ <<>> \in Seq(Nat) /\ Len(<<>>) = 0
    BY DEF Range
  <2> QED BY <2>1, <2>2 DEF Listing
<1>5. Len(secs) = 1 /\ secs[1][2] = <<>> /\ Len(<<>>) = 0
  OBVIOUS
<1>6. Nested(secs)
  <2>1. SubSeq(<<>>, 1, 0) = <<>>
    BY SubSeqProperties, EmptySeq
  <2>2. ASSUME NEW k \in 1 .. Len(secs), NEW j \in 1 .. k PROVE SubSeq(secs[k][2], 1, j - 1) = secs[j][2]
    <3>1. k = 1 /\ j = 1 /\ j - 1 = 0
      BY <1>5
    <3> QED BY <1>5, <2>1, <3>1
  <2>3. ASSUME NEW k \in 1 .. Len(secs) PROVE Len(secs[k][2]) = k - 1
    <3>1. k = 1
      BY <1>5
    <3> QED BY <1>5, <3>1
  <2> QED BY <2>2, <2>3 DEF Nested
<1>7. HeadsOf(secs, <<>>)
  <2>1. ASSUME NEW k \in 1 .. Len(secs) PROVE DirNames(secs[k][2], <<>>, k - 1)
    <3>1. k - 1 = 0
      BY <1>5
    <3> QED BY <3>1 DEF DirNames
  <2> QED BY <1>5, <2>1 DEF HeadsOf
<1>8. LastDirs(secs, given)
  BY <1>5 DEF LastDirs
<1>9. Follows(secs, given, 0)
  BY <1>4, <1>6, <1>7, <1>8 DEF Follows, SectionsFollow
<1>10. FilesFollow(<<>>, 0) /\ FilesRise(<<>>)
  BY DEF FilesFollow, FilesRise
<1>11. AllTold(nodes, BlockNodes(nodes), 0, <<>>, given)
  BY DEF AllTold
<1> QED BY <1>1, <1>3, <1>9, <1>10, <1>11 DEF Writes, WroteWith

(* The node that is written next, and its block.                           *)
LEMMA NextWrites ==
  ASSUME BuildOK, Writing, NEW src, NEW x,
         WroteWith(parser.nodes, src, at, x, sections, names, files), NEW d, d = NextNode
  PROVE  /\ parser.nodes \in Seq(NodeSet) /\ d \in 1 .. Len(parser.nodes) /\ IsBlockNode(parser.nodes[d])
         /\ d = BlockNodes(parser.nodes)[at + 1] /\ at + 1 \in Nat
         /\ src[d] \in 1 .. Len(blocks) /\ src[d] \in Nat /\ x \in Nat
         /\ AheadNext(BlockNodes(parser.nodes), src, at, x, src[d])
         /\ Traced(parser.nodes, src, Len(blocks)) /\ Len(blocks) \in Nat
         /\ DirsOK(names) /\ SectionsOK /\ FilesOK /\ SourceOK
<1>1. HtmlOK /\ SourceOK /\ TreeOK /\ at \in Nat /\ at < Len(BlockNodes(parser.nodes))
  BY DEF BuildOK, HtmlOK, Writing
<1>2. parser.nodes \in Seq(NodeSet) /\ Len(blocks) \in Nat
  BY <1>1, NextNodeIs, SourceBlocks
<1>3. PICK order : order = BlockNodes(parser.nodes)
  OBVIOUS
<1>4. Traced(parser.nodes, src, Len(blocks)) /\ Complete(parser.nodes, src, Len(blocks))
      /\ Ahead(order, src, at, x)
  BY <1>3 DEF WroteWith
<1>5. Len(order) \in Nat
  BY <1>2, <1>3, <1>4, BlockNodesAre
<1>6. PICK m \in 1 .. Len(order) : m = at + 1
  BY <1>1, <1>3, <1>5
<1>7. d = order[m]
  BY <1>3, <1>6 DEF NextNode
<1>8. /\ d \in 1 .. Len(parser.nodes) /\ IsBlockNode(parser.nodes[d])
      /\ src[d] \in 1 .. Len(blocks) /\ src[d] \in Nat
  BY <1>2, <1>3, <1>4, <1>6, <1>7, OrderRises
<1>9. AheadNext(order, src, at, x, src[d])
  BY <1>1, <1>2, <1>3, <1>4, <1>6, <1>7, AheadOn
<1>10. x \in Nat
  BY <1>4 DEF Ahead
<1> QED BY <1>1, <1>2, <1>3, <1>4, <1>6, <1>7, <1>8, <1>9, <1>10 DEF TreeOK

-----------------------------------------------------------------------------
(* Writing a node.                                                         *)
LEMMA LevelOfHeading ==
  ASSUME NEW level \in 1 .. 6
  PROVE  LevelOf(HeadingTag[level]) = level
<1>1. HeadingTag[level] \in HeadingTags
  BY DEF HeadingTags
<1>2. PICK other : other = LevelOf(HeadingTag[level])
  OBVIOUS
<1>3. other \in 1 .. 6 /\ HeadingTag[other] = HeadingTag[level]
  BY <1>1, <1>2, LevelIs
<1>4. \A k \in 1 .. 6 : k = 1 \/ k = 2 \/ k = 3 \/ k = 4 \/ k = 5 \/ k = 6
  OBVIOUS
<1>5. other = level
  BY <1>3, <1>4, TagKinds
<1> QED BY <1>2, <1>5

LEMMA HeadingWrites ==
  ASSUME BuildOK, WriteHeading, Writes(parser.nodes, at, sections, names, files)
  PROVE  Writes(parser.nodes, at + 1, sections', names', files')
<1>1. PICK d : d = NextNode
  OBVIOUS
<1>2. PICK level : level = LevelOf(parser.nodes[d].tag)
  OBVIOUS
<1>3. PICK slug : slug = SlugText(NodeText(parser.nodes, d))
  OBVIOUS
<1>4. PICK dir : dir = Last(Above(level))[2]
  OBVIOUS
<1>5. PICK path : path = NewPath(names, dir, slug, NoSuffix)
  OBVIOUS
<1>6. PICK after : after = AfterName(names, dir, slug, NoSuffix)
  OBVIOUS
<1>7. /\ Writing /\ parser.nodes[d].tag \in HeadingTags
      /\ names' = With(after, path, <<>>) /\ sections' = Append(Above(level), <<level, path>>)
      /\ files' = files
  BY <1>1, <1>2, <1>3, <1>4, <1>5, <1>6 DEF WriteHeading, NewPath, AfterName, NewName
<1>8. PICK src, x : WroteWith(parser.nodes, src, at, x, sections, names, files)
  BY DEF Writes
<1>9. PICK i : i = src[d]
  OBVIOUS
<1>10. /\ parser.nodes \in Seq(NodeSet) /\ d \in 1 .. Len(parser.nodes)
       /\ d = BlockNodes(parser.nodes)[at + 1]
       /\ i \in 1 .. Len(blocks) /\ i \in Nat /\ x \in Nat
       /\ AheadNext(BlockNodes(parser.nodes), src, at, x, i)
       /\ Traced(parser.nodes, src, Len(blocks)) /\ Len(blocks) \in Nat
       /\ DirsOK(names) /\ SectionsOK /\ at \in Nat /\ at + 1 \in Nat
  BY <1>1, <1>7, <1>8, <1>9, NextWrites DEF BuildOK, HtmlOK
<1>11. /\ slug \in Texts /\ Naming(slug, i) /\ i \in Headings
       /\ OutlineLevel(i) \in 1 .. 6 /\ parser.nodes[d].tag = HeadingTag[OutlineLevel(i)]
  <2>1. Complete(parser.nodes, src, Len(blocks))
    BY <1>8 DEF WroteWith
  <2> QED BY <1>3, <1>7, <1>9, <1>10, <2>1, HeadingSays, HeadingNamed
<1>12. level = OutlineLevel(i) /\ level \in 1 .. 6
  BY <1>2, <1>11, LevelOfHeading
<1>13. PICK m \in 1 .. Len(sections) :
            /\ Above(level) \in Seq((0 .. 6) \X Seq(GivenName)) /\ Len(Above(level)) = m
            /\ \A k \in 1 .. m : Above(level)[k] = sections[k]
            /\ sections[m][1] < level
            /\ \A k \in (m + 1) .. Len(sections) : ~(sections[k][1] < level)
  BY <1>10, <1>12, AboveIs
<1>14. dir = sections[m][2]
  <2>1. Last(Above(level)) = sections[m] /\ m \in 1 .. m
    BY <1>13 DEF Last
  <2> QED BY <1>4, <2>1
<1>15. dir \in DOMAIN names
  BY <1>10, <1>14 DEF SectionsOK
<1>16. /\ path \in Seq(GivenName) /\ \A e : e \in DOMAIN names' <=> e \in DOMAIN names \/ e = path
  <2>1. names' = With(after, path, <<>>)
    BY <1>7
  <2> QED BY <1>5, <1>6, <1>10, <1>11, <1>15, <2>1, DirMade
<1>17. PICK secs : secs = sections'
  OBVIOUS
<1>18. PICK given : given = names' /\ given = With(after, path, <<>>)
  BY <1>7
<1>19. Kept(secs, m, level, path)
  <2>1. PICK entry : entry = <<level, path>>
    OBVIOUS
  <2>2. entry \in (0 .. 6) \X Seq(GivenName) /\ entry[1] = level /\ entry[2] = path
    BY <1>12, <1>16, <2>1
  <2>3. secs = Append(Above(level), entry)
    BY <1>7, <1>17, <2>1
  <2>4. /\ Len(secs) = m + 1 /\ secs[m + 1] = entry
        /\ \A k \in 1 .. m : secs[k] = Above(level)[k]
    BY <1>13, <2>2, <2>3, AppendProperties
  <2> QED BY <1>13, <2>2, <2>4 DEF Kept
<1>20. x < i /\ Quiet(x, i - 1) /\ Ahead(BlockNodes(parser.nodes), src, at + 1, i)
  BY <1>10 DEF AheadNext
<1>21. Follows(secs, given, i)
  <2>1. Follows(sections, names, x)
    BY <1>8 DEF WroteWith
  <2>2. SectionsOK /\ DirsOK(names) /\ x \in Nat /\ i \in Headings /\ x < i /\ Quiet(x, i - 1)
    BY <1>10, <1>11, <1>20
  <2>3. /\ level = OutlineLevel(i) /\ m \in 1 .. Len(sections) /\ sections[m][1] < level
        /\ \A k \in (m + 1) .. Len(sections) : ~(sections[k][1] < level)
        /\ dir = sections[m][2] /\ slug \in Texts /\ Naming(slug, i)
    BY <1>11, <1>12, <1>13, <1>14
  <2>4. /\ path = NewPath(names, dir, slug, NoSuffix) /\ after = AfterName(names, dir, slug, NoSuffix)
        /\ given = With(after, path, <<>>) /\ Kept(secs, m, level, path)
    BY <1>5, <1>6, <1>18, <1>19
  <2> QED BY <2>1, <2>2, <2>3, <2>4, SectionAdded, Zenon
<1>22. FilesFollow(files, i) /\ FilesRise(files)
  BY <1>8, <1>10, <1>20, FilesOn DEF WroteWith
<1>23. AllTold(parser.nodes, BlockNodes(parser.nodes), at + 1, files, given)
  <2>2. path # <<>> /\ path[Len(path)].base.slug = slug
    <3>1. Len(path) = Len(dir) + 1 /\ Len(dir) \in Nat /\ path[Len(path)].base.slug = slug
      BY <1>5, <1>6, <1>10, <1>11, <1>15, PathIs
    <3> QED BY <1>16, <3>1
  <2>3. path \in DOMAIN given /\ DOMAIN names \subseteq DOMAIN given
    BY <1>16, <1>18
  <2>4. Told(parser.nodes, d, files, given)
    BY <1>3, <1>7, <2>2, <2>3 DEF Told, HasDir
  <2>5. PICK k \in Nat : k = at + 1
    BY <1>10
  <2>6. Told(parser.nodes, BlockNodes(parser.nodes)[k], files, given)
    BY <1>10, <2>4, <2>5
  <2>7. AllTold(parser.nodes, BlockNodes(parser.nodes), at, files, names) /\ Grown(files, files)
    BY <1>8 DEF WroteWith, Grown
  <2>8. AllTold(parser.nodes, BlockNodes(parser.nodes), k, files, given)
    BY <1>10, <2>3, <2>5, <2>6, <2>7, ToldOn
  <2> QED BY <2>5, <2>8
<1>24. Complete(parser.nodes, src, Len(blocks))
  BY <1>8 DEF WroteWith
<1>25. WroteWith(parser.nodes, src, at + 1, i, secs, given, files)
  BY <1>10, <1>20, <1>21, <1>22, <1>23, <1>24 DEF WroteWith
<1> QED BY <1>7, <1>17, <1>18, <1>25 DEF Writes

LEMMA BlockWrites ==
  ASSUME BuildOK, WriteBlock, Writes(parser.nodes, at, sections, names, files)
  PROVE  Writes(parser.nodes, at + 1, sections', names', files')
<1>1. PICK d : d = NextNode
  OBVIOUS
<1>2. PICK slug : slug = Slug(parser.nodes, d)
  OBVIOUS
<1>3. PICK text : text = Markdown(parser.nodes, d)
  OBVIOUS
<1>4. PICK dir : dir = Last(sections)[2]
  OBVIOUS
<1>5. PICK path : path = NewPath(names, dir, slug, ".md")
  OBVIOUS
<1>6. PICK after : after = AfterName(names, dir, slug, ".md")
  OBVIOUS
<1>7. /\ Writing /\ parser.nodes[d].tag \in BlockTags
      /\ names' = after /\ files' = With(files, path, text) /\ sections' = sections
  BY <1>1, <1>2, <1>3, <1>4, <1>5, <1>6 DEF WriteBlock, NewPath, AfterName, NewName
<1>8. PICK src, x : WroteWith(parser.nodes, src, at, x, sections, names, files)
  BY DEF Writes
<1>9. PICK i : i = src[d]
  OBVIOUS
<1>10. /\ parser.nodes \in Seq(NodeSet) /\ d \in 1 .. Len(parser.nodes) /\ IsBlockNode(parser.nodes[d])
       /\ d = BlockNodes(parser.nodes)[at + 1]
       /\ i \in 1 .. Len(blocks) /\ i \in Nat /\ x \in Nat
       /\ AheadNext(BlockNodes(parser.nodes), src, at, x, i)
       /\ Traced(parser.nodes, src, Len(blocks)) /\ Len(blocks) \in Nat
       /\ DirsOK(names) /\ SectionsOK /\ FilesOK /\ at \in Nat /\ at + 1 \in Nat
  BY <1>1, <1>7, <1>8, <1>9, NextWrites DEF BuildOK, HtmlOK
<1>11. i \notin Headings
  <2>1. parser.nodes[d].tag \notin HeadingTags
    BY <1>7, TagKinds
  <2>2. BlockNodeOK(parser.nodes, src, d)
    BY <1>10 DEF Traced, NodeOK
  <2> QED BY <1>9, <2>1, <2>2 DEF BlockNodeOK, Headings
<1>12. slug \in Texts /\ text \in Texts /\ \A c \in Range(text) : c[1] \in {0, i}
  <2>1. From(parser.nodes, d, text) /\ slug \in Texts
    BY <1>2, <1>3, <1>10, MarkdownFrom, SlugOfNode
  <2> QED BY <1>9, <1>10, <2>1, FromOwn
<1>13. x < i /\ Quiet(x, i) /\ Ahead(BlockNodes(parser.nodes), src, at + 1, i)
  <2>1. x < i /\ Quiet(x, i - 1) /\ Ahead(BlockNodes(parser.nodes), src, at + 1, i)
    BY <1>10 DEF AheadNext
  <2>2. \A h \in Headings : h \in Nat /\ h # i
    BY <1>11, HeadingIs
  <2>3. \A h \in Headings : h <= i => h <= i - 1
    BY <1>10, <2>2
  <2> QED BY <2>1, <2>3 DEF Quiet
<1>14. PICK m \in 1 .. Len(sections) : m = Len(sections) /\ dir = sections[m][2]
  <2>1. Len(sections) \in 1 .. Len(sections) /\ Last(sections) = sections[Len(sections)]
    BY <1>10, LastOf DEF SectionsOK
  <2> QED BY <1>4, <2>1
<1>15. dir \in DOMAIN names
  BY <1>10, <1>14 DEF SectionsOK
<1>16. Follows(sections, names, x) /\ FilesFollow(files, x) /\ FilesRise(files)
  BY <1>8 DEF WroteWith
<1>17. Follows(sections, after, i)
  BY <1>6, <1>10, <1>12, <1>13, <1>14, <1>16, FollowsOn
<1>18. FileFollows(path, text, i)
  BY <1>5, <1>10, <1>11, <1>12, <1>13, <1>14, <1>16, FilePlace
<1>19. \A q \in DOMAIN files : Located(names, q, ".md") /\ q \in Seq(GivenName) /\ files[q] \in Texts
  BY <1>10 DEF FilesOK, Located
<1>20. path \in Seq(GivenName) /\ path \notin DOMAIN files /\ DOMAIN after = DOMAIN names
  <2>1. path \in Seq(GivenName) /\ \A s : ~Located(names, path, s)
    BY <1>5, <1>6, <1>10, <1>12, <1>15, PathIs
  <2>2. NamesOK(names)
    BY <1>10 DEF DirsOK
  <2>3. DOMAIN after = DOMAIN names
    BY <1>6, <1>12, <1>15, <2>2, NameIs
  <2> QED BY <1>19, <2>1, <2>3
<1>21. \A q \in DOMAIN files : ~WalkedBefore(path, q)
  <2>1. PICK heads : SectionsFollow(sections, names, heads)
    BY <1>16 DEF Follows
  <2>2. Nested(sections) /\ LastDirs(sections, names)
    BY <2>1 DEF SectionsFollow
  <2> QED BY <1>5, <1>10, <1>12, <1>14, <1>19, <2>2, LastWalked
<1>22. PICK more : more = files' /\ more = With(files, path, text)
  BY <1>7
<1>23. /\ FilesFollow(more, i) /\ FilesRise(more)
       /\ Grown(files, more) /\ path \in DOMAIN more /\ more[path] = text
  BY <1>10, <1>12, <1>13, <1>16, <1>18, <1>19, <1>20, <1>21, <1>22, FileAdded
<1>24. AllTold(parser.nodes, BlockNodes(parser.nodes), at + 1, more, after)
  <2>1. \A c \in Range(text) : InFiles(c, more)
    BY <1>23 DEF InFiles
  <2>2. Told(parser.nodes, d, more, after)
    BY <1>3, <1>7, <2>1, TagKinds DEF Told
  <2>3. PICK k \in Nat : k = at + 1
    BY <1>10
  <2>4. Told(parser.nodes, BlockNodes(parser.nodes)[k], more, after)
    BY <1>10, <2>2, <2>3
  <2>5. AllTold(parser.nodes, BlockNodes(parser.nodes), at, files, names)
    BY <1>8 DEF WroteWith
  <2>6. AllTold(parser.nodes, BlockNodes(parser.nodes), k, more, after)
    BY <1>10, <1>20, <1>23, <2>3, <2>4, <2>5, ToldOn
  <2> QED BY <2>3, <2>6
<1>25. Complete(parser.nodes, src, Len(blocks))
  BY <1>8 DEF WroteWith
<1>26. WroteWith(parser.nodes, src, at + 1, i, sections, after, more)
  BY <1>10, <1>13, <1>17, <1>23, <1>24, <1>25 DEF WroteWith
<1> QED BY <1>7, <1>22, <1>26 DEF Writes

-----------------------------------------------------------------------------
(* A stream of segments that rise from one to the next.                    *)
Sorted(s) == \A j, k \in 1 .. Len(s) : j < k /\ s[k][1] > 0 => s[j][1] <= s[k][1]

LEMMA SortedAlone ==
  ASSUME NEW s \in Seq(Characters), Rises(s, s)
  PROVE  Sorted(s)
<1> SUFFICES ASSUME NEW j \in 1 .. Len(s), NEW k \in 1 .. Len(s), s[k][1] > 0
             PROVE  s[j][1] <= s[k][1]
  BY DEF Sorted
<1>1. s[j] \in Range(s) /\ s[k] \in Range(s)
  BY DEF Range
<1> QED BY <1>1 DEF Rises

LEMMA SortedJoin ==
  ASSUME NEW s \in Seq(Characters), NEW t \in Seq(Characters), Sorted(s), Sorted(t), Rises(s, t)
  PROVE  Sorted(s \o t)
<1> DEFINE u == s \o t
<1>1. /\ Len(s) \in Nat /\ Len(t) \in Nat /\ Len(u) = Len(s) + Len(t)
      /\ \A k \in 1 .. Len(s) : u[k] = s[k]
      /\ \A k \in 1 .. Len(u) : k > Len(s) => k - Len(s) \in 1 .. Len(t) /\ u[k] = t[k - Len(s)]
  OBVIOUS
<1> HIDE DEF u
<1> SUFFICES ASSUME NEW j \in 1 .. Len(u), NEW k \in 1 .. Len(u), j < k, u[k][1] > 0
             PROVE  u[j][1] <= u[k][1]
  BY DEF Sorted, u
<1>2. CASE k <= Len(s)
  <2>1. j \in 1 .. Len(s) /\ k \in 1 .. Len(s)
    BY <1>1, <1>2
  <2> QED BY <1>1, <2>1 DEF Sorted
<1>3. CASE j <= Len(s) /\ k > Len(s)
  <2>1. j \in 1 .. Len(s) /\ k - Len(s) \in 1 .. Len(t) /\ u[j] = s[j] /\ u[k] = t[k - Len(s)]
    BY <1>1, <1>3
  <2>2. u[j] \in Range(s) /\ u[k] \in Range(t)
    BY <2>1 DEF Range
  <2> QED BY <2>2 DEF Rises
<1>4. CASE j > Len(s)
  <2>1. PICK a \in 1 .. Len(t) : a = j - Len(s) /\ u[j] = t[a]
    BY <1>1, <1>4
  <2>2. k > Len(s)
    BY <1>1, <1>4
  <2>3. PICK b \in 1 .. Len(t) : b = k - Len(s) /\ u[k] = t[b]
    BY <1>1, <2>2
  <2>4. a < b
    BY <1>1, <2>1, <2>3
  <2> QED BY <2>1, <2>3, <2>4 DEF Sorted
<1> QED BY <1>1, <1>2, <1>3, <1>4

LEMMA RangeOfTwo ==
  ASSUME NEW s \in Seq(Characters), NEW t \in Seq(Characters)
  PROVE  \A c \in Range(s \o t) : c \in Range(s) \/ c \in Range(t)
  BY DEF Range

RisingSegments(segments) ==
  segments \in Seq(Texts) /\ \A j, k \in 1 .. Len(segments) : j <= k => Rises(segments[j], segments[k])

LEMMA StreamRises ==
  ASSUME NEW segments, RisingSegments(segments)
  PROVE  Sorted(Joined(segments))
<1> DEFINE n == Len(segments)
           G == {k \in 0 .. n : /\ Sorted(Upto(segments, k))
                                /\ \A c \in Range(Upto(segments, k)) :
                                      c = Newline \/ \E l \in 1 .. k : c \in Range(segments[l])}
<1>0. segments \in Seq(Texts) /\ n \in Nat
  BY DEF RisingSegments
<1>1. /\ Upto(segments, 0) = <<>> /\ Upto(segments, n) = Joined(segments)
      /\ \A k \in 0 .. n : Upto(segments, k) \in Seq(Characters)
      /\ \A k \in 0 .. (n - 1) :
            Upto(segments, k + 1) = Upto(segments, k) \o (Gap(k + 1) \o segments[k + 1])
  BY <1>0, StreamIs
<1>2. 0 \in G
  <2>1. Len(<<>>) = 0 /\ Range(<<>>) = {}
    BY DEF Range
  <2> QED BY <1>0, <1>1, <2>1 DEF Sorted
<1>3. ASSUME NEW k \in 0 .. (n - 1), k \in G PROVE k + 1 \in G
  <2>1. PICK m \in 1 .. n : m = k + 1
    BY <1>0
  <2>2. PICK s : s = Upto(segments, k)
    OBVIOUS
  <2>3. PICK t : t = segments[m]
    OBVIOUS
  <2>4. /\ s \in Seq(Characters) /\ Gap(m) \in Seq(Characters) /\ t \in Seq(Characters)
        /\ Upto(segments, m) = s \o (Gap(m) \o t)
    <3>1. k \in 0 .. n
      BY <1>0
    <3> QED BY <1>0, <1>1, <2>1, <2>2, <2>3, <3>1, PiecesAre
  <2>5. /\ Sorted(s)
        /\ \A c \in Range(s) : c = Newline \/ \E l \in 1 .. k : c \in Range(segments[l])
    BY <1>3, <2>2
  <2>6. \A c \in Range(Gap(m)) : c = Newline
    BY DEF Gap, Range
  <2>7. Newline[1] = 0
    BY DEF Newline
  <2>8. Sorted(t)
    <3>1. Rises(t, t)
      BY <2>1, <2>3 DEF RisingSegments
    <3> QED BY <2>4, <3>1, SortedAlone
  <2>9. \A c \in Range(t) : c[1] \in Nat
    BY <2>4 DEF Range, Characters
  <2>10. Sorted(Gap(m) \o t) /\ Gap(m) \o t \in Seq(Characters)
    <3>1. Rises(Gap(m), Gap(m)) /\ Rises(Gap(m), t)
      BY <2>6, <2>7, <2>9 DEF Rises
    <3> QED BY <2>4, <2>8, <3>1, SortedAlone, SortedJoin
  <2>11. Rises(s, Gap(m) \o t)
    <3> SUFFICES ASSUME NEW c \in Range(s), NEW d \in Range(Gap(m) \o t), d[1] > 0 PROVE c[1] <= d[1]
      BY DEF Rises
    <3>1. d \in Range(t)
      <4>1. d # Newline
        BY <2>7
      <4> QED BY <2>4, <2>6, <4>1, RangeOfTwo
    <3>2. CASE c = Newline
      BY <2>7, <2>9, <3>1, <3>2
    <3>3. ASSUME NEW l \in 1 .. k, c \in Range(segments[l]) PROVE c[1] <= d[1]
      <4>1. l \in 1 .. n /\ l <= m
        BY <1>0, <2>1
      <4>2. Rises(segments[l], t)
        BY <2>1, <2>3, <4>1 DEF RisingSegments
      <4> QED BY <3>1, <3>3, <4>2 DEF Rises
    <3> QED BY <2>5, <3>2, <3>3
  <2>12. Sorted(Upto(segments, m))
    BY <2>4, <2>5, <2>10, <2>11, SortedJoin
  <2>13. ASSUME NEW c \in Range(Upto(segments, m))
         PROVE  c = Newline \/ \E l \in 1 .. m : c \in Range(segments[l])
    <3>1. c \in Range(s) \/ c \in Range(Gap(m)) \/ c \in Range(t)
      BY <2>4, <2>10, <2>13, RangeOfTwo
    <3>2. \A l \in 1 .. k : l \in 1 .. m
      BY <2>1
    <3> QED BY <2>1, <2>3, <2>5, <2>6, <3>1, <3>2
  <2>14. m \in 0 .. n
    OBVIOUS
  <2> QED BY <2>1, <2>12, <2>13, <2>14
<1> HIDE DEF G
<1>4. \A k \in 0 .. n : k \in G
  BY <1>0, <1>2, <1>3, UpTo
<1>5. n \in 0 .. n
  BY <1>0
<1>6. Sorted(Upto(segments, n))
  BY <1>4, <1>5 DEF G
<1> QED BY <1>1, <1>6

-----------------------------------------------------------------------------
(* From the page on.                                                       *)
WriteInv ==
  /\ phase \notin {"render", "parse"} => Writes(parser.nodes, at, sections, names, files)
  /\ Built => at = Len(BlockNodes(parser.nodes))

TreeInv == BuildOK /\ PageOK /\ WriteInv

LEMMA WriteFirst == Init => WriteInv
  BY DEF Init, WriteInv, Built

LEMMA WriteStep == BuildOK /\ PageOK /\ WriteInv /\ [Next]_vars => WriteInv'
<1> SUFFICES ASSUME BuildOK, PageOK, WriteInv, [Next]_vars PROVE WriteInv'
  OBVIOUS
<1>1. CASE SkipBlock \/ RenderPdfBlock \/ RenderDocxBlock \/ FinishHtml \/ Parse
  <2>1. phase' \in {"render", "parse"}
    BY <1>1 DEF SkipBlock, RenderPdfBlock, RenderDocxBlock, FinishHtml, Parse, Rendering
  <2> QED BY <2>1 DEF WriteInv, Built
<1>2. CASE StartWriting
  <2>1. /\ phase = "parse" /\ at = Len(html) /\ phase' = "write" /\ at' = 0
        /\ sections' = <<<<0, <<>>>>>> /\ names' = With(<<>>, <<>>, <<>>)
        /\ UNCHANGED <<kind, blocks, parser, files>>
    BY <1>2 DEF StartWriting
  <2>2. files = <<>> /\ parser.nodes \in Seq(NodeSet) /\ SourceOK
    BY <2>1, ParserFields DEF BuildOK, Unwritten, HtmlOK
  <2>3. Tree(parser.nodes, Len(blocks))
    BY <2>1 DEF PageOK, Parsing
  <2>4. PICK secs : secs = sections' /\ secs = <<<<0, <<>>>>>>
    BY <2>1
  <2>5. PICK given : given = names' /\ given = With(<<>>, <<>>, <<>>)
    BY <2>1
  <2>6. Writes(parser.nodes, 0, secs, given, <<>>)
    BY <2>2, <2>3, <2>4, <2>5, FirstWrites
  <2>7. Writes(parser'.nodes, at', sections', names', files')
    BY <2>1, <2>2, <2>4, <2>5, <2>6
  <2> QED BY <2>1, <2>7, SameWrites DEF WriteInv, Built, SameFile
<1>3. CASE WriteHeading \/ WriteBlock
  <2>1. phase = "write" /\ at' = at + 1 /\ UNCHANGED <<kind, blocks, phase, parser>>
    BY <1>3 DEF WriteHeading, WriteBlock, Writing
  <2>2. Writes(parser.nodes, at, sections, names, files)
    BY <2>1 DEF WriteInv
  <2>3. Writes(parser.nodes, at + 1, sections', names', files')
    BY <1>3, <2>2, HeadingWrites, BlockWrites
  <2>4. Writes(parser'.nodes, at', sections', names', files')
    BY <2>1, <2>3
  <2> QED BY <2>1, <2>4, SameWrites DEF WriteInv, Built, SameFile
<1>4. CASE StartCutting \/ Cut \/ Validate
  <2>1. /\ phase \notin {"render", "parse"}
        /\ UNCHANGED <<kind, blocks, parser, at, sections, names, files>>
        /\ phase = "write" => at = Len(BlockNodes(parser.nodes))
        /\ phase \in {"write", "cut", "published", "refused"}
    BY <1>4 DEF StartCutting, Cut, Validate, buildVars
  <2>2. Writes(parser'.nodes, at', sections', names', files')
    BY <2>1 DEF WriteInv
  <2>3. at' = Len(BlockNodes(parser'.nodes))
    BY <2>1 DEF WriteInv, Built
  <2> QED BY <2>1, <2>2, <2>3, SameWrites DEF WriteInv, SameFile
<1>5. CASE UNCHANGED vars
  <2>1. UNCHANGED <<kind, blocks, phase, at, parser, sections, names, files>>
    BY <1>5 DEF vars, buildVars
  <2>2. phase' \notin {"render", "parse"} => Writes(parser'.nodes, at', sections', names', files')
    BY <2>1 DEF WriteInv
  <2> QED BY <2>1, <2>2, SameWrites DEF WriteInv, Built, SameFile
<1> QED BY <1>1, <1>2, <1>3, <1>4, <1>5 DEF Next

LEMMA TreeStep == TreeInv /\ [Next]_vars => TreeInv'
  BY BuildStep, PageStep, WriteStep DEF TreeInv

LEMMA TreeFirst == Init => TreeInv
  BY InitOK, PageFirst, WriteFirst DEF TreeInv

(* The directories of a file, as the property lists them.                  *)
LEMMA FileListed ==
  ASSUME Len(blocks) \in Nat, NEW path \in Seq(GivenName), NEW text \in Texts, NEW i \in Nat,
         FileOf(path, text, i), MadeOf(text) # 0
  PROVE  /\ Len(path) = Len(InOrder(StandsUnder(MadeOf(text)), Len(blocks))) + 1
         /\ \A k \in DOMAIN InOrder(StandsUnder(MadeOf(text)), Len(blocks)) :
               NamedAfter(path[k], InOrder(StandsUnder(MadeOf(text)), Len(blocks))[k])
<1>1. MadeOf(text) = i
  BY MadeOfIs DEF FileOf
<1>2. PICK heads : /\ Listing(heads, StandsUnder(i)) /\ Len(path) = Len(heads) + 1
                   /\ DirNames(path, heads, Len(heads))
  BY DEF FileOf
<1>3. PICK n \in Nat : n = Len(blocks)
  OBVIOUS
<1>4. PICK order : order = InOrder(StandsUnder(i), n)
  OBVIOUS
<1>5. /\ order \in Seq(Nat) /\ \A m : m \in Range(order) <=> m \in StandsUnder(i) /\ m \in 1 .. n
      /\ \A j, k \in 1 .. Len(order) : j < k => order[j] < order[k]
  BY <1>3, <1>4, InOrderIs
<1>6. \A m : m \in StandsUnder(i) => m \in 1 .. n
  BY <1>3, HeadingIs DEF StandsUnder
<1>7. /\ heads \in Seq(Nat) /\ \A m : m \in Range(heads) <=> m \in StandsUnder(i)
      /\ \A j, k \in 1 .. Len(heads) : j < k => heads[j] < heads[k]
  BY <1>2 DEF Listing
<1>8. \A m : m \in Range(heads) <=> m \in Range(order)
  BY <1>5, <1>6, <1>7
<1>9. heads = order
  BY <1>5, <1>7, <1>8, OneListing
<1>10. Len(path) = Len(heads) + 1 /\ DOMAIN heads = 1 .. Len(heads)
  BY <1>2, <1>7
<1>11. \A k \in 1 .. Len(heads) : NamedAfter(path[k], heads[k])
  BY <1>2 DEF DirNames
<1> QED BY <1>1, <1>3, <1>4, <1>9, <1>10, <1>11

LEMMA OutlineFollows == TreeInv => TreeIsOutline
<1> SUFFICES ASSUME TreeInv PROVE TreeIsOutline
  OBVIOUS
<1>1. BuildOK /\ PageOK /\ WriteInv /\ SourceOK
  BY DEF TreeInv, BuildOK
<1>2. Balanced
  BY <1>1, BalancedFollows
<1>3. Len(blocks) \in Nat
  BY <1>1, SourceBlocks
<1>4. ASSUME NEW path \in DOMAIN files, MadeOf(files[path]) # 0
      PROVE  LET heads == InOrder(StandsUnder(MadeOf(files[path])), Len(blocks))
             IN /\ Len(path) = Len(heads) + 1
                /\ \A k \in DOMAIN heads : NamedAfter(path[k], heads[k])
  <2>1. phase \notin {"render", "parse"}
    BY <1>1, <1>4 DEF BuildOK, Unwritten
  <2>2. path \in Seq(GivenName) /\ files[path] \in Texts
    BY <1>1, <1>4, <2>1 DEF BuildOK, TreeOK, FilesOK, Located
  <2>3. PICK src, x : WroteWith(parser.nodes, src, at, x, sections, names, files)
    BY <1>1, <2>1 DEF WriteInv, Writes
  <2>4. x \in Nat /\ FilesFollow(files, x)
    BY <2>3 DEF WroteWith, Ahead
  <2>5. PICK i \in 1 .. x : FileOf(path, files[path], i)
    BY <1>4, <2>4 DEF FilesFollow, FileFollows
  <2>6. i \in Nat
    BY <2>5
  <2> QED BY <1>3, <1>4, <2>2, <2>5, <2>6, FileListed
<1> QED BY <1>2, <1>4 DEF TreeIsOutline

LEMMA SegmentsRise ==
  ASSUME FilesOK, NEW x \in Nat, FilesFollow(files, x), FilesRise(files)
  PROVE  RisingSegments(Segments)
<1>1. /\ Segments \in Seq(Texts) /\ DOMAIN Paths = 1 .. Len(Segments)
      /\ \A k \in 1 .. Len(Segments) : Paths[k] \in DOMAIN files /\ Segments[k] = files[Paths[k]]
  BY SegmentsAre
<1>2. \A j, k \in DOMAIN Paths : j < k => WalkedBefore(Paths[j], Paths[k])
  BY PathsIs DEF Walk
<1>3. ASSUME NEW j \in 1 .. Len(Segments), NEW k \in 1 .. Len(Segments), j <= k
      PROVE  Rises(Segments[j], Segments[k])
  <2>1. CASE j < k
    BY <1>1, <1>2, <2>1 DEF FilesRise
  <2>2. CASE j = k
    <3>1. PICK i \in 1 .. x : FileOf(Paths[j], files[Paths[j]], i)
      BY <1>1 DEF FilesFollow, FileFollows
    <3>2. \A c \in Range(Segments[j]) : c[1] \in {0, i}
      BY <1>1, <3>1 DEF FileOf
    <3> QED BY <2>2, <3>2 DEF Rises
  <2> QED BY <1>3, <2>1, <2>2
<1> QED BY <1>1, <1>3 DEF RisingSegments

LEMMA StreamFollows == TreeInv => StreamFollowsSource
<1> SUFFICES ASSUME TreeInv, Built
             PROVE  /\ \A i \in Headings : \E dir \in DOMAIN names \ {<<>>} : NamedAfter(Last(dir), i)
                    /\ \A i \in Block \ Headings : Renders(blocks[i]) => Placed(i) \subseteq Written
                    /\ \A j, k \in DOMAIN Joined(Segments) :
                          j < k /\ Joined(Segments)[k][1] > 0
                             => Joined(Segments)[j][1] <= Joined(Segments)[k][1]
  BY DEF StreamFollowsSource
<1>1. BuildOK /\ WriteInv /\ phase \notin {"render", "parse"}
  BY DEF TreeInv, Built
<1>2. FilesOK /\ parser.nodes \in Seq(NodeSet) /\ at = Len(BlockNodes(parser.nodes))
  BY <1>1, ParserFields DEF BuildOK, HtmlOK, TreeOK, WriteInv
<1>3. PICK src, x : WroteWith(parser.nodes, src, at, x, sections, names, files)
  BY <1>1 DEF WriteInv, Writes
<1>4. x \in Nat /\ FilesFollow(files, x) /\ FilesRise(files)
      /\ Traced(parser.nodes, src, Len(blocks)) /\ Complete(parser.nodes, src, Len(blocks))
      /\ AllTold(parser.nodes, BlockNodes(parser.nodes), at, files, names)
  BY <1>3 DEF WroteWith, Ahead
<1>5. ASSUME NEW i \in Block, i \notin Headings, Renders(blocks[i]), NEW c \in Placed(i)
      PROVE  c \in Written
  <2>1. PICK d \in 1 .. Len(parser.nodes) :
             src[d] = i /\ IsBlockNode(parser.nodes[d]) /\ Tells(parser.nodes, d, c)
    BY <1>4, <1>5 DEF Complete, Block
  <2>7. parser.nodes[d].tag \notin HeadingTags
    <3>1. BlockNodeOK(parser.nodes, src, d)
      BY <1>4, <2>1 DEF Traced, NodeOK
    <3> QED BY <1>5, <2>1, <3>1 DEF BlockNodeOK, Headings
  <2>2. c \in Range(Said(parser.nodes, d))
    BY <1>2, <1>4, <2>1, TellsSaid
  <2>3. PICK order : order = BlockNodes(parser.nodes)
    OBVIOUS
  <2>4. order \in Seq(Nat) /\ d \in Range(order)
    BY <1>2, <1>4, <2>1, <2>3, BlockNodesAre
  <2>5. PICK j \in 1 .. Len(order) : order[j] = d
    BY <2>4 DEF Range
  <2>6. Told(parser.nodes, d, files, names)
    BY <1>2, <1>4, <2>3, <2>5 DEF AllTold
  <2>8. InFiles(c, files)
    BY <2>2, <2>6, <2>7 DEF Told, Said
  <2> QED BY <2>8, WrittenIs
<1>8. ASSUME NEW i \in Headings PROVE \E dir \in DOMAIN names \ {<<>>} : NamedAfter(Last(dir), i)
  <2>1. i \in 1 .. Len(blocks) /\ Renders(blocks[i]) /\ OutlineLevel(i) > 0 /\ Len(blocks) \in Nat
    BY <1>1, HeadingIs, SourceBlocks DEF BuildOK
  <2>2. PICK d \in 1 .. Len(parser.nodes) : src[d] = i /\ IsBlockNode(parser.nodes[d])
    BY <1>4, <2>1 DEF Complete
  <2>3. parser.nodes[d].tag \in HeadingTags
    <3>1. BlockNodeOK(parser.nodes, src, d)
      BY <1>4, <2>2 DEF Traced, NodeOK
    <3> QED BY <2>1, <2>2, <3>1 DEF BlockNodeOK
  <2>4. PICK order : order = BlockNodes(parser.nodes)
    OBVIOUS
  <2>5. order \in Seq(Nat) /\ d \in Range(order)
    BY <1>2, <1>4, <2>2, <2>4, BlockNodesAre
  <2>6. PICK j \in 1 .. Len(order) : order[j] = d
    BY <2>5 DEF Range
  <2>7. Told(parser.nodes, d, files, names)
    BY <1>2, <1>4, <2>4, <2>6 DEF AllTold
  <2>8. PICK slug : slug = SlugText(NodeText(parser.nodes, d))
    OBVIOUS
  <2>9. PICK dir \in DOMAIN names : dir # <<>> /\ dir[Len(dir)].base.slug = slug
    BY <2>3, <2>7, <2>8 DEF Told, HasDir
  <2>10. Naming(slug, i)
    BY <1>2, <1>4, <2>1, <2>2, <2>3, <2>8, HeadingNamed
  <2>11. NamedAfter(Last(dir), i)
    BY <2>9, <2>10, NamingIs DEF Last
  <2> QED BY <2>9, <2>11
<1>6. Joined(Segments) \in Seq(Characters)
  BY <1>2, SegmentsAre, StreamIs
<1>7. Sorted(Joined(Segments))
  BY <1>2, <1>4, SegmentsRise, StreamRises
<1> QED BY <1>5, <1>6, <1>7, <1>8 DEF Sorted

-----------------------------------------------------------------------------
(* In every document the HTML that is rendered is balanced, and every file *)
(* lies in the directories of the headings that its block stands under in  *)
(* the source, in their order, whatever levels the headings skip or go     *)
(* back (the sections of render_blocks_with_sections and build_html, the   *)
(* stack of the parser, the section_stack of materialize_tree).            *)
THEOREM OutlineKept == Spec => []TreeIsOutline
<1>1. Init => TreeInv
  BY TreeFirst
<1>2. TreeInv /\ [Next]_vars => TreeInv'
  BY TreeStep
<1>3. TreeInv => TreeIsOutline
  BY OutlineFollows
<1> QED BY <1>1, <1>2, <1>3, PTL DEF Spec

(* In every document each heading has a directory that is named after it,  *)
(* as far as slug_text lets a name show it; no character of another block  *)
(* that has a place in a tree is lost between the source and the files;    *)
(* and the stream that is cut into chunks follows the order of the source  *)
(* (block_nodes, write_document_children, order_key, build_index).         *)
THEOREM SourceFollowed == Spec => []StreamFollowsSource
<1>1. Init => TreeInv
  BY TreeFirst
<1>2. TreeInv /\ [Next]_vars => TreeInv'
  BY TreeStep
<1>3. TreeInv => StreamFollowsSource
  BY StreamFollows
<1> QED BY <1>1, <1>2, <1>3, PTL DEF Spec
==============================================================================
