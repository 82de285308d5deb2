--------------------------- MODULE HtmlNormalize ---------------------------
(***************************************************************************)
(* HTMLCanonical of roundtrip/normalizers.go, on the trees the parser      *)
(* yields. The parser itself (inserted and moved elements) is external;    *)
(* what it does to a rewritten tree is that texts side by side are one.    *)
(***************************************************************************)
EXTENDS XmlTree

\* A text atom that stands for an escaped tag of a malformed <META ...>.
EscapedMeta == "<META>"

ScriptLike == {"script", "style"}
PreservesSpace(n) == n.tag \in ScriptLike \cup {"pre"}
EmptyDroppable == {"b", "i", "u", "em", "strong", "span", "font", "p"}

\* Keys that only a malformed tag has; a key without letters or digits.
MalformedKeys == {",x"}
PunctuationKeys == {";"}

TransportMeta(n) ==
  /\ n.tag = "meta"
  /\ \E i \in DOMAIN n.attrs : \/ n.attrs[i][1] = "charset"
                               \/ n.attrs[i] = <<"http-equiv", "Content-Type">>
                               \/ n.attrs[i][1] \in MalformedKeys

\* What the layout, the transport or a script-less browser needs, and nobody
\* translates.
Dropped(parent, c) ==
  \/ IsText(c) /\ ~PreservesSpace(parent) /\ Blank(c.text)
  \/ TransportMeta(c)
  \/ c.tag \in {"link", "hr", "noscript"}

\* An escaped tag goes with one space behind it.
StripEscapedMeta(text) ==
  LET gone(i) == \/ text[i] = EscapedMeta
                 \/ i > 1 /\ text[i] = " " /\ text[i - 1] = EscapedMeta
      kept == SelectSeq([i \in DOMAIN text |-> i], LAMBDA i : ~gone(i))
  IN [k \in DOMAIN kept |-> text[kept[k]]]

\* The k-th child, a text: white space at the edge of the element goes.
EdgesTrimmed(text, first, last) ==
  LET left == IF first THEN TrimLeft(text) ELSE text IN IF last THEN TrimRight(left) ELSE left
ScriptText(text) == IF text = <<" ">> THEN <<>> ELSE text

HtmlText(n, k) ==
  LET text == n.kids[k].text
  IN IF n.tag \in ScriptLike THEN ScriptText(Squeeze(text))
     ELSE IF PreservesSpace(n) THEN text
     ELSE EdgesTrimmed(Squeeze(StripEscapedMeta(text)), k = 1, k = Len(n.kids))

\* Values are trimmed; of the keys without a letter the first of each stays.
Trimmed(value) == IF value = " 1 " THEN "1" ELSE value
HtmlAttrs(attrs) ==
  LET repeated(i) == /\ attrs[i][1] \in PunctuationKeys
                     /\ \E j \in 1..(i - 1) : attrs[j][1] = attrs[i][1]
      kept == SelectSeq([i \in DOMAIN attrs |-> i], LAMBDA i : ~repeated(i))
  IN SortAttrs([k \in DOMAIN kept |-> <<attrs[kept[k]][1], Trimmed(attrs[kept[k]][2])>>])

\* The children first; edges are judged before anything is removed.
TextNode(text) == IF text = <<>> THEN <<>> ELSE <<Text(text)>>

HtmlChild(n, k) ==
  LET c == n.kids[k]
  IN IF c.tag = "center" THEN c.kids
     ELSE IF Dropped(n, c) THEN <<>>
     ELSE IF IsText(c) THEN TextNode(HtmlText(n, k))
     ELSE <<c>>

HtmlElement(n) ==
  LET hollow(c) == n.tag # Root /\ c.tag \in EmptyDroppable /\ c.kids = <<>>
  IN [n EXCEPT !.kids = SelectSeq(FlattenSeq([k \in DOMAIN @ |-> HtmlChild(n, k)]), LAMBDA c : ~hollow(c)),
               !.attrs = HtmlAttrs(@)]

RECURSIVE HtmlNode(_)
HtmlNode(n) == HtmlElement([n EXCEPT !.kids = Map(HtmlNode, @)])

Html(doc) == Decoded(HtmlNode(doc))
=============================================================================
