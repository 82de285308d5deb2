-------------------------- MODULE MCCanonicalForms --------------------------
(***************************************************************************)
(* Documents for CanonicalForms, a few of each family, and the rewritings  *)
(* the comments of the normalizers and of coverage_test.go report of the   *)
(* writers of okapi and of the native engine.                              *)
(***************************************************************************)
EXTENDS CanonicalForms

MCNameOrder ==
  <<",x", ";", "AppliedCharacterStyle", "Br", "Change", "CharacterStyleRange", "Content",
    "Font", "KerningMethod", "Leading", "ParagraphStyleRange", "Properties", "Table", "XMLElement",
    "a", "b", "bCs", "basedOn", "body", "bookmarkEnd", "bookmarkStart", "category", "center",
    "charset", "color", "coreProperties", "default", "docDefaults", "font", "hr", "href",
    "http-equiv", "i", "id", "lang", "link", "meta", "mrk", "name", "noscript", "p", "pPr",
    "pStyle", "paraId", "pre", "proofErr", "r", "rPr", "rPrDefault", "rStyle", "rsidR", "script",
    "sectPr", "source", "space", "style", "styleId", "styles", "t", "title", "type", "unit",
    "val", "xmlns">>

E(tag, kids) == Elem(tag, <<>>, kids)
Doc(kids) == Elem(Root, <<>>, kids)
Val(tag, v) == Elem(tag, << <<"val", v>> >>, <<>>)
Bare(tag) == Elem(tag, <<>>, <<>>)

----------------------------------------------------------------------------
\* Rewriting one node of a tree, or one piece of a sequence

\* n with the k-th child replaced by a sequence of nodes.
Splice(n, k, nodes) == [n EXCEPT !.kids = SubSeq(@, 1, k - 1) \o nodes \o SubSeq(@, k + 1, Len(@))]
Inserted(n, k, nodes) == [n EXCEPT !.kids = SubSeq(@, 1, k - 1) \o nodes \o SubSeq(@, k, Len(@))]

\* What a writer of a family may put between the children of an element.
GoBack == << Elem("bookmarkStart", << <<"id", "1">>, <<"name", "_GoBack">> >>, <<>>),
             Elem("bookmarkEnd", << <<"id", "1">> >>, <<>>) >>
EmptyCSR == Elem(CSR, << <<"AppliedCharacterStyle", "bold">>, <<"KerningMethod", "o">> >>, <<>>)
Fillers(f, tag) ==
  CASE f = "wml" /\ tag = "p" -> {<<Bare("proofErr")>>, GoBack, <<E("r", <<E("rPr", <<Bare("i")>>)>>)>>}
    [] f = "wml" /\ tag = "rPr" -> {<<Bare("lang")>>}
    [] f = "wml" /\ tag = "coreProperties" -> {<<E("category", <<>>)>>}
    [] f = "idml" /\ tag = PSR -> {<<EmptyCSR>>}
    [] f = "idml" /\ tag = "Content" -> {<<Raw("#pi", <<"ACE">>)>>}
    [] f = "idml" /\ tag = CSR -> {<<E("Content", <<>>)>>}
    [] f = "idml" /\ tag = Root -> {<<E(PSR, <<E(CSR, <<>>)>>)>>}
    [] f = "html" /\ tag = "body" -> {<<Elem("meta", << <<"charset", "u">> >>, <<>>)>>, <<E("noscript", <<Text(<<"x">>)>>)>>,
                                      <<Text(<<"newline", " ">>)>>, <<E("b", <<>>)>>}
    [] f = "html" /\ tag = "p" -> {<<Bare("hr")>>, <<Elem("font", << <<"id", "1">> >>, <<>>)>>}
    [] OTHER -> {}

\* The attribute lists a writer may give an element.
Spellings(f, n) ==
  LET added(a) == {<<a>> \o n.attrs, Append(n.attrs, a)}
  IN {Reverse(n.attrs)}
     \cup (CASE f = "wml" /\ n.tag = "t" -> added(<<"space", "preserve">>)
             [] f = "wml" /\ n.tag \in {"r", "p"} -> added(<<"rsidR", "7">>)
             [] f \in {"xliff", "odf"} /\ n.tag # Root -> added(<<"xmlns", "x">>)
             [] f = "html" /\ Attr(n, ";") # NoValue -> {Append(n.attrs, <<";", "1">>)}
             [] f = "html" /\ Attr(n, "href") = "1" -> {[i \in DOMAIN n.attrs |->
                                                        IF n.attrs[i][1] = "href" THEN <<"href", " 1 ">> ELSE n.attrs[i]]}
             [] OTHER -> {})

\* Elements whose children have no order of their own.
Unordered(f) == CASE f = "odf" -> {"unit"} [] f = "idml" -> {"Properties"} [] f = "wml" -> {"rPr"} [] OTHER -> {}

\* Elements that a writer may cut in two, with what both parts keep.
Cuts(f, c) ==
  LET frame == SelectSeq(c.kids, LAMBDA k : k.tag \in {"rPr", "Properties"})
      rest == SelectSeq(c.kids, LAMBDA k : k.tag \notin {"rPr", "Properties"})
      part(a, b) == [c EXCEPT !.kids = frame \o SubSeq(rest, a, b)]
      text(a, b) == [c EXCEPT !.kids = <<Text(SubSeq(c.kids[1].text, a, b))>>]
  IN IF \/ f = "wml" /\ c.tag = "r"
        \/ f = "idml" /\ c.tag = CSR
     THEN {p \in {<<part(1, k), part(k + 1, Len(rest))>> : k \in 1..(Len(rest) - 1)} :
             f = "idml" /\ frame # <<>> => ~ContentEmpty(p[1]) /\ ~ContentEmpty(p[2])}
     ELSE IF /\ <<f, c.tag>> \in {<<"wml", "t">>, <<"idml", "Content">>}
             /\ Len(c.kids) = 1 /\ IsText(c.kids[1])
     THEN {<<text(1, k), text(k + 1, Len(c.kids[1].text))>> : k \in 1..(Len(c.kids[1].text) - 1)}
     ELSE {}

\* Elements that a writer may put another one around.
Wrappers(f, c) ==
  CASE f = "idml" /\ c.tag = CSR -> {"XMLElement"}
    [] f = "idml" /\ c.tag = "Content" -> {"Change"}
    [] f = "html" /\ c.tag = "p" -> {"center"}
    [] OTHER -> {}

\* The texts a writer may give for a text.
Padded(text, i, s) == SubSeq(text, 1, i) \o s \o SubSeq(text, i + 1, Len(text))
Texts(f, n, c) ==
  CASE f = "xliff" -> {Padded(c.text, i, <<"newline", " ">>) : i \in {j \in 0..Len(c.text) : j \in {0, Len(c.text)}}}
                      \cup {[c.text EXCEPT ![i] = "tab"] : i \in {j \in DOMAIN c.text : c.text[j] = " "}}
    [] f = "html" /\ n.tag = "p" ->
         {Padded(c.text, i, <<EscapedMeta, " ">>) : i \in {0, Len(c.text)}}
         \cup {Padded(c.text, i, <<"newline">>) : i \in (IF n.kids[1] = c THEN {0} ELSE {})
                                                     \cup (IF Last(n.kids) = c THEN {Len(c.text)} ELSE {})}
    [] OTHER -> {}

WellSpaced(n, k) ==
  \A j \in {k - 1, k} \cap DOMAIN n.kids :
    IsText(n.kids[j]) => n.kids[j].text[1] \notin White /\ Last(n.kids[j].text) \notin White

\* An empty range keeps ranges with Properties apart, and the edge of a text is
\* judged before what stands beside it is dropped: the code absorbs neither.
MayInsert(f, n, k) ==
  /\ f = "html" => WellSpaced(n, k)
  /\ n.tag = PSR => \A c \in ToSet(n.kids) : Properties(c) = <<>>

\* What one rewriting may make of a node alone.
Here(f, n) ==
  LET at == DOMAIN n.kids
  IN {[n EXCEPT !.attrs = a] : a \in Spellings(f, n)}
     \cup (IF n.tag \in Unordered(f) THEN {[n EXCEPT !.kids = Reverse(@)]} ELSE {})
     \cup {Inserted(n, k, x) : k \in {j \in 1..(Len(n.kids) + 1) : MayInsert(f, n, j)},
                               x \in Fillers(f, n.tag)}
     \cup (IF f = "wml" /\ n.tag = "r" /\ Child(n, "rPr") = <<>>
           THEN {Inserted(n, 1, <<E("rPr", <<Bare("lang")>>)>>)} ELSE {})
     \cup UNION {{Splice(n, k, x) : x \in Cuts(f, n.kids[k])} : k \in at}
     \cup UNION {{Splice(n, k, <<E(w, <<n.kids[k]>>)>>) : w \in Wrappers(f, n.kids[k])} : k \in at}
     \cup UNION {{Splice(n, k, <<Text(x)>>) : x \in Texts(f, n, n.kids[k])}
                  : k \in {j \in at : IsText(n.kids[j])}}

RECURSIVE Rewritten(_, _)
Rewritten(f, n) ==
  Here(f, n) \cup UNION {{[n EXCEPT !.kids[k] = x] : x \in Rewritten(f, n.kids[k])}
                          : k \in {j \in DOMAIN n.kids : IsElem(n.kids[j])}}

----------------------------------------------------------------------------
\* Packages: the formatting that the runs of a paragraph share is lifted into
\* a style of its own.

Shared(p, x) ==
  LET runs == SelectSeq(p.kids, LAMBDA c : c.tag = "r")
  IN /\ Child(p, "pPr") = <<>> /\ runs # <<>>
     /\ \A i \in DOMAIN runs :
          /\ Child(runs[i], "rPr") # <<>>
          /\ Child(runs[i], "rPr")[1].kids # <<>>
          /\ Child(Child(runs[i], "rPr")[1], "rStyle") = <<>>
          /\ x \in ToSet(Child(runs[i], "rPr")[1].kids)

Without(run, x) ==
  LET rPr == Child(run, "rPr")[1]
  IN ReplaceChild(run, "rPr", <<[rPr EXCEPT !.kids = SelectSeq(@, LAMBDA c : c # x)]>>)

SynthStyle(x, base) ==
  Elem("style", << <<"styleId", "NF">>, <<"type", "paragraph">> >>,
       (IF base = NoValue THEN <<>> ELSE <<Val("basedOn", base)>>) \o <<E("rPr", <<x>>)>>)

Lifted(p, x) ==
  [p EXCEPT !.kids = <<E("pPr", <<Val("pStyle", "NF")>>)>>
                       \o [i \in DOMAIN @ |-> IF @[i].tag = "r" THEN Without(@[i], x) ELSE @[i]]]

Liftings(pkg) ==
  LET st == StyleTable(pkg.styles, TRUE)
      body == pkg.document.kids[1]
      candidates(p) == UNION {ToSet(Child(r, "rPr")[1].kids)
                               : r \in {c \in ToSet(p.kids) : c.tag = "r" /\ Child(c, "rPr") # <<>>}}
      lift(k, x) == [styles |-> [pkg.styles EXCEPT !.kids[1].kids = Append(@, SynthStyle(x, st.defaultPara))],
                     document |-> [pkg.document EXCEPT !.kids[1].kids[k] = Lifted(@, x)]]
  IN IF "NF" \in DOMAIN st.styles THEN {}
     ELSE UNION {{lift(k, x) : x \in {c \in candidates(body.kids[k]) : Shared(body.kids[k], c)}}
                  : k \in DOMAIN body.kids}

\* Two spellings of one property, and a toggle that is off without need.
RECURSIVE Respelled(_)
Respelled(n) ==
  LET here == CASE n.tag = "b" /\ n.attrs = <<>> -> {Val("b", "1")}
                [] n.tag = "color" /\ Attr(n, "val") = "auto" -> {Val("color", "000000")}
                [] n.tag = "rPr" -> {[n EXCEPT !.kids = Append(@, Val("i", "0"))]}
                [] OTHER -> {}
  IN here \cup UNION {{[n EXCEPT !.kids[k] = x] : x \in Respelled(n.kids[k])} : k \in DOMAIN n.kids}

RewrittenPackages(pkg) ==
  Liftings(pkg)
    \cup {[pkg EXCEPT !.document = d] : d \in Respelled(pkg.document) \cup Rewritten("wml", pkg.document)}
    \cup {[pkg EXCEPT !.styles = s] : s \in Respelled(pkg.styles)}
    \cup {[pkg EXCEPT !.styles.kids[1].kids = Reverse(@)]}

----------------------------------------------------------------------------
\* Lines

\* The k-th line of a document replaced by lines.
SpliceLines(d, k, lines) == SubSeq(d, 1, k - 1) \o lines \o SubSeq(d, k + 1, Len(d))
\* The lines a line may be cut into, behind one of its spaces.
CutLine(l, lead, trail) ==
  {<<SubSeq(l, 1, i - 1) \o trail, lead \o SubSeq(l, i + 1, Len(l))>>
    : i \in {j \in 2..(Len(l) - 1) : l[j] = " " /\ l[j - 1] \notin Marks /\ l[j + 1] \notin Marks}}
Respaced(l, S) == {Padded(l, i, <<" ">>) : i \in {j \in DOMAIN l : l[j] \in S}}
Swapped(l, a, b) == {[l EXCEPT ![i] = b] : i \in {j \in DOMAIN l : l[j] = a}}

\* The lines a writer may give for a line of a family.
Alternatives(f, l) ==
  CASE f = "markdown" ->
         {<<Append(l, " ")>>}
         \cup {<<x>> : x \in Swapped(l, "'", "&#39;") \cup Swapped(l, "&#39;", "'") \cup Respaced(l, {"|"})}
         \cup (IF l # <<>> /\ l[1] = " " THEN {<<<<" ">> \o l>>} ELSE {})
         \cup (IF l # <<>> /\ l[1] = ">" THEN {<<x>> : x \in Respaced(l, {">"})} ELSE {})
         \cup (IF l # <<>> /\ l[1] = "[ref]:" THEN {<<x>> : x \in Respaced(l, {"dest"})} ELSE {})
         \cup (IF IsHeading(l) /\ Last(l) # "#" /\ Last(l) # " "
               THEN {<<l \o <<" ", "#">> >>, <<l, <<"#">> >>} ELSE {})
    [] f = "po" -> IF l # <<>> /\ Last(l) = "quote" THEN CutLine(l, <<"quote">>, <<" ", "quote">>) ELSE {}
    [] f = "vtt" -> IF l = <<>> THEN {<<l, l>>} ELSE IF Has(l, "-->") THEN {} ELSE CutLine(l, <<>>, <<>>)
    [] f = "dtd" -> {<<x>> : x \in Respaced(l, DtdDelims)}
                    \cup (IF l[1] = "ENTITY" THEN {} ELSE {<<x>> : x \in Swapped(l, "%e;", "v")})
                    \cup {<<[i \in DOMAIN l |-> IF l[i] = "'" THEN "quote" ELSE l[i]]>>}
    [] f = "lines" -> {<<l, <<>> >>, <<l, <<" ">> >>}

\* An interior line of a comment block, with or without its marker.
BlockLines(l) ==
  LET text == StripMarker(l)
  IN {<<text>>, <<<<" ", "*", " ">> \o text>>, <<Append(l, " ")>>} \cup CutLine(l, <<" ", "*", " ">>, <<>>)

RewrittenBlocks(d) ==
  UNION {UNION {{[d EXCEPT ![b] = SpliceLines(d[b], k, x)] : x \in BlockLines(d[b][k])}
                 : k \in 2..(Len(d[b]) - 1)}
          : b \in {i \in DOMAIN d : IsBlock(d[i])}}
  \cup {[d EXCEPT ![b] = InsertAt(@, Len(@), <<" ">>)] : b \in {i \in DOMAIN d : IsBlock(d[i])}}

\* A blank line inside a fence, and a newline at the end of the file.
Extended(f, d) ==
  CASE f = "markdown" -> {InsertAt(d, k + 1, <<>>) : k \in {i \in DOMAIN d : /\ FenceOpener(d[i]) # <<>>
                                                            /\ \A j \in 1..(i - 1) : FenceOpener(d[j]) = <<>>}}
    [] f \in {"po", "lines"} -> {Append(d, <<>>)}
    [] OTHER -> {}

RewrittenLines(f, d) ==
  UNION {{SpliceLines(d, k, x) : x \in Alternatives(f, d[k])} : k \in DOMAIN d} \cup Extended(f, d)

MCRewritings(f, d) ==
  CASE f = "package" -> RewrittenPackages(d)
    [] f = "doxygen" -> RewrittenBlocks(d)
    [] f \in TextFamilies \ {"doxygen"} -> RewrittenLines(f, d)
    [] OTHER -> Rewritten(f, d)

----------------------------------------------------------------------------
\* The documents

T(words) == E("t", <<Text(words)>>)
R(props, words) == E("r", (IF props = <<>> THEN <<>> ELSE <<E("rPr", props)>>) \o <<T(words)>>)
C(attrs, kids) == Elem(CSR, attrs, kids)
Content(words) == E("Content", <<Text(words)>>)
BoldStyle == << <<"AppliedCharacterStyle", "bold">>, <<"Leading", "2">> >>

XliffDocs == {Doc(<<E("unit", <<Elem("source", << <<"id", "1">>, <<"lang", "x">> >>, <<Text(<<"one", " ", "two">>), E("mrk", <<Text(<<"three">>)>>)>>)>>)>>)}

OdfDocs == {Doc(<<E("unit", <<E("b", <<Text(<<"one">>)>>), E("a", <<E("source", <<Text(<<"two">>)>>)>>)>>)>>)}

WmlDocs ==
  {Doc(<<E("p", <<E("pPr", <<E("rPr", <<Bare("b")>>)>>), R(<<Bare("b"), Val("color", "r")>>, <<"one", "two">>),
                  R(<<Bare("b")>>, <<"three">>), R(<<>>, <<"four", "five">>)>>)>>),
   Doc(<<E("p", <<R(<<Val("color", "r"), Bare("bCs")>>, <<"arabic">>), R(<<Val("color", "r"), Bare("bCs")>>, <<"one">>)>>),
         E("coreProperties", <<E("title", <<Text(<<"two">>)>>)>>)>>),
   Doc(<<E("p", <<R(<<Bare("bCs")>>, <<"one", "two">>)>>)>>)}

Face == E("Properties", <<E("Font", <<>>)>>)

IdmlDocs ==
  {Doc(<<E(PSR, <<C(BoldStyle, <<Content(<<"one", "two">>), Content(<<"three">>)>>),
                  C(DefaultStyle, <<Content(<<"four">>)>>), C(DefaultStyle, <<E("Br", <<>>)>>)>>)>>),
   Doc(<<E(PSR, <<C(BoldStyle, <<Content(<<"one">>), E("Br", <<>>)>>),
                  C(<< <<"AppliedCharacterStyle", "thin">> >>, <<Content(<<"two">>)>>)>>),
         E(PSR, <<E("Properties", <<E("Leading", <<>>), E("Font", <<>>)>>),
                  C(BoldStyle, <<Face, Content(<<"one">>)>>), C(BoldStyle, <<Content(<<"two">>), Face>>),
                  C(BoldStyle, <<Content(<<"three">>)>>)>>)>>)}

HtmlDocs ==
  {Doc(<<E("body", <<Elem("p", << <<"id", "1">>, <<";", "1">>, <<"href", "1">> >>, <<Text(<<"one", " ", "two">>), E("b", <<Text(<<"three">>)>>)>>),
                     E("pre", <<Text(<<"four", "newline", " ", "five">>)>>),
                     E("script", <<Text(<<"newline", "six", " ">>)>>)>>)>>),
   Doc(<<E("body", <<Elem("meta", << <<",x", "1">> >>, <<>>), E("p", <<Text(<<"one">>), Bare("hr"), Text(<<"two">>)>>)>>)>>)}

StyleDef(id, attrs, based, props) ==
  Elem("style", << <<"styleId", id>> >> \o attrs,
       (IF based = NoValue THEN <<>> ELSE <<Val("basedOn", based)>>) \o <<E("rPr", props)>>)
Para == << <<"type", "paragraph">> >>
StylesPart ==
  Doc(<<E("styles", <<E("docDefaults", <<E("rPrDefault", <<E("rPr", <<Val("color", "auto"), Val("lang", "x")>>)>>)>>),
                      StyleDef("Normal", Para \o << <<"default", "1">> >>, NoValue, <<Val("font", "serif")>>),
                      StyleDef("Head", Para, "Normal", <<Bare("b"), Val("color", "r")>>),
                      StyleDef("Strong", <<>>, "Loop", <<Val("b", "1"), Val("color", "g")>>),
                      StyleDef("Loop", <<>>, "Strong", <<Val("color", "b"), Val("font", "sans")>>)>>)>>)
Package(paras) == [styles |-> StylesPart, document |-> Doc(<<E("body", paras)>>)]
InStyle(id) == E("pPr", <<Val("pStyle", id)>>)
PackageDocs ==
  {Package(<<E("p", <<R(<<Bare("bCs")>>, <<"one">>)>>), E("p", <<InStyle("Head"), R(<<Bare("bCs")>>, <<"two">>)>>)>>),
   Package(<<E("p", <<R(<<Val("color", "r"), Bare("b")>>, <<"one">>), R(<<Bare("b")>>, <<"two">>)>>)>>),
   Package(<<E("p", <<InStyle("Head"), R(<<>>, <<"one">>), R(<<Val("b", "0"), Val("rStyle", "Loop")>>, <<"two">>),
                      R(<<Val("rStyle", "Strong"), Val("color", "k")>>, <<"three">>)>>)>>)}

DoxygenDocs ==
  {<< << <<"/**", " ", "brief">>, <<" ", "*", " ", "one", " ", "two">>, <<" ", "*">>, <<" ", "*", " ", "three">>,
         <<" ", "*/">> >>, << <<"code", " ">> >> >>}
MarkdownDocs ==
  {<< <<"#", " ", "one">>, <<>>, <<">", ">", " ", "it", "'", "s">>, <<"|", "x", "|", " ", "y", "|">>, <<" ", "two">> >>,
   << <<"[ref]:", " ", "dest", " ", "title">>, <<"~", "~", "~">>, <<"three">>, <<"~", "~", "~">>, <<"#", "#">> >>,
   << <<"four", " ", "&amp;gt;">>, <<"five">> >>,
   << <<"#", " ", "six", " ", "#", " ", "#">>, <<"seven">> >>}
PoDocs == {<< <<"msgid", " ", "quote", "one", " ", "two", " ", "three", "quote">>, <<"msgstr", " ", "quote", "quote">> >>}
VttDocs == {<< <<"WEBVTT">>, <<>>, <<"0", "-->", "1">>, <<"one", " ", "two">>, <<>>, <<"1", "-->", "2">>, <<"three", " ", "four">> >>}
DtdDocs ==
  {<< <<"ENTITY", " ", "%", " ", "e", " ", "'", "v", "'">>, <<"ENTITY", " ", "%", " ", "f", " ", "quote", "%e;", "quote">>,
      <<"ELEMENT", " ", "n", " ", "(", "%e;", "|", " ", "%f;", ")">> >>}
LinesDocs == {<< <<"one">>, <<"two">> >>}

MCSources ==
  [f \in XmlFamilies \cup TextFamilies \cup {"package", "html"} |->
     CASE f = "xliff" -> XliffDocs [] f = "odf" -> OdfDocs [] f = "wml" -> WmlDocs [] f = "idml" -> IdmlDocs
       [] f = "html" -> HtmlDocs [] f = "package" -> PackageDocs [] f = "doxygen" -> DoxygenDocs
       [] f = "markdown" -> MarkdownDocs [] f = "po" -> PoDocs [] f = "vtt" -> VttDocs
       [] f = "dtd" -> DtdDocs [] f = "lines" -> LinesDocs]

=============================================================================
