--------------------------- MODULE OpenXmlStyles ---------------------------
(***************************************************************************)
(* OpenXMLEffectiveRPr of roundtrip/normalizers_openxml.go: every run      *)
(* property of a document is replaced by its effective value, from the     *)
(* defaults, the chain of the paragraph style, the chain of the run style  *)
(* and the run itself, and the style definitions go. A package is a record *)
(* of its styles part and its document part.                               *)
(***************************************************************************)
EXTENDS XmlNormalize, FiniteSets

----------------------------------------------------------------------------
\* The style table

\* Of an element that may be missing: its value, its child of a name, its
\* elements.
ValIn(node) == IF node = <<>> THEN NoValue ELSE Attr(node[1], "val")
ChildIn(node, tag) == IF node = <<>> THEN <<>> ELSE Child(node[1], tag)
ElemsIn(node) == IF node = <<>> THEN <<>> ELSE Elems(node[1])

StyleEntry(style) ==
  [basedOn |-> ValIn(Child(style, "basedOn")), props |-> ElemsIn(Child(style, "rPr"))]

DocDefaults(root) == ElemsIn(ChildIn(ChildIn(ChildIn(root, "docDefaults"), "rPrDefault"), "rPr"))

\* A later definition of an id replaces an earlier one.
TableOf(root) ==
  LET styles == IF root = <<>> THEN <<>>
                ELSE SelectSeq(root[1].kids,
                               LAMBDA c : c.tag = "style" /\ Attr(c, "styleId") # NoValue)
      ids == {Attr(styles[i], "styleId") : i \in DOMAIN styles}
      last(id) == CHOOSE i \in DOMAIN styles :
                    /\ Attr(styles[i], "styleId") = id
                    /\ \A j \in (i+1)..Len(styles) : Attr(styles[j], "styleId") # id
      defaults == SelectSeq(styles, LAMBDA c : Attr(c, "default") = "1" /\ Attr(c, "type") = "paragraph")
  IN [styles |-> [id \in ids |-> StyleEntry(styles[last(id)])],
      docDefaults |-> DocDefaults(root),
      defaultPara |-> IF defaults = <<>> THEN NoValue ELSE Attr(Last(defaults), "styleId")]

StyleTable(part, strip) == TableOf(Child(IF strip THEN StripSkippable(part) ELSE part, "styles"))

\* Later properties replace earlier ones of the same name, the k-th of a name
\* the k-th, and the rest is appended.
CombineDistinct(base, add) ==
  LET nth(s, i) == Cardinality({j \in 1..i : s[j].tag = s[i].tag})
      partners(s, i, t) == {j \in DOMAIN t : t[j].tag = s[i].tag /\ nth(t, j) = nth(s, i)}
      put(i) == IF partners(base, i, add) = {} THEN base[i]
                ELSE add[CHOOSE j \in partners(base, i, add) : TRUE]
      new == SelectSeq([j \in DOMAIN add |-> j], LAMBDA j : partners(add, j, base) = {})
  IN [i \in DOMAIN base |-> put(i)] \o [k \in DOMAIN new |-> add[new[k]]]

\* The ids from a style to the root of its chain; a cycle ends it.
RECURSIVE StyleChain(_, _, _)
StyleChain(st, id, visited) ==
  IF id \in visited \/ id \notin DOMAIN st.styles THEN <<>>
  ELSE <<id>> \o StyleChain(st, st.styles[id].basedOn, visited \cup {id})

\* Mutant: the chain is applied from the youngest style.
ResolveStyleChainMutant(st, id) ==
  FoldLeft(LAMBDA acc, style : CombineDistinct(acc, st.styles[style].props),
           <<>>, StyleChain(st, id, {}))

\* The properties of a chain, from the root to the youngest style.
ResolveStyleChain(st, id) ==
  FoldLeft(LAMBDA acc, style : CombineDistinct(acc, st.styles[style].props),
           <<>>, Reverse(StyleChain(st, id, {})))

----------------------------------------------------------------------------
\* The cascade

Toggles == {"b", "bCs", "caps", "i", "iCs"}
ToggleOff(p) == Attr(p, "val") \in {"0", "false", "off"}

\* A toggle that is off is the same as none, one that is on needs no value, and
\* the automatic colour is black.
Clarified(props) ==
  LET kept == SelectSeq(props, LAMBDA p : ~(p.tag \in Toggles /\ ToggleOff(p)))
      plain(p) == IF p.tag \in Toggles
                  THEN [p EXCEPT !.attrs = SelectSeq(@, LAMBDA a : a[1] # "val")]
                  ELSE IF p.tag = "color" /\ Attr(p, "val") = "auto"
                  THEN [p EXCEPT !.attrs = [i \in DOMAIN @ |-> IF @[i][1] = "val"
                                                               THEN <<"val", "000000">> ELSE @[i]]]
                  ELSE p
  IN [i \in DOMAIN kept |-> plain(kept[i])]

WithProps(rPr, props) == [rPr EXCEPT !.kids = SortByName(Clarified(props), LAMBDA p : p.tag)]

Direct(rPr) == SelectSeq(Elems(rPr), LAMBDA p : p.tag \notin {"rStyle", "pStyle"})

Inlined(rPr, base, chain) ==
  WithProps(rPr, CombineDistinct(CombineDistinct(base, chain), Direct(rPr)))

\* The first child of a name is replaced by what a sequence holds.
ReplaceChild(n, tag, by) ==
  LET first == CHOOSE i \in DOMAIN n.kids : /\ n.kids[i].tag = tag
                                            /\ \A j \in 1..(i-1) : n.kids[j].tag # tag
  IN [n EXCEPT !.kids = SubSeq(@, 1, first - 1) \o by \o SubSeq(@, first + 1, Len(@))]

NonEmpty(rPr) == IF Elems(rPr) = <<>> THEN <<>> ELSE <<rPr>>

\* A style that is not there has no properties.
StyleProps(st, ref) == ResolveStyleChain(st, ValIn(ref))

ResolveRun(run, st, base) ==
  LET rPr == Child(run, "rPr")
  IN IF rPr # <<>>
     THEN ReplaceChild(run, "rPr", NonEmpty(Inlined(rPr[1], base, StyleProps(st, Child(rPr[1], "rStyle")))))
     ELSE IF base = <<>> THEN run
     ELSE [run EXCEPT !.kids = <<WithProps(Elem("rPr", <<>>, <<>>), base)>> \o @]

\* Runs stand in wrappers too; a paragraph below one has its own style.
RECURSIVE ResolveRuns(_, _, _)
ResolveRuns(n, st, base) ==
  [n EXCEPT !.kids = Map(LAMBDA c : IF c.tag = "r" THEN ResolveRun(c, st, base)
                                    ELSE IF c.tag \in {"p", "pPr"} THEN c
                                    ELSE ResolveRuns(c, st, base), @)]

ParagraphStyle(p, st) ==
  LET style == ChildIn(Child(p, "pPr"), "pStyle")
  IN IF style = <<>> THEN st.defaultPara ELSE ValIn(style)

\* The mark of a paragraph takes its properties, and the reference goes.
ResolveMark(pPr, base) ==
  LET rPr == Child(pPr, "rPr")
  IN [(IF rPr = <<>> THEN pPr ELSE ReplaceChild(pPr, "rPr", NonEmpty(Inlined(rPr[1], base, <<>>))))
        EXCEPT !.kids = SelectSeq(@, LAMBDA c : c.tag # "pStyle")]

\* The mark first, then the runs, from the properties of the paragraph.
ResolveFrom(p, st, base) ==
  LET pPr == Child(p, "pPr")
  IN ResolveRuns(IF pPr = <<>> THEN p ELSE ReplaceChild(p, "pPr", NonEmpty(ResolveMark(pPr[1], base))), st, base)

ResolveParagraph(p, st) ==
  ResolveFrom(p, st, CombineDistinct(st.docDefaults, ResolveStyleChain(st, ParagraphStyle(p, st))))

\* Every paragraph, and those in the runs of another one.
RECURSIVE ResolveParagraphs(_, _)
ResolveParagraphs(n, st) ==
  [n EXCEPT !.kids = Map(LAMBDA c : ResolveParagraphs(IF c.tag = "p" THEN ResolveParagraph(c, st) ELSE c, st), @)]

StripStyleDefs(part) ==
  LET bare(c) == IF c.tag # "styles" THEN c
                 ELSE [c EXCEPT !.kids = SelectSeq(@, LAMBDA s : s.tag \notin {"style", "docDefaults"})]
  IN [part EXCEPT !.kids = Map(bare, @)]

\* The package with its effective properties.
EffectiveRPr(pkg, strip) ==
  [styles |-> StripStyleDefs(pkg.styles),
   document |-> ResolveParagraphs(IF strip THEN StripSkippable(pkg.document) ELSE pkg.document,
                                  StyleTable(pkg.styles, strip))]

\* The chain of normalizers for this format: the cascade, then every entry.
CanonicalParts(pkg, o) == [part \in DOMAIN pkg |-> Canonical(pkg[part], o)]
CanonicalPackage(pkg, o) == CanonicalParts(EffectiveRPr(pkg, "StripWMLSkippableElements" \in o), o)
=============================================================================
