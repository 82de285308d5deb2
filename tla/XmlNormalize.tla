--------------------------- MODULE XmlNormalize ---------------------------
(***************************************************************************)
(* XMLCanonical of roundtrip/normalizers.go: the passes that bring the     *)
(* output of two engines into one form, so that only real differences are  *)
(* left. One operator per pass, and Canonical, which runs those that the   *)
(* options ask for in the order of the code.                               *)
(***************************************************************************)
EXTENDS XmlTree

----------------------------------------------------------------------------
\* IDML

CSR == "CharacterStyleRange"
PSR == "ParagraphStyleRange"
DefaultStyle == << <<"AppliedCharacterStyle", "none">> >>

IsACE(n) == n.tag = "#pi" /\ n.text = <<"ACE">>

RECURSIVE StripACEs(_)
StripACEs(n) ==
  [n EXCEPT !.kids = Map(StripACEs, SelectSeq(@, LAMBDA c : ~IsACE(c)))]

\* Nothing in it, not even white space.
EmptyContent(n) ==
  \A i \in DOMAIN n.kids : ~IsElem(n.kids[i]) /\ (IsText(n.kids[i]) => n.kids[i].text = <<>>)

RECURSIVE StripEmptyContents(_)
StripEmptyContents(n) ==
  [n EXCEPT !.kids = Map(StripEmptyContents,
                         SelectSeq(@, LAMBDA c : ~(c.tag = "Content" /\ EmptyContent(c))))]

Visible == {"Br", "TextFrame", "HyperlinkTextSource", "Footnote", "Endnote", "Note", "Table", "Cell"}

\* Nothing below the node is seen in the layout.
RECURSIVE ContentEmpty(_)
ContentEmpty(n) ==
  \A i \in DOMAIN n.kids :
    LET c == n.kids[i]
    IN IsElem(c) => IF c.tag = "Content" THEN EmptyContent(c)
                    ELSE c.tag \notin Visible /\ ContentEmpty(c)

\* Ranges of a name that hold nothing dissolve, the inner ones first.
RECURSIVE StripEmptyRanges(_, _)
StripEmptyRanges(n, tag) ==
  [n EXCEPT !.kids = SelectSeq(Map(LAMBDA c : StripEmptyRanges(c, tag), @),
                               LAMBDA c : ~(c.tag = tag /\ ContentEmpty(c)))]

\* An element that takes the text of another one behind its own, and keeps
\* nothing but text.
OwnText(n) == FlattenSeq(Map(LAMBDA c : IF IsText(c) THEN c.text ELSE <<>>, n.kids))
TextsJoined(m, n) == [m EXCEPT !.kids = <<Text(OwnText(m) \o OwnText(n))>>]

\* Contents side by side become one; only their text survives.
MergedContents(kids) ==
  LET join(acc, c) == IF c.tag = "Content" /\ acc # <<>> /\ Last(acc).tag = "Content"
                      THEN Append(Front(acc), TextsJoined(Last(acc), c)) ELSE Append(acc, c)
  IN FoldLeft(join, <<>>, kids)

Properties(n) == SelectSeq(n.kids, LAMBDA c : c.tag = "Properties")
SameProperties(p, q) ==
  Len(p) = Len(q) /\ \A k \in DOMAIN p : SameSubtree(p[k], q[k])

\* Mutant: an empty range imposes its style.
StyleOfMutant(c) == [attrs |-> c.attrs, props |-> Properties(c), content |-> TRUE]

\* The style a range brings into a run of ranges: what is empty brings none.
StyleOf(c) ==
  IF ContentEmpty(c)
  THEN [attrs |-> DefaultStyle, props |-> <<>>, content |-> FALSE]
  ELSE [attrs |-> c.attrs, props |-> Properties(c), content |-> TRUE]

\* Mutant: of two styles the later one survives.
JoinStyleMutant(r, x, defaults) ==
  IF SameProperties(r.props, x.props) /\ (SortAttrs(r.attrs) = SortAttrs(x.attrs) \/ defaults)
  THEN <<x>> ELSE <<>>

\* How a run of style r goes on with a range of style x; empty if it ends.
JoinStyle(r, x, defaults) ==
  IF ~SameProperties(r.props, x.props) THEN <<>>
  ELSE IF SortAttrs(r.attrs) = SortAttrs(x.attrs)
       THEN IF ~r.content /\ x.content THEN <<x>> ELSE <<r>>
  ELSE IF defaults /\ r.attrs = DefaultStyle
       THEN <<[x EXCEPT !.content = r.content \/ x.content]>>
  ELSE IF defaults /\ x.attrs = DefaultStyle THEN <<r>>
  ELSE <<>>

\* A range of the run; the first Properties found in any of them is kept.
MergedRange(run, style, defaults) ==
  LET all == FlattenSeq([k \in DOMAIN run |-> run[k].kids])
      others == SelectSeq(all, LAMBDA c : c.tag # "Properties")
      props == SelectSeq(all, LAMBDA c : c.tag = "Properties")
      kids == IF Len(run) = 1 THEN run[1].kids
              ELSE others \o SubSeq(props, 1, IF props = <<>> THEN 0 ELSE 1)
  IN [run[1] EXCEPT !.attrs = IF Len(run) = 1 THEN @ ELSE style.attrs,
                    !.kids = IF defaults THEN MergedContents(kids) ELSE kids]

\* Groups of a scan: the ranges of the open run with their style, and what is
\* behind it.
CloseRun(acc, defaults) ==
  IF acc.run = <<>> THEN acc.out
  ELSE Append(acc.out, MergedRange(acc.run, acc.style, defaults))

\* The open run with one more range, or a new one.
ExtendRun(acc, c, style, defaults) ==
  IF style = <<>>
  THEN [out |-> CloseRun(acc, defaults), run |-> <<c>>, style |-> StyleOf(c)]
  ELSE [acc EXCEPT !.run = Append(@, c), !.style = style[1]]

ScanRange(acc, c, defaults) ==
  IF c.tag # CSR
  THEN [out |-> Append(CloseRun(acc, defaults), c), run |-> <<>>, style |-> <<>>]
  ELSE ExtendRun(acc, c, IF acc.run = <<>> THEN <<>> ELSE JoinStyle(acc.style, StyleOf(c), defaults), defaults)

RECURSIVE MergeCSRs(_, _)
MergeCSRs(n, defaults) ==
  LET start == [out |-> <<>>, run |-> <<>>, style |-> <<>>]
  IN [n EXCEPT !.kids =
        Map(LAMBDA c : MergeCSRs(c, defaults),
            CloseRun(FoldLeft(LAMBDA acc, c : ScanRange(acc, c, defaults), start, @), defaults))]

----------------------------------------------------------------------------
\* WordprocessingML

Skippable == {"lang", "noProof", "bidiVisual", "proofErr", "permStart", "permEnd",
              "lastRenderedPageBreak"}
Containers == {"rPr", "pPr", "sdtEndPr"}
ComplexToggles == {"bCs", "iCs"}
ComplexAtoms == {"arabic"}

IsGoBack(n) == n.tag = "bookmarkStart" /\ Attr(n, "name") = "_GoBack"

RECURSIVE GoBackIDs(_)
GoBackIDs(n) ==
  UNION {(IF IsGoBack(n.kids[i]) THEN {Attr(n.kids[i], "id")} ELSE {}) \cup GoBackIDs(n.kids[i])
           : i \in DOMAIN n.kids}

HasComplexScript(t) ==
  \E i \in DOMAIN t.kids : \E j \in DOMAIN t.kids[i].text :
    IsText(t.kids[i]) /\ t.kids[i].text[j] \in ComplexAtoms

\* The toggles go from the first rPr of a run without complex script.
StripToggles(run) ==
  LET complex == \E i \in DOMAIN run.kids : run.kids[i].tag = "t" /\ HasComplexScript(run.kids[i])
      first(i) == run.kids[i].tag = "rPr" /\ \A j \in 1..(i-1) : run.kids[j].tag # "rPr"
      bare(c) == [c EXCEPT !.kids = SelectSeq(@, LAMBDA p : p.tag \notin ComplexToggles)]
  IN IF complex THEN run
     ELSE [run EXCEPT !.kids = [i \in DOMAIN @ |-> IF first(i) THEN bare(@[i]) ELSE @[i]]]

RunHasContent(run) == \E i \in DOMAIN run.kids : IsElem(run.kids[i]) /\ run.kids[i].tag # "rPr"

EmptyContainer(n) == n.tag \in Containers /\ Elems(n) = <<>> /\ n.attrs = <<>>

\* Children before their parent: a container may lose what it held.
RECURSIVE StripNode(_, _)
StripNode(n, goBack) ==
  LET skipped(c) == \/ c.tag \in Skippable
                    \/ IsGoBack(c)
                    \/ c.tag = "bookmarkEnd" /\ Attr(c, "id") \in goBack
      read == SelectSeq(n.kids, LAMBDA c : ~skipped(c))
      inner(c) == IF c.tag = "r" THEN StripToggles(StripNode(c, goBack)) ELSE StripNode(c, goBack)
  IN [n EXCEPT !.kids = SelectSeq(Map(inner, read),
                          LAMBDA c : ~(c.tag = "r" /\ ~RunHasContent(c)) /\ ~EmptyContainer(c))]

StripSkippable(n) == StripNode(n, GoBackIDs(n))

\* Equal attributes in the same order: one text element.
FusedText(kids) ==
  LET join(acc, c) == IF c.tag = "t" /\ acc # <<>> /\ Last(acc).tag = "t" /\ Last(acc).attrs = c.attrs
                      THEN Append(Front(acc), TextsJoined(Last(acc), c)) ELSE Append(acc, c)
  IN FoldLeft(join, <<>>, kids)

\* Run properties, compared with their children sorted.
RunKey(run) == Map(LAMBDA c : Emit(c, TRUE), Child(run, "rPr"))

JoinRuns(r, s) == [r EXCEPT !.kids = @ \o SelectSeq(s.kids, LAMBDA c : c.tag # "rPr")]

MergedRuns(kids) ==
  LET join(acc, c) == IF /\ c.tag = "r" /\ acc # <<>> /\ Last(acc).tag = "r"
                         /\ RunKey(Last(acc)) = RunKey(c)
                      THEN Append(Front(acc), JoinRuns(Last(acc), c))
                      ELSE Append(acc, c)
  IN FoldLeft(join, <<>>, kids)

RECURSIVE MergeRuns(_)
MergeRuns(n) ==
  [n EXCEPT !.kids = Map(LAMBDA c : IF c.tag = "r" THEN [c EXCEPT !.kids = FusedText(@)] ELSE c,
                         MergedRuns(Map(MergeRuns, @)))]

CoreTexts == {"title", "category"}
EmptyCoreProperty(n) ==
  /\ n.tag \in CoreTexts
  /\ \A i \in DOMAIN n.kids : ~IsElem(n.kids[i]) /\ (IsText(n.kids[i]) => Blank(n.kids[i].text))

RECURSIVE StripEmptyCoreProps(_)
StripEmptyCoreProps(n) ==
  IF n.tag = "coreProperties"
  THEN [n EXCEPT !.kids = SelectSeq(@, LAMBDA c : ~EmptyCoreProperty(c))]
  ELSE [n EXCEPT !.kids = Map(StripEmptyCoreProps, @)]

----------------------------------------------------------------------------
\* XMLCanonical

\* The passes by the option that asks for them, in their order.
Passes == <<"StripIDMLACEPIs", "UnwrapIDMLXMLElement", "UnwrapIDMLChange", "StripEmptyIDMLContent",
            "MergeAdjacentCSRs", "StripEmptyIDMLPSRCSR", "StripWMLSkippableElements",
            "MergeAdjacentWMLRuns", "StripEmptyCoreProperties">>

Pass(name, n, o) ==
  CASE name = "StripIDMLACEPIs" -> StripACEs(n)
    [] name = "UnwrapIDMLXMLElement" ->
         DropElements(DropElements(Unwrap(n, "XMLElement"), "XMLComment"), "XMLInstruction")
    [] name = "UnwrapIDMLChange" -> Unwrap(n, "Change")
    [] name = "StripEmptyIDMLContent" -> StripEmptyContents(n)
    [] name = "MergeAdjacentCSRs" -> MergeCSRs(n, "MergeDefaultCSRs" \in o)
    [] name = "StripEmptyIDMLPSRCSR" -> StripEmptyRanges(StripEmptyRanges(n, CSR), PSR)
    [] name = "StripWMLSkippableElements" -> StripSkippable(n)
    [] name = "MergeAdjacentWMLRuns" -> MergeRuns(n)
    [] name = "StripEmptyCoreProperties" -> StripEmptyCoreProps(n)

TransformTree(n, o) ==
  Emit(FoldLeft(LAMBDA tree, name : Pass(name, tree, o), n, SelectSeq(Passes, LAMBDA name : name \in o)),
       "SortChildElements" \in o)

\* The whole pass, from the bytes of a document to the bytes of another.
Canonical(doc, o) == Decoded(TransformTree(Collect(doc, FALSE, o), o))
=============================================================================
