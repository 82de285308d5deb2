--------------------------- MODULE CanonicalForms ---------------------------
(***************************************************************************)
(* What the normalizers of the round-trip suite promise together. Two      *)
(* engines read one document and write it back; their writers may spell it *)
(* differently, split or wrap what belongs together, or leave in what the  *)
(* other drops. The suite calls the outputs canonically equal if their     *)
(* canonical forms are, so a form has to absorb every such rewriting and   *)
(* must not absorb anything else.                                          *)
(*                                                                         *)
(* A behaviour starts from a document of one family and rewrites it step   *)
(* by step, the way a writer of that family may.                           *)
(***************************************************************************)
EXTENDS OpenXmlStyles, HtmlNormalize, TextNormalize

CONSTANTS
  Sources,          \* the documents of each family
  Rewritings(_, _), \* what one rewriting of a document of a family may yield
  MaxRewritings     \* bound on the rewritings of one document

VARIABLES
  family, source,   \* the document the engines read
  doc,              \* what a writer has made of it
  reference, form,  \* the canonical forms of source and doc
  rewritings        \* how many rewritings that took

vars == <<family, source, doc, reference, form, rewritings>>

\* The options of each family, as the coverage suite configures them.
XliffOptions == {"SortAttrs", "CollapseTextWhitespace", "StripNamespaceDecls"}
OdfOptions == {"SortAttrs", "SortChildElements", "StripNamespaceDecls"}
OpenXmlOptions == {"SortAttrs", "SortChildElements", "StripRevisionIDs", "StripXMLSpacePreserve",
                   "StripWMLSkippableElements", "MergeAdjacentWMLRuns",
                   "StripEmptyCoreProperties", "StripNamespaceDecls"}
IdmlOptions == {"SortAttrs", "SortChildElements", "MergeAdjacentCSRs", "MergeDefaultCSRs",
                "StripEmptyIDMLContent", "StripIDMLACEPIs", "UnwrapIDMLXMLElement",
                "UnwrapIDMLChange", "StripEmptyIDMLPSRCSR"}

XmlFamilies == {"xliff", "odf", "idml", "wml"}
TextFamilies == {"doxygen", "markdown", "po", "vtt", "dtd", "lines"}

XmlForm == [f \in XmlFamilies |-> CASE f = "xliff" -> XliffOptions [] f = "odf" -> OdfOptions
                                    [] f = "idml" -> IdmlOptions [] f = "wml" -> OpenXmlOptions]

Form(f, d) ==
  CASE f \in XmlFamilies -> Canonical(d, XmlForm[f])
    [] f = "package" -> CanonicalPackage(d, OpenXmlOptions)
    [] f = "html" -> Html(d)
    [] f = "doxygen" -> Doxygen(d)
    [] f = "markdown" -> Markdown(d)
    [] f = "po" -> PoJoin(IgnoreTrailingNewline(d))
    [] f = "vtt" -> VttFlatten(d)
    [] f = "dtd" -> Dtd(d)
    [] f = "lines" -> IgnoreTrailingNewline(CollapseBlankLines(d))

Init ==
  /\ family \in DOMAIN Sources
  /\ source \in Sources[family]
  /\ doc = source
  /\ form = Form(family, source) /\ reference = form
  /\ rewritings = 0

Rewrite ==
  /\ rewritings < MaxRewritings
  /\ doc' \in Rewritings(family, doc)
  /\ form' = Form(family, doc')
  /\ rewritings' = rewritings + 1
  /\ UNCHANGED <<family, source, reference>>

Next == Rewrite
Spec == Init /\ [][Next]_vars

----------------------------------------------------------------------------
\* Readings of a document that the properties compare.

Occurrences(s, w) == Len(SelectSeq(s, LAMBDA x : x = w))
SameWords(s, t) == \A w \in ToSet(s) \cup ToSet(t) : Occurrences(s, w) = Occurrences(t, w)

\* The translatable words of a document.
Marks == {"*", "/*", "*/", "/**", "/*!", "#", ">", "|", "quote", "~"} \cup White
LineWords(lines) ==
  FlattenSeq([i \in DOMAIN lines |->
                SelectSeq(lines[i], LAMBDA a : a \notin Marks)])
TextOf(f, d) ==
  CASE f \in XmlFamilies -> Words(d)
    [] f = "package" -> Words(d.document)
    [] f = "html" -> SelectSeq(Words(DropElements(d, "noscript")), LAMBDA w : w # EscapedMeta)
    [] f = "doxygen" -> LineWords(FlattenSeq(d))
    [] OTHER -> LineWords(d)

\* What a document says: in Markdown a character reference is the character it
\* denotes. A form holds the characters themselves.
Said(f, d) == IF f = "markdown" THEN Map(Unescape, d) ELSE d

\* Every element of a name, with the words below it.
RECURSIVE Below(_, _)
Below(n, tag) ==
  (IF n.tag = tag THEN {n} ELSE {}) \cup UNION {Below(n.kids[i], tag) : i \in DOMAIN n.kids}

\* The words of styled ranges with the attributes of their range.
StyledWords(d) ==
  UNION {{<<w, SortAttrs(c.attrs)>> : w \in ToSet(Words(c))} : c \in Below(d, CSR)}

\* The properties of one layer of the cascade, by name, as values.
Layer(props) ==
  [name \in {props[i].tag : i \in DOMAIN props} |->
     LET p == Last(SelectSeq(props, LAMBDA q : q.tag = name))
     IN IF name \in Toggles THEN (IF ToggleOff(p) THEN "off" ELSE "on")
        ELSE IF Attr(p, "val") = "auto" THEN "000000" ELSE Attr(p, "val")]

\* What the innermost layer that knows a property says of it.
Cascade(layers) ==
  LET names == UNION {DOMAIN layers[i] : i \in DOMAIN layers}
      inner(name) == CHOOSE i \in DOMAIN layers :
                       /\ name \in DOMAIN layers[i]
                       /\ \A j \in (i + 1)..Len(layers) : name \notin DOMAIN layers[j]
  IN {<<name, layers[inner(name)][name]>> : name \in names}

\* What is skipped, toggles that are off, and complex-script toggles without
\* complex script leave no trace.
Shown(props, complex) ==
  {p \in props : /\ p[1] \notin Skippable
                 /\ ~(p[1] \in Toggles /\ p[2] = "off")
                 /\ p[1] \in ComplexToggles => complex}

\* Style ids from the root of the chain down.
Ancestry(st, id) == Reverse(StyleChain(st, id, {}))

Styling(run, layers) ==
  LET complex == \E i \in DOMAIN run.kids : run.kids[i].tag = "t" /\ HasComplexScript(run.kids[i])
  IN {<<w, Shown(Cascade(layers), complex)>> : w \in ToSet(Words(run))}

\* The words of a document with what the standard's cascade says of them.
StyleLayers(st, id) == Map(LAMBDA s : Layer(st.styles[s].props), Ancestry(st, id))
Layers(st, p, rPr) ==
  <<Layer(st.docDefaults)>> \o StyleLayers(st, ParagraphStyle(p, st))
    \o StyleLayers(st, ValIn(ChildIn(rPr, "rStyle"))) \o Map(LAMBDA r : Layer(Direct(r)), rPr)

FormattingBy(st, document) ==
  UNION {UNION {Styling(run, Layers(st, p, Child(run, "rPr"))) : run \in Below(p, "r")}
          : p \in Below(document, "p")}
Formatting(pkg) == FormattingBy(StyleTable(pkg.styles, TRUE), pkg.document)

\* The words of a canonical document with the properties written at their run.
Written(pkg) ==
  UNION {Styling(run, Map(LAMBDA r : Layer(Elems(r)), Child(run, "rPr"))) : run \in Below(pkg.document, "r")}

----------------------------------------------------------------------------
\* Properties

\* Whatever the writers do differently, the form is that of the document they
\* read: in XML the order of attributes and of property elements, split or
\* wrapped ranges and runs, empty shells, revision ids, proofing marks; in a
\* package formatting that one writer lifts into a synthesized style, restates
\* or reorders and the other leaves inline; in HTML transport tags, empty inline
\* elements, wrappers, indentation and malformed tags that one writes as text; in
\* the formats compared by line the cuts, markers, spaces and blank lines.
FormsAgree == form = reference

\* No word is lost, doubled or made up on the way to the form: two outputs with
\* different words never have one form. (An entity of a DTD is a word that
\* stands for others, so that family is left out.)
WordsSurvive == family # "dtd" => SameWords(TextOf(family, form), TextOf(family, Said(family, doc)))

\* Merging ranges never paints text of one style with another one: only the
\* default style gives way to a neighbour's.
StyledTextKeepsStyle ==
  family = "idml" =>
    \A p \in StyledWords(doc) : p[2] # DefaultStyle => p \in StyledWords(form)

\* After the cascade every word carries exactly the properties that the layers
\* of the standard give it, each from the innermost layer that knows it.
FormattingSurvives == family = "package" => Written(form) = Formatting(doc)

\* A run whose only properties are complex-script toggles, without such script:
\* its rPr is emptied after the empty ones have been dropped, and stays.
TogglesAlone(run) ==
  LET rPr == Child(run, "rPr")
      names == {c.tag : c \in IF rPr = <<>> THEN {} ELSE ToSet(Elems(rPr[1]))} \ Skippable
  IN /\ names # {} /\ names \subseteq ComplexToggles
     /\ ~\E c \in ToSet(run.kids) : c.tag = "t" /\ HasComplexScript(c)

\* A character reference that denotes the beginning of another one: the form has
\* the inner one, which the next application decodes.
TwiceEscaped(line) == \E a \in ToSet(line) \cap DOMAIN CharRef : CharRef[a] \in DOMAIN CharRef

\* A heading with two closing sequences: one goes with every application.
TwiceClosed(line) == Unclosed(Unclosed(Trim(Unescape(line)))) # <<>>

\* Where the normalizers are not idempotent. The body of a DTD declaration is
\* glued to its keyword, and with every application loses one more space.
NotYetFinal(f, d) ==
  CASE f = "dtd" -> \E decl \in ToSet(Dtd(d)) : ToSet(decl) \cap White # {}
    [] f = "wml" -> \E run \in Below(d, "r") : TogglesAlone(run)
    [] f = "markdown" -> \E line \in ToSet(d) : TwiceEscaped(line) \/ TwiceClosed(line)
    [] OTHER -> FALSE


=============================================================================
