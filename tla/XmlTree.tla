------------------------------ MODULE XmlTree ------------------------------
(***************************************************************************)
(* The XML trees the parity normalizers work on (xmlNode in                *)
(* roundtrip/normalizers.go) and the passes every format shares.           *)
(*                                                                         *)
(* A document is a node; a node that is no element (text, processing       *)
(* instruction, comment) is raw. An attribute is a pair of name and value, *)
(* a text a sequence of atoms, each standing for a piece of text that is   *)
(* never taken apart. Options are the names of the flags that are set.     *)
(***************************************************************************)
EXTENDS Naturals, Sequences, SequencesExt

CONSTANT
  NameOrder   \* names of elements and attributes, in the order of the bytes

ASSUME NamesAreDistinct ==
  \A i, j \in DOMAIN NameOrder : NameOrder[i] = NameOrder[j] => i = j

Map(F(_), s) == [i \in DOMAIN s |-> F(s[i])]

Elem(tag, attrs, kids) == [tag |-> tag, attrs |-> attrs, kids |-> kids, text |-> <<>>]
Raw(kind, text) == [tag |-> kind, attrs |-> <<>>, kids |-> <<>>, text |-> text]
Text(text) == Raw("#text", text)

Root == "#doc"
RawKinds == {"#text", "#pi", "#comment", "#decl"}
IsElem(n) == n.tag \notin RawKinds
IsText(n) == n.tag = "#text"
Elems(n) == SelectSeq(n.kids, IsElem)

\* The value of an attribute, by local name.
NoValue == "-"
Attr(n, name) ==
  LET hits == SelectSeq(n.attrs, LAMBDA a : a[1] = name)
  IN IF hits = <<>> THEN NoValue ELSE hits[1][2]

\* The first child element of a name; a sequence, empty if there is none.
Child(n, tag) ==
  LET hits == SelectSeq(n.kids, LAMBDA c : c.tag = tag)
  IN IF hits = <<>> THEN <<>> ELSE <<hits[1]>>

\* A stable sort by name.
SortByName(s, Name(_)) ==
  FlattenSeq([k \in DOMAIN NameOrder |-> SelectSeq(s, LAMBDA x : Name(x) = NameOrder[k])])

SortAttrs(attrs) == SortByName(attrs, LAMBDA a : a[1])

\* Attribute lists are compared regardless of order (sameXMLAttrs), except for
\* the text elements of a run (sameAttrs).
SameAttrs(m, n) == SortAttrs(m.attrs) = SortAttrs(n.attrs)

RECURSIVE SameSubtree(_, _)
SameSubtree(m, n) ==
  /\ m.tag = n.tag
  /\ m.text = n.text
  /\ SameAttrs(m, n)
  /\ Len(m.kids) = Len(n.kids)
  /\ \A k \in DOMAIN m.kids : SameSubtree(m.kids[k], n.kids[k])

----------------------------------------------------------------------------
\* Text

White == {" ", "tab", "newline"}
Blank(text) == \A i \in DOMAIN text : text[i] \in White

RECURSIVE TrimLeft(_)
TrimLeft(s) == IF s # <<>> /\ s[1] \in White THEN TrimLeft(Tail(s)) ELSE s
RECURSIVE TrimRight(_)
TrimRight(s) == IF s # <<>> /\ Last(s) \in White THEN TrimRight(Front(s)) ELSE s
Trim(s) == TrimLeft(TrimRight(s))

\* Runs of white space become one space.
Squeeze(text) ==
  LET take(acc, c) == IF c \notin White THEN Append(acc, c)
                      ELSE IF acc # <<>> /\ Last(acc) = " " THEN acc
                      ELSE Append(acc, " ")
  IN FoldLeft(take, <<>>, text)

Untab(text) == [i \in DOMAIN text |-> IF text[i] = "tab" THEN " " ELSE text[i]]

CollapseText(text) == Trim(Squeeze(text))

----------------------------------------------------------------------------
\* From bytes to tokens to a tree and back

RevisionIDs == {"paraId", "rsidR"}

KeptAttrs(attrs, o) ==
  LET dropped(a) == \/ "StripNamespaceDecls" \in o /\ a[1] = "xmlns"
                    \/ "StripRevisionIDs" \in o /\ a[1] \in RevisionIDs
                    \/ "StripXMLSpacePreserve" \in o /\ a = <<"space", "preserve">>
      kept == SelectSeq(attrs, LAMBDA a : ~dropped(a))
  IN IF "SortAttrs" \in o THEN SortAttrs(kept) ELSE kept

CleanText(text, o) ==
  IF "CollapseTextWhitespace" \in o THEN CollapseText(Untab(text)) ELSE Untab(text)

\* White space between elements goes, except where it may be a text of its own.
KeepsSpace(n, o) == n.tag = "Content" /\ o \cap {"StripIDMLACEPIs", "MergeAdjacentCSRs"} # {}

RECURSIVE Collect(_, _, _)
Collect(n, inside, o) ==
  LET space == inside \/ KeepsSpace(n, o)
      kept == SelectSeq(n.kids, LAMBDA c : /\ c.tag # "#decl"
                                           /\ IsText(c) => space \/ ~Blank(c.text))
  IN [n EXCEPT !.attrs = KeptAttrs(@, o),
               !.kids = Map(LAMBDA c : IF IsElem(c) THEN Collect(c, space, o)
                                       ELSE IF IsText(c) THEN Text(CleanText(c.text, o))
                                       ELSE c, kept)]

\* What a decoder reads from the bytes an encoder wrote: texts side by side are
\* one text, and an empty one is none.
RECURSIVE Decoded(_)
Decoded(n) ==
  LET join(acc, c) ==
        IF IsText(c) /\ c.text = <<>> THEN acc
        ELSE IF IsText(c) /\ acc # <<>> /\ IsText(Last(acc))
        THEN Append(Front(acc), Text(Last(acc).text \o c.text))
        ELSE Append(acc, c)
  IN [n EXCEPT !.kids = Map(Decoded, FoldLeft(join, <<>>, @))]

\* Elements change places among the slots of elements; what is raw stays.
SortedChildren(kids) ==
  LET slots == SelectSeq([i \in DOMAIN kids |-> i], LAMBDA i : IsElem(kids[i]))
      sorted == SortByName([k \in DOMAIN slots |-> kids[slots[k]]], LAMBDA c : c.tag)
      place(i) == CHOOSE k \in DOMAIN slots : slots[k] = i
  IN [i \in DOMAIN kids |-> IF IsElem(kids[i]) THEN sorted[place(i)] ELSE kids[i]]

RECURSIVE Emit(_, _)
Emit(n, sort) ==
  [n EXCEPT !.kids = Map(LAMBDA c : Emit(c, sort),
                         IF sort /\ n.tag # Root THEN SortedChildren(@) ELSE @)]

----------------------------------------------------------------------------
\* Removing and unwrapping elements of a name, at any depth

RECURSIVE DropElements(_, _)
DropElements(n, tag) ==
  [n EXCEPT !.kids = Map(LAMBDA c : DropElements(c, tag), SelectSeq(@, LAMBDA c : c.tag # tag))]

RECURSIVE Unwrap(_, _)
Unwrap(n, tag) ==
  LET spliced(c) == IF c.tag = tag THEN c.kids ELSE <<c>>
  IN [n EXCEPT !.kids = FlattenSeq(Map(spliced, Map(LAMBDA c : Unwrap(c, tag), @)))]

\* The atoms of all texts below a node, in document order.
RECURSIVE Words(_)
Words(n) ==
  SelectSeq(n.text, LAMBDA c : IsText(n) /\ c \notin White)
    \o FlattenSeq([i \in DOMAIN n.kids |-> Words(n.kids[i])])
=============================================================================
