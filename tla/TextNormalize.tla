--------------------------- MODULE TextNormalize ---------------------------
(***************************************************************************)
(* The normalizers of roundtrip/normalizers.go that work on lines:         *)
(* Doxygen blocks, Markdown, PO, WebVTT and DTD. A line is a sequence of   *)
(* atoms, each a word or a character that the code looks at; a document is *)
(* a sequence of lines. White space and trimming are those of XmlTree.     *)
(***************************************************************************)
EXTENDS XmlTree

Has(line, atom) == \E i \in DOMAIN line : line[i] = atom
StartsWith(line, prefix) == IsPrefix(prefix, line)

\* The atoms before the first one that is not in the set, and the rest.
RECURSIVE SpanLen(_, _)
SpanLen(line, atoms) == IF line # <<>> /\ line[1] \in atoms THEN 1 + SpanLen(Tail(line), atoms) ELSE 0
Span(line, atoms) == SubSeq(line, 1, SpanLen(line, atoms))
AfterSpan(line, atoms) == SubSeq(line, SpanLen(line, atoms) + 1, Len(line))
SpanBack(line, atoms) == SpanLen(Reverse(line), atoms)

JoinWith(s, sep) ==
  LET glue(acc, i) == IF i = 1 THEN s[1] ELSE acc \o sep \o s[i]
  IN FoldLeft(glue, <<>>, [i \in DOMAIN s |-> i])

----------------------------------------------------------------------------
\* Lines as such

CollapseBlankLines(doc) == SelectSeq(doc, LAMBDA l : ~Blank(l))

\* The last line of a text that ends in a newline is empty.
RECURSIVE IgnoreTrailingNewline(_)
IgnoreTrailingNewline(doc) ==
  IF Len(doc) > 1 /\ Last(doc) = <<>> THEN IgnoreTrailingNewline(Front(doc)) ELSE doc

----------------------------------------------------------------------------
\* Doxygen. A document is a sequence of pieces, blocks of comment and code.

StripMarker(line) ==
  LET t == TrimLeft(line)
  IN IF t # <<>> /\ t[1] = "*" THEN TrimLeft(Tail(t)) ELSE Trim(line)

\* Lines of a paragraph become one; an empty line stays.
Paragraphs(lines) ==
  LET join(acc, l) == IF l = <<>> THEN [out |-> Append(acc.out, <<>>), open |-> FALSE]
                      ELSE IF acc.open
                      THEN [acc EXCEPT !.out = Append(Front(@), Last(@) \o <<" ">> \o l)]
                      ELSE [out |-> Append(acc.out, l), open |-> TRUE]
  IN FoldLeft(join, [out |-> <<>>, open |-> FALSE], lines).out

RECURSIVE DropTrailingEmpty(_)
DropTrailingEmpty(lines) ==
  IF lines # <<>> /\ Last(lines) = <<>> THEN DropTrailingEmpty(Front(lines)) ELSE lines

\* Mutant: what stands behind the opening is forgotten.
DoxygenBlockMutant(lines) ==
  IF Len(lines) < 2 THEN lines
  ELSE << <<"/*">> >>
         \o Paragraphs(DropTrailingEmpty([i \in 1..(Len(lines) - 2) |-> TrimRight(StripMarker(lines[i + 1]))]))
         \o << <<"*/">> >>

DoxygenBlock(lines) ==
  LET opening == Trim(lines[1])
      after == IF opening[1] \in {"/**", "/*!"} THEN Trim(Tail(opening)) ELSE <<>>
      interior == [i \in 1..(Len(lines) - 2) |-> TrimRight(StripMarker(lines[i + 1]))]
      stripped == (IF after = <<>> THEN <<>> ELSE <<after>>) \o interior
  IN IF Len(lines) < 2 THEN lines
     ELSE << <<"/*">> >> \o Paragraphs(DropTrailingEmpty(stripped)) \o << <<"*/">> >>

\* A block that has been rewritten does not open like one any more.
IsBlock(piece) == piece[1] # <<>> /\ Trim(piece[1]) # <<>> /\ Trim(piece[1])[1] \in {"/**", "/*!"}
Doxygen(doc) ==
  LET canonical(piece) == IF IsBlock(piece) THEN DoxygenBlock(piece) ELSE piece
  IN [i \in DOMAIN doc |-> Map(TrimRight, canonical(doc[i]))]

----------------------------------------------------------------------------
\* Markdown

\* A character reference denotes a character, which may begin another one.
CharRef == [r \in {"&gt;", "&#39;", "&amp;gt;"} |->
              CASE r = "&gt;" -> ">" [] r = "&#39;" -> "'" [] r = "&amp;gt;" -> "&gt;"]
Unescape(line) == Map(LAMBDA a : IF a \in DOMAIN CharRef THEN CharRef[a] ELSE a, line)

Quoted(line) ==
  LET markers == SelectSeq(Span(line, White \cup {">"}), LAMBDA a : a = ">")
      rest == AfterSpan(line, White \cup {">"})
      tight == JoinWith(Map(LAMBDA a : <<a>>, markers), <<" ">>)
  IN IF rest = <<>> THEN tight ELSE tight \o <<" ">> \o rest

\* A link reference definition: one space before its title.
RefDef(line) ==
  LET head == <<line[1]>> \o Span(Tail(line), White)
      dest == SubSeq(line, Len(head) + 1, Len(line))
      wide == /\ dest # <<>>
              /\ Len(Span(Tail(dest), White)) >= 2
              /\ AfterSpan(Tail(dest), White) # <<>>
              /\ AfterSpan(Tail(dest), White)[1] = "title"
  IN IF wide THEN head \o <<dest[1], " ">> \o AfterSpan(Tail(dest), White) ELSE line

\* The heading of an ATX line with a closing sequence; empty if it has none.
Unclosed(line) ==
  LET closing == SpanBack(line, {"#"})
      before == SubSeq(line, 1, Len(line) - closing)
      head == TrimRight(before)
      marker == SpanLen(head, {"#"})
  IN IF /\ closing > 0
        /\ Len(head) < Len(before)
        /\ marker \in 1..6
        /\ Len(head) > marker => head[marker + 1] \in White
     THEN head ELSE <<>>


\* Each pipe of a row gets one space on either side.
Row(line) ==
  LET padding(i) == /\ line[i] \in White
                    /\ \E p \in DOMAIN line :
                         /\ line[p] = "|"
                         /\ \A j \in DOMAIN line : j \in (p+1)..(i-1) \cup (i+1)..(p-1) => line[j] \in White
      cells == SelectSeq([i \in DOMAIN line |-> i], LAMBDA i : ~padding(i))
  IN Trim(FlattenSeq(Map(LAMBDA i : IF line[i] = "|" THEN <<" ", "|", " ">> ELSE <<line[i]>>, cells)))

\* One line; what is indented gets one tab, whatever the indent was.
MarkdownLine(raw) ==
  LET line == TrimRight(raw)
      body == TrimLeft(line)
      indent == SubSeq(line, 1, Len(line) - Len(body))
      tabbed(l) == IF indent = <<>> THEN l ELSE <<"tab">> \o l
  IN IF body = <<>> THEN <<>>
     ELSE IF body[1] = ">" THEN indent \o Quoted(body)
     ELSE IF body[1] = "[ref]:" THEN RefDef(body)
     ELSE IF Unclosed(body) # <<>> THEN tabbed(Unclosed(body))
     ELSE IF body[1] = "|" THEN tabbed(Row(body))
     ELSE tabbed(body)

IsHeading(line) ==
  LET k == SpanLen(line, {"#"})
  IN k \in 1..6 /\ (Len(line) = k \/ line[k + 1] \in White)
BareHashes(line) == Len(line) \in 1..6 /\ SpanLen(line, {"#"}) = Len(line)

\* A closing sequence that stands on a line of its own, behind its heading.
DropRelocatedClosing(lines) ==
  LET untabbed(l) == IF l # <<>> /\ l[1] = "tab" THEN Tail(l) ELSE l
      dropped(i) == i > 1 /\ BareHashes(lines[i]) /\ IsHeading(untabbed(lines[i - 1]))
      kept == SelectSeq([i \in DOMAIN lines |-> i], LAMBDA i : ~dropped(i))
  IN Map(LAMBDA i : lines[i], kept)

FenceOpener(line) ==
  LET k == SpanLen(line, {"~"}) IN IF k >= 3 THEN Span(line, {"~"}) ELSE <<>>

DropFencedBlankLines(lines) ==
  LET scan(acc, l) ==
        LET t == TrimLeft(l)
        IN IF acc.fence = <<>> THEN [out |-> Append(acc.out, l), fence |-> FenceOpener(t)]
           ELSE IF StartsWith(t, acc.fence) THEN [out |-> Append(acc.out, l), fence |-> <<>>]
           ELSE IF Blank(l) THEN acc
           ELSE [acc EXCEPT !.out = Append(@, l)]
  IN FoldLeft(scan, [out |-> <<>>, fence |-> <<>>], lines).out

Markdown(doc) ==
  DropFencedBlankLines(DropRelocatedClosing(Map(LAMBDA l : MarkdownLine(Unescape(l)), doc)))

----------------------------------------------------------------------------
\* PO: a closing quote at the end of a line and an opening one on the next
\* vanish together.

PoJoin(doc) ==
  LET join(acc, l) ==
        IF acc # <<>> /\ Last(acc) # <<>> /\ Last(Last(acc)) = "quote"
           /\ TrimLeft(l) # <<>> /\ TrimLeft(l)[1] = "quote"
        THEN Append(Front(acc), Front(Last(acc)) \o Tail(TrimLeft(l)))
        ELSE Append(acc, l)
  IN FoldLeft(join, <<>>, doc)

----------------------------------------------------------------------------
\* WebVTT

\* In the body of a cue a line is appended to the one before it, the timing
\* line included.
VttFlatten(doc) ==
  LET scan(acc, l) ==
        IF l = <<>>
        THEN [body |-> FALSE,
              out |-> IF acc.out # <<>> /\ Last(acc.out) = <<>> THEN acc.out ELSE Append(acc.out, l)]
        ELSE IF Has(l, "-->") THEN [body |-> TRUE, out |-> Append(acc.out, l)]
        ELSE IF acc.body /\ acc.out # <<>> /\ Last(acc.out) # <<>>
        THEN [acc EXCEPT !.out = Append(Front(@), Last(@) \o <<" ">> \o l)]
        ELSE [acc EXCEPT !.out = Append(@, l)]
  IN FoldLeft(scan, [body |-> FALSE, out |-> <<>>], doc).out

----------------------------------------------------------------------------
\* DTD. A document is a sequence of declarations, each without its brackets.
\* An entity table maps names to values.

DtdDelims == {",", "(", ")", "|"}
NoEntities == [e \in {} |-> <<>>]

Expand(body, entities) ==
  FlattenSeq(Map(LAMBDA a : IF a \in DOMAIN entities THEN entities[a] ELSE <<a>>, body))

\* References in the values are expanded too, up to a bound that ends a cycle.
RECURSIVE Expanded(_, _, _)
Expanded(body, entities, n) ==
  IF n = 0 THEN body ELSE Expanded(Expand(body, entities), entities, n - 1)
MaxExpansions == 8

\* A literal in single quotes takes double ones, unless it holds one.
RECURSIVE FoldQuotes(_)
FoldQuotes(body) ==
  LET close == SelectInSubSeq(body, 2, Len(body), LAMBDA a : a = "'")
      inner == SubSeq(body, 2, close - 1)
  IN IF body = <<>> THEN <<>>
     ELSE IF body[1] = "'" /\ close > 0 /\ ~Has(inner, "quote")
     THEN <<"quote">> \o inner \o <<"quote">> \o FoldQuotes(SubSeq(body, close + 1, Len(body)))
     ELSE <<body[1]>> \o FoldQuotes(Tail(body))

StripDelimSpace(body) ==
  LET near(i) == \/ i > 1 /\ body[i - 1] \in DtdDelims
                 \/ i < Len(body) /\ body[i + 1] \in DtdDelims
      kept == SelectSeq([i \in DOMAIN body |-> i], LAMBDA i : ~(body[i] = " " /\ near(i)))
  IN Map(LAMBDA i : body[i], kept)

DtdBody(body, entities) ==
  Trim(StripDelimSpace(Squeeze(FoldQuotes(Expanded(body, entities, MaxExpansions)))))

\* The keyword runs to the first white space; the body follows it without any.
DtdDecl(decl, entities) ==
  LET start == TrimLeft(decl)
      k == CHOOSE i \in 0..Len(start) : /\ \A j \in 1..i : start[j] \notin White
                                        /\ i < Len(start) => start[i + 1] \in White
      keyword == SubSeq(start, 1, k)
      rest == SubSeq(start, k + 1, Len(start))
      pe == TrimLeft(rest)
      name == TrimLeft(Tail(pe))
      value == TrimLeft(Tail(name))
      inner == SubSeq(value, 2, SelectInSubSeq(value, 2, Len(value), LAMBDA a : a = value[1]) - 1)
      declares == /\ keyword = <<"ENTITY">> /\ pe # <<>> /\ pe[1] = "%"
                  /\ value # <<>> /\ value[1] \in {"'", "quote"}
                  /\ SelectInSubSeq(value, 2, Len(value), LAMBDA a : a = value[1]) > 1
      ref == [n \in {"e", "f"} |-> IF n = "e" THEN "%e;" ELSE "%f;"]
  IN [text |-> keyword \o DtdBody(rest, entities),
      entities |-> IF declares
                   THEN [e \in DOMAIN entities \cup {ref[name[1]]} |->
                           IF e = ref[name[1]] THEN DtdBody(inner, entities) ELSE entities[e]]
                   ELSE entities]

Dtd(doc) ==
  LET add(acc, d) == [out |-> Append(acc.out, d.text), entities |-> d.entities]
  IN FoldLeft(LAMBDA acc, decl : add(acc, DtdDecl(decl, acc.entities)),
              [out |-> <<>>, entities |-> NoEntities], doc).out
=============================================================================
