---------------------------- MODULE MCParitySuite ----------------------------
(***************************************************************************)
(* A small suite: two formats with a filter, whose fixtures share a base   *)
(* name, and one that only the native engine has. Either the team's notes  *)
(* vary, over one plain document, or the document behind the one fixture   *)
(* that is not skipped does.                                               *)
(***************************************************************************)
EXTENDS ParitySuite

MCFormats == {"po", "xliff2", "splicedlines", "mif"}
MCNativeFormats == {"po", "xliff2", "splicedlines"}
MCBridgeFormats == {"po", "xliff2", "mif"}
MCUpstream == [f \in MCFormats |-> IF f = "splicedlines" THEN 0 ELSE 2]

Entry(path, name) == [path |-> path, name |-> name]
MCScans ==
  <<[format |-> "po", filter |-> TRUE, skip |-> {}, min |-> [native |-> CanonicalEqual],
     class |-> "faithful", files |-> <<Entry("po/a", "a"), Entry("po/b", "b")>>],
    [format |-> "xliff2", filter |-> TRUE, skip |-> {}, min |-> [e \in {} |-> ByteEqual],
     class |-> "unclassified", files |-> <<Entry("xliff2/a", "a")>>],
    [format |-> "splicedlines", filter |-> FALSE, skip |-> {"okapi"}, min |-> [e \in {} |-> ByteEqual],
     class |-> "unclassified", files |-> <<Entry("splicedlines/c", "c")>>]>>

----------------------------------------------------------------------------
\* The documents

MCAtoms == {"a", "b", "a'", "b'", "1", " ", "br"}
MCIds == {NoName, "s1", "s2", "i1"}
MCProps == {"ignorable"}

A == Text(<<"a">>)
Br == Code("br")
Blank == Text(<<" ">>)
B == Text(<<"b", "1">>)

Plain(runs) == Side(runs, <<>>)
Named(runs) == Side(runs, <<Span("s1", {}, 0, Len(runs))>>)
Two(r1, r2) == Side(r1 \o r2, <<Span("s1", {}, 0, Len(r1)), Span("s2", {}, Len(r1), Len(r1) + Len(r2))>>)
Around(r1, gap, r2) ==
  Side(r1 \o gap \o r2,
       <<Span("s1", {}, 0, Len(r1)), Span("i1", {"ignorable"}, Len(r1), Len(r1) + Len(gap)),
         Span("s2", {}, Len(r1) + Len(gap), Len(r1 \o gap \o r2))>>)

\* A block and its inline content, which repeats what the runs say.
Contents(side) ==
  LET segs == Segments(side, NoIR)
  IN [id \in {segs[i].id : i \in DOMAIN segs} |-> (CHOOSE i \in DOMAIN segs : segs[i].id = id)]
IR(side) == [id \in DOMAIN Contents(side) |-> Segments(side, NoIR)[Contents(side)[id]].runs]
Block(translatable, source, targets, xliff2) ==
  [translatable |-> translatable, source |-> source, targets |-> targets,
   ir |-> IF xliff2 THEN [source |-> IR(source), targets |-> [loc \in DOMAIN targets |-> IR(targets[loc])]]
          ELSE [source |-> NoIR, targets |-> [loc \in {} |-> NoIR]]]

NoBlock == Block(FALSE, Plain(<<>>), [loc \in {} |-> Plain(<<>>)], FALSE)
Layer(lang) == [kind |-> "layer", lang |-> lang, region |-> NoLocale, sourceAsked |-> FALSE, block |-> NoBlock]
BlockPart(b) == [kind |-> "block", lang |-> NoLocale, region |-> NoLocale, sourceAsked |-> FALSE, block |-> b]
Document(xliff2, parts) == [xliff2 |-> xliff2, parts |-> parts]

\* XLIFF 2: segments always have names, one target language per file.
Xliff2Sources == {Named(<<A>>), Named(<<A, Br, B>>), Two(<<A>>, <<Br, B>>), Around(<<A, Br>>, <<Blank, Br>>, <<B>>)}
Xliff2Targets == {Named(<<B>>), Named(<<Blank>>), Two(<<B, Br>>, <<A>>), Around(<<B>>, <<Br, A>>, <<A>>), Plain(<<B>>)}
Xliff2Documents ==
  {Document(TRUE, <<Layer(lang), BlockPart(Block(TRUE, s, [l \in {} |-> s], TRUE))>>) :
     lang \in {NoLocale, "fr", "es"}, s \in Xliff2Sources}
  \cup {Document(TRUE, <<Layer(lang), BlockPart(Block(TRUE, s, lang :> t, TRUE))>>) :
     lang \in {"fr", "es"}, s \in Xliff2Sources, t \in Xliff2Targets}

\* Other formats: a target language per file or several languages per block.
OtherSources == {Plain(<<A, Br>>), Two(<<A>>, <<B>>)}
OtherTargets == {Plain(<<>>), Plain(<<Blank>>), Plain(<<Br, B>>), Two(<<B>>, <<A, Br>>)}
OtherDocuments ==
  {Document(FALSE, <<Layer(lang), BlockPart(Block(tr, s, [l \in {} |-> s], FALSE))>>) :
     lang \in {NoLocale, "fr", "es"}, s \in OtherSources \cup {Plain(<<>>)}, tr \in BOOLEAN}
  \cup {Document(FALSE, <<Layer(lang), BlockPart(Block(TRUE, s, "fr" :> t, FALSE))>>) :
     lang \in {NoLocale, "fr"}, s \in OtherSources, t \in OtherTargets}
  \cup {Document(FALSE, <<Layer(NoLocale), BlockPart(Block(TRUE, s, ("fr" :> t) @@ ("es" :> Plain(<<A>>)), FALSE))>>) :
     s \in OtherSources, t \in OtherTargets}
  \cup {Document(FALSE, <<Layer("es"), BlockPart(Block(TRUE, s, "es" :> t, FALSE))>>) :
     s \in OtherSources, t \in OtherTargets}

\* A file with a layer of another language before one of the requested.
Mixed ==
  LET b == BlockPart(Block(TRUE, Plain(<<A>>), [l \in {} |-> Plain(<<A>>)], FALSE))
  IN Document(FALSE, <<Layer("es"), b, Layer("fr"), b>>)

Default == Document(FALSE, <<Layer(NoLocale), BlockPart(Block(TRUE, Plain(<<A>>), [l \in {} |-> Plain(<<A>>)], FALSE))>>)
AllDefault == [p \in Paths |-> Default]

----------------------------------------------------------------------------
\* The notes

Wrote(severity, skip) == [severity |-> severity, skip |-> skip]
NoNotes == [k \in {} |-> NoNote]
OnlyFirst == (<<"po", "b">> :> Wrote("fixture-bug", {"okapi"})) @@ (<<"xliff2", "a">> :> Wrote("fixture-bug", {"okapi"}))

MCCorpora ==
  {[notes |-> n, documents |-> AllDefault] :
     n \in {NoNotes,
            <<"po", "a">> :> Wrote("cosmetic", {}),
            (<<"po", "a">> :> Wrote("bug", {"bridge"})) @@ (<<"po", "b">> :> Wrote("native-more-correct", {"native"}))}}
  \cup {[notes |-> OnlyFirst, documents |-> [AllDefault EXCEPT !["po/a"] = d]] :
     d \in Xliff2Documents \cup OtherDocuments \cup {Mixed}}
=============================================================================
