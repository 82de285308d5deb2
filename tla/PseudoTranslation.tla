------------------------ MODULE PseudoTranslation ------------------------
(***************************************************************************)
(* The pseudo-translation that the engines of the round-trip suite apply   *)
(* to a document, so that their outputs can be compared: the one in Go     *)
(* (roundtrip/pseudo.go, with the reading loop of roundtrip/native.go and  *)
(* the transform of roundtrip/bridge.go) and the step of the reference     *)
(* pipeline (PseudoTranslationStep.java).                                  *)
(*                                                                         *)
(* A block has flat runs per side; an overlay of spans cuts them into      *)
(* segments by the index of the run (an empty overlay: one segment without *)
(* a name). For XLIFF 2 the block also holds the inline content of every   *)
(* segment (ir), with the codes the flat runs only point to; its tree is   *)
(* flattened here. A text is a sequence of atoms.                          *)
(***************************************************************************)
EXTENDS Naturals, Sequences, SequencesExt

CONSTANTS
  Request,  \* the target locale the engines are asked for
  Atoms,    \* what texts are made of, the names of codes among them
  Ids,      \* the ids of segments
  Props     \* the properties of segments

NoName == "-"       \* the id of a segment that no overlay names
NoLocale == "-"

Text(atoms) == [kind |-> "text", text |-> atoms]
Code(name) == [kind |-> "code", text |-> <<name>>]
Span(id, props, from, to) == [id |-> id, props |-> props, from |-> from, to |-> to]
Side(runs, spans) == [runs |-> runs, spans |-> spans]

White == {" ", "tab", "newline"}

\* Letters with an accented form; everything else stays.
ExtLatin == [c \in {"a", "b"} |-> IF c = "a" THEN "a'" ELSE "b'"]

\* A locale is asked for.
ASSUME RequestAssumption == Request # NoLocale

\* The alphabet has the accented forms, the ids have the missing name.
ASSUME AlphabetAssumption ==
  /\ NoName \in Ids
  /\ \A c \in DOMAIN ExtLatin : ExtLatin[c] \in Atoms

PseudoText(text) == [i \in DOMAIN text |-> IF text[i] \in DOMAIN ExtLatin THEN ExtLatin[text[i]] ELSE text[i]]
Pseudo(runs) == [i \in DOMAIN runs |-> IF runs[i].kind = "text" THEN Text(PseudoText(runs[i].text)) ELSE runs[i]]

FlatText(runs) ==
  FlattenSeq([i \in DOMAIN runs |-> IF runs[i].kind = "text" THEN runs[i].text ELSE <<>>])

\* A target of white space only is no translation.
RunsHaveText(runs) == \E c \in ToSet(FlatText(runs)) : c \notin White

Held(b, loc) == loc \in DOMAIN b.targets
Translated(b, loc) == Held(b, loc) /\ RunsHaveText(b.targets[loc].runs)

----------------------------------------------------------------------------
\* The segments of a side

\* Mutant: a segment starts one run too late.
SegmentsMutant(side, ir) ==
  LET seg(sp) == [id |-> sp.id, props |-> sp.props, runs |-> SubSeq(side.runs, sp.from + 2, sp.to),
                  ir |-> IF sp.id \in DOMAIN ir THEN <<ir[sp.id]>> ELSE <<>>]
  IN IF side.spans = <<>>
     THEN IF side.runs = <<>> THEN <<>>
          ELSE <<[id |-> NoName, props |-> {}, runs |-> side.runs, ir |-> <<>>]>>
     ELSE [i \in DOMAIN side.spans |-> seg(side.spans[i])]

Segments(side, ir) ==
  LET seg(sp) == [id |-> sp.id, props |-> sp.props, runs |-> SubSeq(side.runs, sp.from + 1, sp.to),
                  ir |-> IF sp.id \in DOMAIN ir THEN <<ir[sp.id]>> ELSE <<>>]
  IN IF side.spans = <<>>
     THEN IF side.runs = <<>> THEN <<>>
          ELSE <<[id |-> NoName, props |-> {}, runs |-> side.runs, ir |-> <<>>]>>
     ELSE [i \in DOMAIN side.spans |-> seg(side.spans[i])]

SourceSegs(b) == IF b.source.runs = <<>> THEN <<>> ELSE Segments(b.source, b.ir.source)

NoIR == [id \in {} |-> <<>>]
TargetIR(b, loc) == IF loc \in DOMAIN b.ir.targets THEN b.ir.targets[loc] ELSE NoIR
TargetSegs(b, loc) == IF Held(b, loc) THEN Segments(b.targets[loc], TargetIR(b, loc)) ELSE <<>>

Ignorable(seg) == "ignorable" \in seg.props

\* Segments back to back, as one side.
Ends(segs) == [i \in DOMAIN segs |-> Len(FlattenSeq([j \in 1..i |-> segs[j].runs]))]
Spans(segs) ==
  [i \in DOMAIN segs |-> Span(segs[i].id, segs[i].props, Ends(segs)[i] - Len(segs[i].runs), Ends(segs)[i])]
Runs(segs) == FlattenSeq([i \in DOMAIN segs |-> segs[i].runs])

----------------------------------------------------------------------------
\* applyPseudoToBlockOpts

\* The requested locale if it has a translation, else any that has one.
PickBase(b) ==
  LET translated == {loc \in DOMAIN b.targets : Translated(b, loc)}
  IN IF Request \in translated THEN Request
     ELSE IF translated = {} THEN NoLocale
     ELSE CHOOSE loc \in translated : TRUE

SegsOf(b, loc) == IF loc = NoLocale THEN SourceSegs(b) ELSE TargetSegs(b, loc)
BaseLocale(b, force) == IF force /\ b.source.runs # <<>> THEN NoLocale ELSE PickBase(b)
BaseSegs(b, force) == SegsOf(b, BaseLocale(b, force))

\* Where the segments of a name are; of a map by name the last one survives.
PlacesOf(segs, id) == {i \in DOMAIN segs : segs[i].id = id}
Existing(b, id) == TargetSegs(b, Request)[Max(PlacesOf(TargetSegs(b, Request), id))]

\* Mutant: what is not to be translated is translated as well.
NewSegMutant(b, seg) ==
  [seg EXCEPT !.runs = Pseudo(@), !.ir = [i \in DOMAIN @ |-> Pseudo(@[i])]]

\* What is ignorable keeps the target it has, or copies its base.
Kept(b, seg) ==
  IF PlacesOf(TargetSegs(b, Request), seg.id) = {} THEN seg
  ELSE [seg EXCEPT !.runs = Existing(b, seg.id).runs, !.ir = Existing(b, seg.id).ir]
NewSeg(b, seg) ==
  IF Ignorable(seg) THEN Kept(b, seg)
  ELSE [seg EXCEPT !.runs = Pseudo(@), !.ir = [i \in DOMAIN @ |-> Pseudo(@[i])]]

NeedsOverlay(segs) == Len(segs) > 1 \/ segs[1].props # {} \/ segs[1].id # NoName

NewIR(segs) ==
  LET carried == {i \in DOMAIN segs : segs[i].ir # <<>> /\ segs[i].id # NoName}
  IN [id \in {segs[i].id : i \in carried} |-> segs[Max(carried \cap PlacesOf(segs, id))].ir[1]]

\* A map with an entry set.
With(map, key, value) == [k \in DOMAIN map \cup {key} |-> IF k = key THEN value ELSE map[k]]

SetTargetIR(b, ir) == IF DOMAIN ir = {} THEN b ELSE [b EXCEPT !.ir.targets = With(@, Request, ir)]

WriteTarget(b, segs) ==
  LET side == Side(Runs(segs), IF NeedsOverlay(segs) THEN Spans(segs) ELSE <<>>)
  IN SetTargetIR([b EXCEPT !.targets = With(@, Request, side)], NewIR(segs))

FromBase(b, base) ==
  IF base = <<>> THEN b ELSE WriteTarget(b, [i \in DOMAIN base |-> NewSeg(b, base[i])])

ApplyPseudo(b, force) == IF b.translatable THEN FromBase(b, BaseSegs(b, force)) ELSE b

----------------------------------------------------------------------------
\* The native engine

\* An unsegmented target belongs to the first segment of the source.
OwnSegs(b) ==
  LET own == TargetSegs(b, Request)
  IN IF own = <<>> \/ b.targets[Request].spans # <<>> \/ b.source.spans = <<>> THEN own
     ELSE <<[own[1] EXCEPT !.id = b.source.spans[1].id]>>

\* The segments at some places.
Those(segs, places) == FlattenSeq([i \in DOMAIN segs |-> IF i \in places THEN <<segs[i]>> ELSE <<>>])

Present(segs, id) == PlacesOf(segs, id) # {}
Missing(b, own) ==
  LET segs == SourceSegs(b)
  IN Those(segs, {i \in DOMAIN segs : Ignorable(segs[i]) /\ ~Present(own, segs[i].id)})
Seeded(b, own, missing) ==
  IF missing = <<>> THEN b
  ELSE [b EXCEPT !.targets[Request] = Side(Runs(own \o missing), Spans(own \o missing))]

\* Mutant: every segment of the source that has no target is copied.
SeedIgnorablesMutant(b) ==
  LET segs == SourceSegs(b)
      missing(own) == Those(segs, {i \in DOMAIN segs : ~Present(own, segs[i].id)})
  IN IF ~Held(b, Request) \/ b.targets[Request].runs = <<>> THEN b
     ELSE Seeded(b, OwnSegs(b), missing(OwnSegs(b)))

\* An ignorable of the source without a target is copied behind the target, if
\* there is one.
SeedIgnorables(b) ==
  IF ~Held(b, Request) \/ b.targets[Request].runs = <<>> THEN b
  ELSE Seeded(b, OwnSegs(b), Missing(b, OwnSegs(b)))

SameLanguage(lang) == lang \in {NoLocale, Request}

\* A part of the stream is the start of a layer or a block. The language the
\* last layer declared decides what happens to a block; XLIFF 2 is translated
\* in any case, and its layers take the requested languages.
LangAt(parts, i) ==
  LET declared == {j \in 1..i : parts[j].kind = "layer" /\ parts[j].lang # NoLocale}
  IN IF declared = {} THEN NoLocale ELSE parts[Max(declared)].lang

ReadLayer(part, xliff2) ==
  IF xliff2 THEN [part EXCEPT !.lang = Request, !.region = IF part.sourceAsked THEN NoLocale ELSE @]
  ELSE part

NativeBlock(b, lang, xliff2) ==
  IF xliff2 THEN ApplyPseudo(SeedIgnorables(b), ~SameLanguage(lang))
  ELSE IF SameLanguage(lang) THEN ApplyPseudo(b, FALSE)
  ELSE b

ReadPart(parts, i, xliff2) ==
  IF parts[i].kind = "layer" THEN ReadLayer(parts[i], xliff2)
  ELSE [parts[i] EXCEPT !.block = NativeBlock(@, LangAt(parts, i), xliff2)]

NativeRead(parts, xliff2) == [i \in DOMAIN parts |-> ReadPart(parts, i, xliff2)]

----------------------------------------------------------------------------
\* The bridge engine: the daemon shows a client the segments, never what is
\* ignorable.

Visible(side) ==
  LET all == Segments(side, NoIR)
      segs == Those(all, {i \in DOMAIN all : ~Ignorable(all[i])})
  IN IF side.spans = <<>> THEN side ELSE Side(Runs(segs), Spans(segs))

Shown(b) ==
  [b EXCEPT !.source = Visible(@), !.targets = [loc \in DOMAIN @ |-> Visible(@[loc])],
            !.ir = [source |-> NoIR, targets |-> [loc \in {} |-> NoIR]]]

\* An empty target tells the daemon to make one of its own.
Asked(b) ==
  IF ~Held(b, Request) /\ (b.source.runs # <<>> \/ DOMAIN b.targets # {})
  THEN [b EXCEPT !.targets = With(@, Request, Side(<<>>, <<>>))] ELSE b
BridgeTransform(b, xliff2) ==
  IF xliff2 /\ ~Translated(b, Request) THEN Asked(ApplyPseudo(b, TRUE)) ELSE ApplyPseudo(b, FALSE)

----------------------------------------------------------------------------
\* The reference. The filter of XLIFF 2 copies an ignorable into a target that
\* has a segment; the step translates the requested target, made from the
\* source where it has no text, and leaves the ignorable parts alone.

FilterTarget(b, own, xliff2) == IF xliff2 /\ own # <<>> THEN own \o Missing(b, own) ELSE own

StepTarget(b, target) ==
  LET basis == IF RunsHaveText(Runs(target)) THEN target ELSE SourceSegs(b)
  IN [i \in DOMAIN basis |-> IF Ignorable(basis[i]) THEN basis[i]
                             ELSE [basis[i] EXCEPT !.runs = Pseudo(@)]]

HandleTextUnit(b, xliff2) == StepTarget(b, FilterTarget(b, OwnSegs(b), xliff2))

----------------------------------------------------------------------------
\* What the readers promise of a document

RunSet == [kind : {"text", "code"}, text : Seq(Atoms)]
SpanSet == [id : Ids, props : SUBSET Props, from : Nat, to : Nat]

\* The spans of a side cut all of its runs, one behind the other.
CutsAll(side) ==
  LET last == Len(side.spans)
  IN side.spans # <<>> =>
       /\ side.spans[1].from = 0 /\ side.spans[last].to = Len(side.runs)
       /\ \A i \in 1..last : side.spans[i].from <= side.spans[i].to
       /\ \A i \in 2..last : side.spans[i].from = side.spans[i - 1].to

IsSide(side) ==
  /\ side = Side(side.runs, side.spans)
  /\ side.runs \in Seq(RunSet) /\ side.spans \in Seq(SpanSet)
  /\ CutsAll(side)

\* The inline content of some segments.
IsIR(ir) == ir = [id \in DOMAIN ir |-> ir[id]] /\ \A id \in DOMAIN ir : ir[id] \in Seq(RunSet)

\* The inline content of a segment says what its runs say.
SameText(seg) == seg.ir # <<>> => FlatText(seg.ir[1]) = FlatText(seg.runs)

\* Every span has a name.
Names(side) == \A i \in DOMAIN side.spans : side.spans[i].id # NoName
HasNames(b) == Names(b.source) /\ \A loc \in DOMAIN b.targets : Names(b.targets[loc])

\* In XLIFF 2 the name is the segment's own, with inline content under it.
NamesItsSegments(side, ir) ==
  LET segs == Segments(side, ir)
      spans == side.spans
  IN /\ \A i, j \in DOMAIN spans : spans[i].id = spans[j].id => i = j
     /\ \A i \in DOMAIN spans : segs[i].ir # <<>> /\ SameText(segs[i])
     /\ DOMAIN ir \subseteq {NoName} \cup {spans[i].id : i \in DOMAIN spans}

IsBlock(b) ==
  /\ b = [translatable |-> b.translatable, source |-> b.source, targets |-> b.targets, ir |-> b.ir]
  /\ b.translatable \in BOOLEAN
  /\ b.targets = [loc \in DOMAIN b.targets |-> b.targets[loc]]
  /\ NoLocale \notin DOMAIN b.targets
  /\ b.ir = [source |-> b.ir.source, targets |-> b.ir.targets]
  /\ b.ir.targets = [loc \in DOMAIN b.ir.targets |-> b.ir.targets[loc]]
  /\ IsSide(b.source) /\ \A loc \in DOMAIN b.targets : IsSide(b.targets[loc])
  /\ IsIR(b.ir.source) /\ \A loc \in DOMAIN b.ir.targets : IsIR(b.ir.targets[loc])

IsXliff2Block(b) ==
  /\ NamesItsSegments(b.source, b.ir.source)
  /\ \A loc \in DOMAIN b.targets : NamesItsSegments(b.targets[loc], TargetIR(b, loc))

IsDocument(doc) ==
  /\ DOMAIN doc.parts = 1..Len(doc.parts) /\ Len(doc.parts) \in Nat
  /\ \A i \in DOMAIN doc.parts :
       LET part == doc.parts[i]
       IN part.kind = "block" =>
            /\ part = [kind |-> part.kind, lang |-> part.lang, region |-> part.region,
                       sourceAsked |-> part.sourceAsked, block |-> part.block]
            /\ IsBlock(part.block) /\ HasNames(part.block)
            /\ doc.xliff2 => IsXliff2Block(part.block)

----------------------------------------------------------------------------
\* What an engine must not break

\* The segments of the target cover its runs, and what XLIFF 2 keeps beside them
\* has their text.
WholeTarget(b, xliff2) ==
  LET segs == TargetSegs(b, Request)
  IN Held(b, Request) =>
       /\ Runs(segs) = b.targets[Request].runs
       /\ xliff2 => \A k \in DOMAIN segs : SameText(segs[k])

Codes(runs) == FlattenSeq([i \in DOMAIN runs |-> IF runs[i].kind = "code" THEN <<runs[i]>> ELSE <<>>])

\* A segment has the codes of one of its name, what is ignorable its runs as well.
ComesFrom(seg, segs) ==
  \E j \in DOMAIN segs :
    /\ segs[j].id = seg.id
    /\ Codes(segs[j].runs) = Codes(seg.runs)
    /\ Ignorable(seg) => segs[j].runs = seg.runs
=============================================================================
