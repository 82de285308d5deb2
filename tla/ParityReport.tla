--------------------------- MODULE ParityReport ---------------------------
(***************************************************************************)
(* What the round-trip suite makes of its records (roundtrip/report.go):   *)
(* the totals per engine and per format, the lists of what is left to do,  *)
(* the coverage map, and the divergences the gate refuses.                 *)
(*                                                                         *)
(* A record says what one engine did with one fixture. Its annotation is   *)
(* the severity the team gave to the fixture, or Unannotated. Tiers are    *)
(* numbers, the best one 0.                                                *)
(***************************************************************************)
EXTENDS Naturals, Sequences, FiniteSets, FiniteSetsExt, SequencesExt

CONSTANTS
  Formats,       \* the formats known to anyone
  NativeFormats, \* those with a package in the native engine
  BridgeFormats, \* those with a filter behind the bridge
  Upstream       \* how many fixtures the Okapi project has for a format

ASSUME KnownFormats == NativeFormats \subseteq Formats /\ BridgeFormats \subseteq Formats

Engines == {"native", "bridge"}
ByteEqual == 0
CanonicalEqual == 1
SemanticEqual == 2
Divergent == 3

Unannotated == "-"
FaithfulSeverities == {"cosmetic", "native-more-correct"}
IsFaithfulDivergence(r) == r.annotation \in FaithfulSeverities

\* The places of the records of an engine, and of those with a format.
OfEngine(records, e) == {i \in DOMAIN records : records[i].engine = e}
OfGroup(records, f, e) == {i \in OfEngine(records, e) : records[i].format = f}

\* The n-th of some places, and the records at all of them in their order.
Nth(places, n) == CHOOSE i \in places : Cardinality({j \in places : j <= i}) = n
InOrder(records, places) == [n \in 1..Cardinality(places) |-> records[Nth(places, n)]]

\* Mutant: a skipped record is not told from the others.
AtMutant(r, tier) == r.achieved = tier

\* A skipped record has reached no tier.
At(r, tier) == ~r.skipped /\ r.achieved = tier

\* The counts of the records at some places; what is not classified is in no part.
Totals(records, places) ==
  LET at(tier) == {i \in places : At(records[i], tier)}
      canon(class) == {i \in at(CanonicalEqual) : records[i].class = class}
  IN [total |-> Cardinality(places),
      skip |-> Cardinality({i \in places : records[i].skipped}),
      byte |-> Cardinality(at(ByteEqual)),
      canon |-> Cardinality(at(CanonicalEqual)),
      faithful |-> Cardinality(canon("faithful")),
      closeable |-> Cardinality(canon("closeable")),
      sem |-> Cardinality(at(SemanticEqual)),
      div |-> Cardinality(at(Divergent)),
      divFaithful |-> Cardinality({i \in at(Divergent) : IsFaithfulDivergence(records[i])})]

EngineTotals(records, e) == Totals(records, OfEngine(records, e))

\* How much of what was asserted is at least as faithful as the reference.
Asserted(t) == t.total - t.skip
FaithfulShare(t) == t.byte + t.faithful + t.divFaithful

DivergentOf(records, f, e) == {i \in OfGroup(records, f, e) : At(records[i], Divergent)}

\* Per format and engine, with the first divergent fixture as a sample.
Aggregate(records, f, e) ==
  LET worst == DivergentOf(records, f, e)
  IN [totals |-> Totals(records, OfGroup(records, f, e)),
      sample |-> IF worst = {} THEN "-" ELSE records[Min(worst)].fixture]

Groups(records) == {<<records[i].format, records[i].engine>> : i \in DOMAIN records}

DivergentDetail(records, f, e) == InOrder(records, DivergentOf(records, f, e))

\* Everything that is not byte-equal is work, the worst first.
OpenFixtures(records, f, e) ==
  LET open == {i \in OfGroup(records, f, e) : ~records[i].skipped /\ records[i].achieved # ByteEqual}
      at(tier) == InOrder(records, {i \in open : records[i].achieved = tier})
  IN at(Divergent) \o at(SemanticEqual) \o at(CanonicalEqual)

----------------------------------------------------------------------------
\* The coverage map

ClassifyCoverage(native, bridge, fixtures, upstream) ==
  CASE native /\ bridge /\ fixtures > 0 -> "covered"
    [] native /\ bridge /\ fixtures = 0 /\ upstream > 0 -> "scan-missing"
    [] native /\ bridge /\ fixtures = 0 /\ upstream = 0 -> "no-upstream"
    [] bridge /\ ~native -> "bridge-only"
    [] native /\ ~bridge -> "native-only"
    [] OTHER -> "unknown"

\* A row per format that is known or was run. The tiers are those of the native
\* records, the skipped ones among them: their tier is the zero value.
CoverageMap(records) ==
  LET of(f) == OfGroup(records, f, "native")
      run == {records[i].format : i \in OfEngine(records, "native")}
      tier(f, t) == Cardinality({i \in of(f) : records[i].achieved = t})
      fixtures(f) == Cardinality(of(f))
  IN [f \in NativeFormats \cup BridgeFormats \cup run |->
        [fixtures |-> fixtures(f),
         upstream |-> Upstream[f],
         byte |-> tier(f, ByteEqual), canon |-> tier(f, CanonicalEqual), div |-> tier(f, Divergent),
         annotated |-> Cardinality({i \in of(f) : records[i].annotation # Unannotated}),
         status |-> ClassifyCoverage(f \in NativeFormats, f \in BridgeFormats, fixtures(f), Upstream[f])]]

----------------------------------------------------------------------------
\* The gate

\* A result that is worse than its engine has to be, on a fixture nobody wrote
\* a word about.
Undocumented(r) == ~r.skipped /\ r.achieved > r.required /\ r.annotation = Unannotated

\* Each of them once, by format and fixture, whatever the engine.
UnannotatedDivergences(records) ==
  {<<records[i].format, records[i].fixture>> : i \in {j \in DOMAIN records : Undocumented(records[j])}}

\* What a run reports at its end.
Report(records) ==
  [engines |-> [e \in {records[i].engine : i \in DOMAIN records} |-> EngineTotals(records, e)],
   formats |-> [g \in Groups(records) |-> Aggregate(records, g[1], g[2])],
   detail |-> [g \in Groups(records) |-> DivergentDetail(records, g[1], g[2])],
   open |-> [g \in Groups(records) |-> OpenFixtures(records, g[1], g[2])],
   coverage |-> CoverageMap(records)]
=============================================================================
