---------------------------- MODULE ParitySuite ----------------------------
(***************************************************************************)
(* One run of the round-trip suite: for every format a batch that produces *)
(* the reference outputs, then every fixture through the native engine and *)
(* the bridge (roundtrip/harness.go, okapi_batch.go, coverage_test.go),    *)
(* the gate (failnew_test.go), and the reports at the end (main_test.go).  *)
(*                                                                         *)
(* A scan is a format with its fixtures; a fixture has a path and a name,  *)
(* and annotations know only the name. What an engine's writer makes of    *)
(* equal contents is left open, and so is whatever can fail.               *)
(***************************************************************************)
EXTENDS ParityReport, PseudoTranslation

CONSTANTS
  Scans,    \* a sequence of [format, filter, skip, min, class, files]
  Corpora   \* a set of [notes, documents]: annotations by format and name, and
            \* the document behind each path

\* A scan without a fixture is none.
ASSUME ScansAssumption ==
  /\ DOMAIN Scans = 1..Len(Scans) /\ Len(Scans) \in Nat \ {0}
  /\ \A s \in DOMAIN Scans :
       /\ DOMAIN Scans[s].files = 1..Len(Scans[s].files)
       /\ Len(Scans[s].files) \in Nat \ {0}
       /\ Scans[s].filter \in BOOLEAN /\ Scans[s].format \in Formats

\* The tiers a scan asks for.
ASSUME TiersAssumption ==
  \A s \in DOMAIN Scans : \A e \in DOMAIN Scans[s].min : Scans[s].min[e] \in ByteEqual..Divergent

ASSUME PathsAreDistinct ==
  \A s, t \in DOMAIN Scans : \A k \in DOMAIN Scans[s].files, l \in DOMAIN Scans[t].files :
    Scans[s].files[k].path = Scans[t].files[l].path => s = t /\ k = l

Files(s) == {Scans[s].files[k] : k \in DOMAIN Scans[s].files}
AllFiles == UNION {Files(s) : s \in DOMAIN Scans}
Paths == {f.path : f \in AllFiles}

\* Every fixture is a document as the readers promise it.
ASSUME DocumentsAssumption ==
  \A c \in Corpora : \A p \in Paths : IsDocument(c.documents[p])

VARIABLES
  corpus,
  stage,    \* what the test binary is at
  scan,     \* index of the scan it is at
  file,     \* index of the fixture it is at
  queue,    \* fixtures of the scan the batch driver has still to do
  written,  \* what the driver left at the output of a path
  cache,    \* what the harness holds of the batch
  daemon,   \* of the shared daemon: unasked, up, broken
  records,
  failed,   \* the tests that failed
  report

vars == <<corpus, stage, scan, file, queue, written, cache, daemon, records, failed, report>>

Scan == Scans[scan]
File == Scan.files[file]

NoNote == [severity |-> Unannotated, skip |-> {}]
\* Mutant: the annotation of a name serves every format.
NoteMutant(format, name) ==
  LET keys == {k \in DOMAIN corpus.notes : k[2] = name}
  IN IF keys = {} THEN NoNote ELSE corpus.notes[CHOOSE k \in keys : TRUE]

\* The annotations of a format know a fixture by its base name.
Note(format, name) ==
  IF <<format, name>> \in DOMAIN corpus.notes THEN corpus.notes[<<format, name>>] ELSE NoNote

\* The skips of a format and those of the fixture.
Skips(s, f) == s.skip \cup Note(s.format, f.name).skip

\* A record; its path is for the properties only.
Result(e, required, achieved, skipped) ==
  [format |-> Scan.format, fixture |-> File.name, path |-> File.path, engine |-> e,
   required |-> required, achieved |-> achieved, skipped |-> skipped,
   class |-> IF skipped THEN "unclassified" ELSE Scan.class,
   annotation |-> Note(Scan.format, File.name).severity]

RequiredTier(e) ==
  IF e \in DOMAIN Scan.min THEN Scan.min[e] ELSE IF e = "native" THEN Divergent ELSE ByteEqual

Init ==
  /\ corpus \in Corpora
  /\ stage = "scan" /\ scan = 1 /\ file = 1
  /\ queue = {}
  /\ written = [p \in Paths |-> "nothing"]
  /\ cache = [p \in Paths |-> "unknown"]
  /\ daemon = "unasked"
  /\ records = <<>> /\ failed = {} /\ report = <<>>

----------------------------------------------------------------------------
\* The batch of a format

StartBatch ==
  /\ stage = "scan"
  /\ queue' = {k \in DOMAIN Scan.files : Scan.filter /\ "okapi" \notin Skips(Scan, Scan.files[k])}
  /\ stage' = "batch"
  /\ UNCHANGED <<corpus, scan, file, written, cache, daemon, records, failed, report>>

\* The driver takes the fixtures in their order.
IsNext(k) == \A l \in queue : k <= l

DriverItem ==
  /\ stage = "batch"
  /\ \E k \in queue : /\ IsNext(k)
                      /\ written' = [written EXCEPT ![Scan.files[k].path] = "whole"]
                      /\ queue' = queue \ {k}
  /\ UNCHANGED <<corpus, stage, scan, file, cache, daemon, records, failed, report>>

\* An item that throws, or the deadline of the batch: the rest is never tried,
\* and its own output may have been begun.
DriverStops ==
  /\ stage = "batch"
  /\ \E k \in queue, left \in {"nothing", "empty", "partial"} :
       IsNext(k) /\ written' = [written EXCEPT ![Scan.files[k].path] = left]
  /\ queue' = {}
  /\ UNCHANGED <<corpus, stage, scan, file, cache, daemon, records, failed, report>>

\* Mutant: an output that is missing is not reported as such.
CachedMutant(p) == written[p]

\* What has landed counts, whatever the exit code of the batch.
Cached(p) == IF written[p] \in {"nothing", "empty"} THEN "error" ELSE written[p]

CollectBatch ==
  LET inputs == {f.path : f \in {g \in Files(scan) : Scan.filter /\ "okapi" \notin Skips(Scan, g)}}
  IN /\ stage = "batch" /\ queue = {}
     /\ cache' = [p \in Paths |-> IF p \in inputs THEN Cached(p) ELSE cache[p]]
     /\ stage' = "fixture" /\ file' = 1
     /\ UNCHANGED <<corpus, scan, queue, written, daemon, records, failed, report>>

----------------------------------------------------------------------------
\* A fixture

NextFile ==
  IF file < Len(Scan.files) THEN stage' = "fixture" /\ file' = file + 1 /\ scan' = scan
  ELSE IF scan < Len(Scans) THEN stage' = "scan" /\ scan' = scan + 1 /\ file' = 1
  ELSE stage' = "gate" /\ UNCHANGED <<scan, file>>

Skipping == stage = "fixture" /\ "okapi" \in Skips(Scan, File)

\* Mutant: a fixture the reference cannot process leaves no trace.
SkipFixtureMutant ==
  /\ Skipping
  /\ NextFile
  /\ UNCHANGED <<corpus, queue, written, cache, daemon, records, failed, report>>

SkipFixture ==
  /\ Skipping
  /\ records' = Append(records, Result("native", Divergent, ByteEqual, TRUE))
  /\ NextFile
  /\ UNCHANGED <<corpus, queue, written, cache, daemon, failed, report>>

\* Mutant: no reference, no comparison, no failure.
NoReferenceMutant ==
  /\ stage = "fixture" /\ ~Skipping /\ cache[File.path] \notin {"whole", "partial"}
  /\ NextFile
  /\ UNCHANGED <<corpus, queue, written, cache, daemon, records, failed, report>>

\* The batch says why there is none; what no batch did is tried alone, and that
\* needs a filter.
NoReference ==
  /\ stage = "fixture" /\ ~Skipping /\ cache[File.path] \notin {"whole", "partial"}
  /\ failed' = failed \cup {<<File.path, "okapi">>}
  /\ NextFile
  /\ UNCHANGED <<corpus, queue, written, cache, daemon, records, report>>

StartFixture ==
  /\ stage = "fixture" /\ ~Skipping /\ cache[File.path] \in {"whole", "partial"}
  /\ stage' = "native"
  /\ UNCHANGED <<corpus, scan, file, queue, written, cache, daemon, records, failed, report>>

Judge(e, tier) ==
  /\ records' = Append(records, Result(e, RequiredTier(e), tier, FALSE))
  /\ failed' = IF tier > RequiredTier(e) THEN failed \cup {<<File.path, e>>} ELSE failed

SkipEngine(e) ==
  /\ e \in Skips(Scan, File)
  /\ records' = Append(records, Result(e, RequiredTier(e), ByteEqual, TRUE))
  /\ UNCHANGED failed

Fatal(e) == failed' = failed \cup {<<File.path, e>>} /\ UNCHANGED records

\* Equal contents may be written in different ways; different ones never reach
\* a tier, nor does anything compared with half an output.
Tiers(same) ==
  IF same /\ cache[File.path] = "whole" THEN {ByteEqual, CanonicalEqual, Divergent} ELSE {Divergent}

\* Segments by name, with their runs.
ById(segs) == {<<segs[i].id, segs[i].runs>> : i \in DOMAIN segs}
Blocks(doc) == {i \in DOMAIN doc.parts : doc.parts[i].kind = "block"}

Doc(path) == corpus.documents[path]
NativeBlocks(doc) ==
  LET out == NativeRead(doc.parts, doc.xliff2) IN [i \in Blocks(doc) |-> out[i].block]
NativeTargets(doc) ==
  LET out == NativeBlocks(doc) IN [i \in Blocks(doc) |-> ById(OwnSegs(out[i]))]
ReferenceTargets(doc) ==
  [i \in Blocks(doc) |-> ById(HandleTextUnit(doc.parts[i].block, doc.xliff2))]
BridgeTargets(doc) ==
  [i \in Blocks(doc) |-> ById(OwnSegs(BridgeTransform(Shown(doc.parts[i].block), doc.xliff2)))]
ShownTargets(doc) ==
  [i \in Blocks(doc) |-> ById(HandleTextUnit(Shown(doc.parts[i].block), doc.xliff2))]

RunNative ==
  /\ stage = "native"
  /\ \/ SkipEngine("native")
     \/ /\ "native" \notin Skips(Scan, File)
        /\ \/ Fatal("native")
           \/ LET doc == Doc(File.path)
              IN \E tier \in Tiers(NativeTargets(doc) = ReferenceTargets(doc)) : Judge("native", tier)
  /\ IF Scan.filter THEN stage' = "bridge" /\ UNCHANGED <<scan, file>> ELSE NextFile
  /\ UNCHANGED <<corpus, queue, written, cache, daemon, report>>

\* The first caller starts the daemon; its fate is everybody's.
AcquireDaemon ==
  \/ daemon # "unasked" /\ UNCHANGED daemon
  \/ daemon = "unasked" /\ daemon' \in {"up", "broken"}

RunBridge ==
  /\ stage = "bridge"
  /\ \/ SkipEngine("bridge") /\ UNCHANGED daemon
     \/ /\ "bridge" \notin Skips(Scan, File)
        /\ AcquireDaemon
        /\ \/ Fatal("bridge")
           \/ LET doc == Doc(File.path)
              IN /\ daemon' = "up"
                 /\ \E tier \in Tiers(BridgeTargets(doc) = ShownTargets(doc)) : Judge("bridge", tier)
  /\ NextFile
  /\ UNCHANGED <<corpus, queue, written, cache, report>>

----------------------------------------------------------------------------
\* The end

\* The gate looks at what has been recorded, and refuses what nobody explained.
Gate ==
  /\ stage = "gate"
  /\ failed' = IF UnannotatedDivergences(records) = {} THEN failed ELSE failed \cup {<<"gate", "gate">>}
  /\ stage' = "report"
  /\ UNCHANGED <<corpus, scan, file, queue, written, cache, daemon, records, report>>

Flush ==
  /\ stage = "report"
  /\ report' = Report(records)
  /\ stage' = "done"
  /\ UNCHANGED <<corpus, scan, file, queue, written, cache, daemon, records, failed>>

Done == stage = "done" /\ UNCHANGED vars

Next ==
  \/ StartBatch \/ DriverItem \/ DriverStops \/ CollectBatch
  \/ SkipFixture \/ NoReference \/ StartFixture \/ RunNative \/ RunBridge
  \/ Gate \/ Flush \/ Done

Spec == Init /\ [][Next]_vars

----------------------------------------------------------------------------
\* What must hold

\* Where the run is, what batches left, the tiers of the records, and which tests
\* failed; in the cache an output is there, unknown, or an error.
TypeOK ==
  /\ stage \in {"scan", "batch", "fixture", "native", "bridge", "gate", "report", "done"}
  /\ scan \in DOMAIN Scans /\ file \in DOMAIN Scan.files
  /\ queue \subseteq DOMAIN Scan.files
  /\ written \in [Paths -> {"nothing", "empty", "partial", "whole"}]
  /\ cache \in [Paths -> {"unknown", "error", "partial", "whole"}]
  /\ daemon \in {"unasked", "up", "broken"}
  /\ \A i \in DOMAIN records :
       /\ records[i].format \in Formats /\ records[i].path \in Paths /\ records[i].engine \in Engines
       /\ {records[i].required, records[i].achieved} \subseteq ByteEqual..Divergent
  /\ failed \subseteq (Paths \cup {"gate"}) \X {"okapi", "native", "bridge", "gate"}

Recorded(p, e) == {i \in DOMAIN records : records[i].path = p /\ records[i].engine = e}
Tested(s) == IF Scans[s].filter THEN Engines ELSE {"native"}

\* A green run has judged every fixture with every engine of its format once,
\* and well enough, unless somebody declared it skipped: a lost reference, a
\* batch that stopped half way or a daemon that did not come up turns it red.
GreenMeansJudged ==
  stage = "done" /\ failed = {} =>
    \A s \in DOMAIN Scans : \A f \in Files(s) : \A e \in Tested(s) :
      \/ "okapi" \in Skips(Scans[s], f)
      \/ \E i \in DOMAIN records :
           /\ Recorded(f.path, e) = {i}
           /\ IF e \in Skips(Scans[s], f) THEN records[i].skipped
              ELSE ~records[i].skipped /\ records[i].achieved <= records[i].required

\* No fixture disappears: the coverage map counts each one of the scan, those
\* the reference cannot process as well, except what failed before its record.
CoverageSeesEveryFixture ==
  stage = "done" =>
    \A f \in DOMAIN report.coverage :
      LET files == UNION {Files(s) : s \in {t \in DOMAIN Scans : Scans[t].format = f}}
          lost == {x \in files : Recorded(x.path, "native") = {}}
      IN /\ report.coverage[f].fixtures = Cardinality(files) - Cardinality(lost)
         /\ \A x \in lost : {<<x.path, "okapi">>, <<x.path, "native">>} \cap failed # {}

\* The tiers and the skips split the records of a row, and the shares stay within
\* what was asserted.
Splits(t) ==
  /\ t.total = t.skip + t.byte + t.canon + t.sem + t.div
  /\ FaithfulShare(t) <= Asserted(t)
TiersSplit ==
  /\ \A e \in DOMAIN report.engines : Splits(report.engines[e])
  /\ \A g \in DOMAIN report.formats : Splits(report.formats[g].totals)

\* The rows of the formats sum up to the row of their engine; they do not say
\* which divergences are faithful.
RowsSumUp ==
  \A e \in DOMAIN report.engines :
    LET all == report.engines[e]
        mine == {g \in DOMAIN report.formats : g[2] = e}
    IN \A c \in DOMAIN all \ {"divFaithful"} :
         all[c] = SumFunction([g \in mine |-> report.formats[g].totals[c]])

\* All that is short of byte-equal is listed as open work, worst first, beginning
\* with what the detail shows.
OpenIsListed ==
  \A g \in DOMAIN report.open :
    LET t == report.formats[g].totals
        open == report.open[g]
    IN /\ Len(open) = t.canon + t.sem + t.div
       /\ SubSeq(open, 1, t.div) = report.detail[g]
       /\ \A i, j \in DOMAIN open : i < j => open[i].achieved >= open[j].achieved

\* All tables tell the same story.
TablesAgree == stage = "done" => TiersSplit /\ RowsSumUp /\ OpenIsListed

\* When the gate lets a run pass, everything that fell short of what its engine
\* has to reach was explained for this fixture in this format.
GateIsSound ==
  stage \in {"report", "done"} /\ <<"gate", "gate">> \notin failed =>
    \A i \in DOMAIN records :
      ~records[i].skipped /\ records[i].achieved > records[i].required =>
        <<records[i].format, records[i].fixture>> \in DOMAIN corpus.notes

----------------------------------------------------------------------------
\* What the engines make of the document at hand

\* Documents in another language are left alone on purpose, and a block that is
\* only translated into another locale is where the engines are known to part.
Comparable(doc) ==
  \A i \in Blocks(doc) :
    LET lang == LangAt(doc.parts, i)
    IN /\ doc.xliff2 \/ SameLanguage(lang)
       /\ BaseLocale(doc.parts[i].block, ~SameLanguage(lang)) \in {Request, NoLocale}

\* The native engine gives every segment the text the reference gives it, with
\* the seeding of ignorables, the language of the file and targets of blanks; so
\* does the bridge, of what its daemon shows: it keeps a translation it was given
\* in the requested language and starts from the source otherwise.
EnginesTranslateAlike ==
  stage \in {"native", "bridge"} /\ Comparable(Doc(File.path)) =>
    LET doc == Doc(File.path)
    IN \A i \in Blocks(doc) :
         doc.parts[i].block.translatable =>
           IF stage = "native" THEN NativeTargets(doc)[i] = ReferenceTargets(doc)[i]
           ELSE BridgeTargets(doc)[i] = ShownTargets(doc)[i]

\* A target the engine made is whole: its segments cover its runs, each run once
\* and in order, none lost, repeated or given to a neighbour; and where XLIFF 2
\* keeps the inline content of a segment beside its runs (the writer takes it
\* only while both have the same text), it is never the old one.
TargetsAreWhole ==
  stage = "native" =>
    LET doc == Doc(File.path)
    IN \A i \in Blocks(doc) : WholeTarget(NativeBlocks(doc)[i], doc.xliff2)

\* What is not to be translated comes through: an ignorable segment of a target
\* reads as the target or the source had it, and no inline code is lost. So say
\* PseudoTranslationStep and pseudo.go ("Ignorable segments are not pseudo-
\* translated"), and so the code does. The comments at the seeding in native.go
\* say that seeded ignorables get translated too: they never are.
IgnorablesComeThrough ==
  stage = "native" /\ Comparable(Doc(File.path)) =>
    LET doc == Doc(File.path)
    IN \A i \in Blocks(doc) :
         LET before == doc.parts[i].block
             after == OwnSegs(NativeBlocks(doc)[i])
         IN \A k \in DOMAIN after : ComesFrom(after[k], OwnSegs(before) \o SourceSegs(before))
=============================================================================
