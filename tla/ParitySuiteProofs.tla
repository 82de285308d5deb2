------------------------- MODULE ParitySuiteProofs -------------------------
(***************************************************************************)
(* Theorems about ParitySuite, for any scans with distinct paths, any      *)
(* annotations, documents and failures: what a green run has judged, what  *)
(* the gate, the coverage map and the tables say of the records, what the  *)
(* native engine keeps of a document, and where the engines translate      *)
(* alike.                                                                  *)
(***************************************************************************)
EXTENDS ParitySuite, PseudoTranslationProofs

-----------------------------------------------------------------------------
(* The inductive invariant.                                                  *)

IsSeq(s) == s \in Seq({s[i] : i \in DOMAIN s})

\* The k-th fixture of scan s.
FixtureAt(s, k) == Scans[s].files[k]

\* Where the test binary is.
PlaceInv ==
  /\ scan \in DOMAIN Scans /\ file \in DOMAIN Scans[scan].files
  /\ stage \in {"scan", "batch", "fixture", "native", "bridge", "gate", "report", "done"}
  /\ stage \in {"native", "bridge"} => "okapi" \notin Skips(Scan, File)
  /\ stage = "bridge" => Scan.filter

\* The binary is past an engine's turn at a fixture.
Passed(s, k, e) ==
  \/ stage \in {"gate", "report", "done"}
  \/ s < scan
  \/ /\ s = scan /\ stage \in {"fixture", "native", "bridge"}
     /\ k < file \/ (k = file /\ stage = "bridge" /\ e = "native")

\* There is no record before its turn.
FreshInv ==
  \A s \in DOMAIN Scans : \A k \in DOMAIN Scans[s].files : \A e \in Engines :
    ~Passed(s, k, e) => Recorded(FixtureAt(s, k).path, e) = {}

\* What GreenMeansJudged asks for one engine at one fixture.
Judged(s, f, e) ==
  \/ "okapi" \in Skips(Scans[s], f)
  \/ \E i \in DOMAIN records :
       /\ Recorded(f.path, e) = {i}
       /\ IF e \in Skips(Scans[s], f) THEN records[i].skipped
          ELSE ~records[i].skipped /\ records[i].achieved <= records[i].required

\* As long as no test has failed, all turns so far were judged.
JudgedInv ==
  failed = {} =>
    \A s \in DOMAIN Scans : \A k \in DOMAIN Scans[s].files : \A e \in Tested(s) :
      Passed(s, k, e) => Judged(s, FixtureAt(s, k), e)

RecordsInv == IsSeq(records)

IInv == PlaceInv /\ RecordsInv /\ FreshInv /\ JudgedInv

-----------------------------------------------------------------------------
(* Records.                                                                  *)

LEMMA AppendToSeq ==
  ASSUME NEW s, IsSeq(s), NEW r
  PROVE  /\ IsSeq(Append(s, r))
         /\ DOMAIN s = 1..Len(s) /\ Len(s) \in Nat
         /\ DOMAIN Append(s, r) = 1..(Len(s) + 1)
         /\ \A i \in DOMAIN s : Append(s, r)[i] = s[i]
         /\ Append(s, r)[Len(s) + 1] = r
<1> DEFINE S == {s[i] : i \in DOMAIN s}
           T == S \cup {r}
           t == Append(s, r)
<1>1. s \in Seq(S)
  BY DEF IsSeq
<1>2. s \in Seq(T) /\ r \in T
  <2> HIDE DEF S
  <2> QED BY <1>1
<1>3. /\ t \in Seq(T) /\ Len(s) \in Nat /\ DOMAIN s = 1..Len(s)
      /\ DOMAIN t = 1..(Len(s) + 1) /\ t[Len(s) + 1] = r
      /\ \A i \in DOMAIN s : t[i] = s[i]
  <2> HIDE DEF T
  <2> QED BY <1>2
<1>4. t = [i \in 1..(Len(s) + 1) |-> t[i]]
  <2> HIDE DEF T, S, t
  <2> QED BY <1>3
<1>5. t \in Seq({t[i] : i \in DOMAIN t})
  <2> DEFINE U == {t[i] : i \in DOMAIN t}
  <2> HIDE DEF t, U
  <2>1. t \in [1..(Len(s) + 1) -> U] /\ Len(s) + 1 \in Nat
    <3>1. \A i \in 1..(Len(s) + 1) : t[i] \in U
      BY <1>3 DEF U
    <3> QED BY <1>3, <1>4, <3>1
  <2> QED BY <2>1 DEF U
<1> QED BY <1>3, <1>5 DEF IsSeq

\* The records of an engine at a fixture do not change with another record.
LEMMA OtherRecords ==
  ASSUME RecordsInv, NEW r, records' = Append(records, r), NEW p, NEW e,
         r.path # p \/ r.engine # e
  PROVE  Recorded(p, e)' = Recorded(p, e)
<1>1. /\ DOMAIN records = 1..Len(records) /\ Len(records) \in Nat
      /\ DOMAIN records' = 1..(Len(records) + 1)
      /\ \A i \in DOMAIN records : records'[i] = records[i]
      /\ records'[Len(records) + 1] = r
  BY AppendToSeq DEF RecordsInv
<1>2. \A i \in DOMAIN records' : i \in DOMAIN records \/ i = Len(records) + 1
  BY <1>1
<1>3. DOMAIN records \subseteq DOMAIN records'
  BY <1>1
<1> QED BY <1>1, <1>2, <1>3 DEF Recorded

LEMMA NewRecord ==
  ASSUME RecordsInv, NEW r, records' = Append(records, r), Recorded(r.path, r.engine) = {}
  PROVE  /\ Recorded(r.path, r.engine)' = {Len(records) + 1}
         /\ Len(records) + 1 \in DOMAIN records' /\ records'[Len(records) + 1] = r
<1>1. /\ DOMAIN records = 1..Len(records) /\ Len(records) \in Nat
      /\ DOMAIN records' = 1..(Len(records) + 1)
      /\ \A i \in DOMAIN records : records'[i] = records[i]
      /\ records'[Len(records) + 1] = r
  BY AppendToSeq DEF RecordsInv
<1>2. \A i \in DOMAIN records' : i \in DOMAIN records \/ i = Len(records) + 1
  BY <1>1
<1>3. Len(records) + 1 \in DOMAIN records'
  BY <1>1
<1> DEFINE p == r.path
           e == r.engine
<1>4. Recorded(p, e)' = {i \in DOMAIN records' : records'[i].path = p /\ records'[i].engine = e}
  BY DEF Recorded
<1>5. \A i \in DOMAIN records : ~(records[i].path = p /\ records[i].engine = e)
  BY DEF Recorded
<1> QED BY <1>1, <1>2, <1>3, <1>4, <1>5

\* Whoever was judged stays judged.
LEMMA StaysJudged ==
  ASSUME RecordsInv, corpus' = corpus, NEW s, NEW f, NEW e, Judged(s, f, e),
         \/ records' = records
         \/ \E r : records' = Append(records, r) /\ (r.path # f.path \/ r.engine # e)
  PROVE  Judged(s, f, e)'
<1>1. Skips(Scans[s], f)' = Skips(Scans[s], f)
  BY DEF Skips, Note
<1>2. CASE records' = records
  <2>1. Recorded(f.path, e)' = Recorded(f.path, e)
    BY <1>2 DEF Recorded
  <2> QED BY <1>1, <1>2, <2>1 DEF Judged
<1>3. ASSUME NEW r, records' = Append(records, r), r.path # f.path \/ r.engine # e
      PROVE  Judged(s, f, e)'
  <2>1. Recorded(f.path, e)' = Recorded(f.path, e)
    BY <1>3, OtherRecords
  <2>2. \A i \in DOMAIN records : i \in DOMAIN records' /\ records'[i] = records[i]
    <3>1. /\ DOMAIN records = 1..Len(records) /\ Len(records) \in Nat
          /\ DOMAIN records' = 1..(Len(records) + 1)
          /\ \A i \in DOMAIN records : records'[i] = records[i]
      BY <1>3, AppendToSeq DEF RecordsInv
    <3> QED BY <3>1
  <2> QED BY <1>1, <2>1, <2>2 DEF Judged
<1> QED BY <1>2, <1>3

-----------------------------------------------------------------------------
(* Turns.                                                                    *)

\* NextFile leaves the fixture at hand behind, and nothing else.
LEMMA NextFileMoves ==
  ASSUME PlaceInv, stage \in {"fixture", "native", "bridge"}, NextFile
  PROVE  /\ PlaceInv'
         /\ \A s \in DOMAIN Scans : \A k \in DOMAIN Scans[s].files : \A e \in Engines :
              Passed(s, k, e)' <=> Passed(s, k, e) \/ (s = scan /\ k = file)
<1> DEFINE n == Len(Scans[scan].files)
<1>1. /\ scan \in 1..Len(Scans) /\ Len(Scans) \in Nat
      /\ file \in 1..n /\ n \in Nat
      /\ DOMAIN Scans = 1..Len(Scans) /\ DOMAIN Scans[scan].files = 1..n
  BY ScansAssumption DEF PlaceInv
<1>2. CASE file < n
  <2>1. stage' = "fixture" /\ file' = file + 1 /\ scan' = scan
    BY <1>2 DEF NextFile, Scan
  <2>2. PlaceInv'
    BY <1>1, <1>2, <2>1 DEF PlaceInv
  <2>3. ASSUME NEW s \in DOMAIN Scans, NEW k \in DOMAIN Scans[s].files, NEW e \in Engines
        PROVE  Passed(s, k, e)' <=> Passed(s, k, e) \/ (s = scan /\ k = file)
    <3>1. s \in Nat /\ k \in Nat
      BY <2>3, ScansAssumption
    <3> QED BY <1>1, <2>1, <3>1 DEF Passed
  <2> QED BY <2>2, <2>3
<1>3. CASE ~(file < n) /\ scan < Len(Scans)
  <2>1. stage' = "scan" /\ scan' = scan + 1 /\ file' = 1
    BY <1>3 DEF NextFile, Scan
  <2>2. PlaceInv'
    BY <1>1, <1>3, <2>1, ScansAssumption DEF PlaceInv
  <2>3. ASSUME NEW s \in DOMAIN Scans, NEW k \in DOMAIN Scans[s].files, NEW e \in Engines
        PROVE  Passed(s, k, e)' <=> Passed(s, k, e) \/ (s = scan /\ k = file)
    <3>1. s \in Nat /\ k \in Nat /\ (s = scan => k <= file)
      BY <1>1, <1>3, <2>3, ScansAssumption
    <3> QED BY <1>1, <2>1, <3>1 DEF Passed
  <2> QED BY <2>2, <2>3
<1>4. CASE ~(file < n) /\ ~(scan < Len(Scans))
  <2>1. stage' = "gate" /\ scan' = scan /\ file' = file
    BY <1>4 DEF NextFile, Scan
  <2>2. PlaceInv'
    BY <1>1, <2>1 DEF PlaceInv
  <2>3. ASSUME NEW s \in DOMAIN Scans, NEW k \in DOMAIN Scans[s].files, NEW e \in Engines
        PROVE  Passed(s, k, e)' <=> Passed(s, k, e) \/ (s = scan /\ k = file)
    <3>1. s \in Nat /\ k \in Nat /\ s <= scan /\ (s = scan => k <= file)
      BY <1>1, <1>4, <2>3, ScansAssumption
    <3> QED BY <1>1, <2>1, <3>1 DEF Passed
  <2> QED BY <2>2, <2>3
<1> QED BY <1>2, <1>3, <1>4

\* A step that records nothing, and either keeps the turns or fails a test.
LEMMA SilentStep ==
  ASSUME IInv, UNCHANGED <<corpus, records>>,
         failed \subseteq failed',
         \A s \in DOMAIN Scans : \A k \in DOMAIN Scans[s].files : \A e \in Engines :
           /\ Passed(s, k, e) => Passed(s, k, e)'
           /\ failed' = {} => (Passed(s, k, e)' => Passed(s, k, e))
  PROVE  RecordsInv' /\ FreshInv' /\ JudgedInv'
<1> USE DEF IInv
<1>1. RecordsInv'
  BY DEF RecordsInv, IsSeq
<1>2. ASSUME NEW p, NEW e PROVE Recorded(p, e)' = Recorded(p, e)
  BY DEF Recorded
<1>3. FreshInv'
  BY <1>2 DEF FreshInv, FixtureAt
<1>4. JudgedInv'
  <2> SUFFICES ASSUME failed' = {}, NEW s \in DOMAIN Scans, NEW k \in DOMAIN Scans[s].files,
                      NEW e \in Tested(s), Passed(s, k, e)'
               PROVE  Judged(s, FixtureAt(s, k), e)'
    BY DEF JudgedInv, FixtureAt, Tested
  <2>1. e \in Engines /\ failed = {}
    BY DEF Tested, Engines
  <2>2. Judged(s, FixtureAt(s, k), e)
    BY <2>1 DEF JudgedInv
  <2> QED BY <2>2, StaysJudged
<1> QED BY <1>1, <1>3, <1>4

\* The turn of an engine at the fixture at hand: one record, and if that fails
\* no test, it was judged.
LEMMA RecordStep ==
  ASSUME IInv, corpus' = corpus, failed \subseteq failed',
         NEW r, records' = Append(records, r), r.path = File.path, r.engine \in Engines,
         ~Passed(scan, file, r.engine),
         \A s \in DOMAIN Scans : \A k \in DOMAIN Scans[s].files : \A e \in Engines :
           /\ Passed(s, k, e) \/ (s = scan /\ k = file /\ e = r.engine) => Passed(s, k, e)'
           /\ e \in Tested(s) /\ Passed(s, k, e)' =>
                \/ Passed(s, k, e)
                \/ s = scan /\ k = file /\ (e = r.engine \/ "okapi" \in Skips(Scan, File)),
         failed' = {} =>
           \/ "okapi" \in Skips(Scan, File)
           \/ IF r.engine \in Skips(Scan, File) THEN r.skipped ELSE ~r.skipped /\ r.achieved <= r.required
  PROVE  RecordsInv' /\ FreshInv' /\ JudgedInv'
<1> USE DEF IInv
<1>1. RecordsInv'
  BY AppendToSeq DEF RecordsInv
<1>2. scan \in DOMAIN Scans /\ file \in DOMAIN Scans[scan].files /\ File = FixtureAt(scan, file)
  BY DEF PlaceInv, FixtureAt, File, Scan
<1>3. ASSUME NEW s \in DOMAIN Scans, NEW k \in DOMAIN Scans[s].files, ~(s = scan /\ k = file)
      PROVE  r.path # FixtureAt(s, k).path
  BY <1>2, <1>3, PathsAreDistinct DEF FixtureAt
<1>4. FreshInv'
  <2> SUFFICES ASSUME NEW s \in DOMAIN Scans, NEW k \in DOMAIN Scans[s].files, NEW e \in Engines,
                      ~Passed(s, k, e)'
               PROVE  Recorded(FixtureAt(s, k).path, e)' = {}
    BY DEF FreshInv, FixtureAt
  <2>1. r.path # FixtureAt(s, k).path \/ r.engine # e
    BY <1>3
  <2>2. Recorded(FixtureAt(s, k).path, e)' = Recorded(FixtureAt(s, k).path, e)
    BY <2>1, OtherRecords
  <2> QED BY <2>2 DEF FreshInv
<1>5. JudgedInv'
  <2> SUFFICES ASSUME failed' = {}, NEW s \in DOMAIN Scans, NEW k \in DOMAIN Scans[s].files,
                      NEW e \in Tested(s), Passed(s, k, e)'
               PROVE  Judged(s, FixtureAt(s, k), e)'
    BY DEF JudgedInv, FixtureAt, Tested
  <2>1. e \in Engines /\ failed = {}
    BY DEF Tested, Engines
  <2>2. Skips(Scans[s], FixtureAt(s, k))' = Skips(Scans[s], FixtureAt(s, k))
    BY DEF Skips, Note, FixtureAt
  <2>3. CASE s = scan /\ k = file /\ "okapi" \in Skips(Scan, File)
    BY <1>2, <2>2, <2>3 DEF Judged, Scan
  <2>4. CASE s = scan /\ k = file /\ e = r.engine /\ "okapi" \notin Skips(Scan, File)
    <3>1. Recorded(r.path, r.engine) = {}
      BY <1>2 DEF FreshInv
    <3>2. /\ Recorded(r.path, r.engine)' = {Len(records) + 1}
          /\ Len(records) + 1 \in DOMAIN records' /\ records'[Len(records) + 1] = r
      BY <3>1, NewRecord
    <3> QED BY <1>2, <2>2, <2>4, <3>2 DEF Judged, Scan
  <2>5. CASE Passed(s, k, e) /\ ~(s = scan /\ k = file /\ e = r.engine)
    <3>1. Judged(s, FixtureAt(s, k), e)
      BY <2>1, <2>5 DEF JudgedInv
    <3>2. r.path # FixtureAt(s, k).path \/ r.engine # e
      BY <1>3, <2>5
    <3> QED BY <3>1, <3>2, StaysJudged
  <2> QED BY <2>1, <2>3, <2>4, <2>5
<1> QED BY <1>1, <1>4, <1>5

-----------------------------------------------------------------------------
(* The steps.                                                                *)

LEMMA InitInv == Init => IInv
<1> SUFFICES ASSUME Init PROVE IInv
  OBVIOUS
<1>1. PlaceInv
  BY ScansAssumption DEF Init, PlaceInv
<1>2. RecordsInv
  BY DEF Init, RecordsInv, IsSeq
<1>3. FreshInv
  BY DEF Init, FreshInv, Recorded
<1>4. JudgedInv
  <2> SUFFICES ASSUME NEW s \in DOMAIN Scans, NEW k, NEW e, Passed(s, k, e) PROVE FALSE
    BY DEF JudgedInv
  <2>1. s \in Nat /\ s >= 1
    BY ScansAssumption
  <2> QED BY <2>1 DEF Init, Passed
<1> QED BY <1>1, <1>2, <1>3, <1>4 DEF IInv

\* The skips of the fixture at hand stay while the place and the notes do.
LEMMA SkipsStay ==
  ASSUME corpus' = corpus, UNCHANGED <<scan, file>>
  PROVE  Skips(Scan, File)' = Skips(Scan, File)
  BY DEF Skips, Note, Scan, File

LEMMA BatchSteps == IInv /\ (StartBatch \/ DriverItem \/ DriverStops \/ CollectBatch) => IInv'
<1> SUFFICES ASSUME IInv, StartBatch \/ DriverItem \/ DriverStops \/ CollectBatch PROVE IInv'
  OBVIOUS
<1> USE DEF StartBatch, DriverItem, DriverStops, CollectBatch
<1>1. /\ UNCHANGED <<corpus, scan, records, failed>>
      /\ stage \in {"scan", "batch"}
      /\ \/ stage' \in {"scan", "batch"} /\ file' = file
         \/ stage' = "fixture" /\ file' = 1
  OBVIOUS
<1>2. PlaceInv'
  BY <1>1, ScansAssumption DEF IInv, PlaceInv
<1>3. ASSUME NEW s \in DOMAIN Scans, NEW k \in DOMAIN Scans[s].files, NEW e \in Engines
      PROVE  Passed(s, k, e)' <=> Passed(s, k, e)
  <2>1. k \in Nat /\ k >= 1
    BY ScansAssumption
  <2> QED BY <1>1, <2>1 DEF Passed
<1> HIDE DEF StartBatch, DriverItem, DriverStops, CollectBatch
<1>4. RecordsInv' /\ FreshInv' /\ JudgedInv'
  BY <1>1, <1>3, SilentStep
<1> QED BY <1>2, <1>4 DEF IInv

LEMMA SkipStep == IInv /\ SkipFixture => IInv'
<1> SUFFICES ASSUME IInv, SkipFixture PROVE IInv'
  OBVIOUS
<1>1. PICK r : /\ records' = Append(records, r) /\ r.path = File.path /\ r.engine = "native"
  BY DEF SkipFixture, Result
<1>2. /\ stage = "fixture" /\ "okapi" \in Skips(Scan, File) /\ NextFile
      /\ UNCHANGED <<corpus, failed>>
  BY DEF SkipFixture, Skipping
<1>3. /\ PlaceInv'
      /\ \A s \in DOMAIN Scans : \A k \in DOMAIN Scans[s].files : \A e \in Engines :
           Passed(s, k, e)' <=> Passed(s, k, e) \/ (s = scan /\ k = file)
  BY <1>2, NextFileMoves DEF IInv
<1>4. ~Passed(scan, file, "native") /\ "native" \in Engines
  BY <1>2, ScansAssumption DEF Passed, IInv, PlaceInv, Engines
<1>5. RecordsInv' /\ FreshInv' /\ JudgedInv'
  BY <1>1, <1>2, <1>3, <1>4, RecordStep
<1> QED BY <1>3, <1>5 DEF IInv

LEMMA NoReferenceStep == IInv /\ NoReference => IInv'
<1> SUFFICES ASSUME IInv, NoReference PROVE IInv'
  OBVIOUS
<1>1. /\ stage = "fixture" /\ NextFile /\ UNCHANGED <<corpus, records>>
      /\ failed \subseteq failed' /\ failed' # {}
  BY DEF NoReference
<1>2. /\ PlaceInv'
      /\ \A s \in DOMAIN Scans : \A k \in DOMAIN Scans[s].files : \A e \in Engines :
           Passed(s, k, e)' <=> Passed(s, k, e) \/ (s = scan /\ k = file)
  BY <1>1, NextFileMoves DEF IInv
<1>3. RecordsInv' /\ FreshInv' /\ JudgedInv'
  BY <1>1, <1>2, SilentStep
<1> QED BY <1>2, <1>3 DEF IInv

LEMMA StartStep == IInv /\ StartFixture => IInv'
<1> SUFFICES ASSUME IInv, StartFixture PROVE IInv'
  OBVIOUS
<1>1. /\ stage = "fixture" /\ stage' = "native" /\ "okapi" \notin Skips(Scan, File)
      /\ UNCHANGED <<corpus, scan, file, records, failed>>
  BY DEF StartFixture, Skipping
<1>2. PlaceInv'
  BY <1>1, SkipsStay DEF IInv, PlaceInv
<1>3. ASSUME NEW s, NEW k, NEW e PROVE Passed(s, k, e)' <=> Passed(s, k, e)
  BY <1>1 DEF Passed
<1>4. RecordsInv' /\ FreshInv' /\ JudgedInv'
  BY <1>1, <1>3, SilentStep
<1> QED BY <1>2, <1>4 DEF IInv

\* What the turn of an engine leaves behind: a failed test, or one record that
\* is a skip or good enough, or both a record and a failed test.
Turn(e) ==
  \/ failed' # {} /\ failed \subseteq failed' /\ UNCHANGED records
  \/ /\ failed \subseteq failed'
     /\ \E r : /\ records' = Append(records, r) /\ r.path = File.path /\ r.engine = e
               /\ failed' = {} =>
                    IF e \in Skips(Scan, File) THEN r.skipped
                    ELSE ~r.skipped /\ r.achieved <= r.required

LEMMA JudgeTurns ==
  ASSUME NEW e, e \notin Skips(Scan, File), NEW t \in 0..3, Judge(e, t),
         RequiredTier(e) \in 0..3
  PROVE  Turn(e)
<1> DEFINE r == Result(e, RequiredTier(e), t, FALSE)
<1>1. /\ records' = Append(records, r) /\ r.path = File.path /\ r.engine = e
      /\ ~r.skipped /\ r.achieved = t /\ r.required = RequiredTier(e)
  BY DEF Judge, Result
<1>2. failed \subseteq failed' /\ (failed' = {} => t <= RequiredTier(e))
  <2>1. CASE t > RequiredTier(e)
    BY <2>1 DEF Judge
  <2>2. CASE ~(t > RequiredTier(e))
    <3> DEFINE m == RequiredTier(e)
    <3>1. failed' = failed
      BY <2>2 DEF Judge
    <3>2. m \in 0..3 /\ ~(t > m)
      BY <2>2
    <3>3. t <= m
      <4> HIDE DEF m
      <4> QED BY <3>2
    <3> QED BY <3>1, <3>3
  <2> QED BY <2>1, <2>2
<1> QED BY <1>1, <1>2 DEF Turn

LEMMA SkipTurns ==
  ASSUME NEW e, SkipEngine(e)
  PROVE  Turn(e)
<1> DEFINE r == Result(e, RequiredTier(e), ByteEqual, TRUE)
<1>1. records' = Append(records, r) /\ r.path = File.path /\ r.engine = e /\ r.skipped
  BY DEF SkipEngine, Result
<1> QED BY <1>1 DEF Turn, SkipEngine

LEMMA FatalTurns ==
  ASSUME NEW e, Fatal(e)
  PROVE  Turn(e)
  BY DEF Fatal, Turn

\* After its turn the engine at hand is passed, and nothing else that is tested.
LEMMA TurnStep ==
  ASSUME IInv, corpus' = corpus, NEW e \in Engines, Turn(e), ~Passed(scan, file, e),
         \A s \in DOMAIN Scans : \A k \in DOMAIN Scans[s].files : \A d \in Engines :
           /\ Passed(s, k, d) \/ (s = scan /\ k = file /\ d = e) => Passed(s, k, d)'
           /\ d \in Tested(s) /\ Passed(s, k, d)' =>
                Passed(s, k, d) \/ (s = scan /\ k = file /\ d = e)
  PROVE  RecordsInv' /\ FreshInv' /\ JudgedInv'
<1>1. CASE failed' # {} /\ failed \subseteq failed' /\ UNCHANGED records
  BY <1>1, SilentStep
<1>2. CASE ~(failed' # {} /\ failed \subseteq failed' /\ UNCHANGED records)
  <2>1. PICK r : /\ records' = Append(records, r) /\ r.path = File.path /\ r.engine = e
                 /\ failed' = {} =>
                      IF e \in Skips(Scan, File) THEN r.skipped
                      ELSE ~r.skipped /\ r.achieved <= r.required
    BY <1>2 DEF Turn
  <2>2. failed \subseteq failed'
    BY <1>2 DEF Turn
  <2> QED BY <2>1, <2>2, RecordStep
<1> QED BY <1>1, <1>2

LEMMA NativeStep == IInv /\ RunNative => IInv'
<1> SUFFICES ASSUME IInv, RunNative PROVE IInv'
  OBVIOUS
<1>1. /\ stage = "native" /\ corpus' = corpus
      /\ IF Scan.filter THEN stage' = "bridge" /\ UNCHANGED <<scan, file>> ELSE NextFile
  BY DEF RunNative
<1>2. Turn("native")
  <2>1. CASE SkipEngine("native")
    BY <2>1, SkipTurns
  <2>2. CASE Fatal("native")
    BY <2>2, FatalTurns
  <2>3. ASSUME "native" \notin Skips(Scan, File), NEW t \in 0..3, Judge("native", t)
        PROVE  Turn("native")
    BY <2>3, JudgeTurns, TiersAssumption DEF IInv, PlaceInv, RequiredTier, Scan, Divergent, ByteEqual
  <2> QED BY <2>1, <2>2, <2>3 DEF RunNative, Tiers, ByteEqual, CanonicalEqual, Divergent
<1>3. "native" \in Engines /\ ~Passed(scan, file, "native")
  BY <1>1, ScansAssumption DEF Passed, IInv, PlaceInv, Engines
<1>4. CASE Scan.filter
  <2>1. stage' = "bridge" /\ scan' = scan /\ file' = file
    BY <1>1, <1>4
  <2>2. PlaceInv'
    BY <1>1, <1>4, <2>1, SkipsStay DEF IInv, PlaceInv, Scan
  <2>3. ASSUME NEW s, NEW k, NEW d
        PROVE  Passed(s, k, d)' <=> Passed(s, k, d) \/ (s = scan /\ k = file /\ d = "native")
    BY <1>1, <2>1 DEF Passed
  <2>4. RecordsInv' /\ FreshInv' /\ JudgedInv'
    BY <1>1, <1>2, <1>3, <2>3, TurnStep
  <2> QED BY <2>2, <2>4 DEF IInv
<1>5. CASE ~Scan.filter
  <2>1. /\ PlaceInv'
        /\ \A s \in DOMAIN Scans : \A k \in DOMAIN Scans[s].files : \A d \in Engines :
             Passed(s, k, d)' <=> Passed(s, k, d) \/ (s = scan /\ k = file)
    BY <1>1, <1>5, NextFileMoves DEF IInv
  <2>2. \A d \in Tested(scan) : d = "native"
    BY <1>5 DEF Tested, Scan
  <2>3. RecordsInv' /\ FreshInv' /\ JudgedInv'
    BY <1>1, <1>2, <1>3, <2>1, <2>2, TurnStep
  <2> QED BY <2>1, <2>3 DEF IInv
<1> QED BY <1>4, <1>5

LEMMA BridgeStep == IInv /\ RunBridge => IInv'
<1> SUFFICES ASSUME IInv, RunBridge PROVE IInv'
  OBVIOUS
<1>1. stage = "bridge" /\ corpus' = corpus /\ NextFile
  BY DEF RunBridge
<1>2. Turn("bridge")
  <2>1. CASE SkipEngine("bridge")
    BY <2>1, SkipTurns
  <2>2. CASE Fatal("bridge")
    BY <2>2, FatalTurns
  <2>3. ASSUME "bridge" \notin Skips(Scan, File), NEW t \in 0..3, Judge("bridge", t)
        PROVE  Turn("bridge")
    BY <2>3, JudgeTurns, TiersAssumption DEF IInv, PlaceInv, RequiredTier, Scan, Divergent, ByteEqual
  <2> QED BY <2>1, <2>2, <2>3 DEF RunBridge, Tiers, ByteEqual, CanonicalEqual, Divergent
<1>3. "bridge" \in Engines /\ ~Passed(scan, file, "bridge")
  BY <1>1, ScansAssumption DEF Passed, IInv, PlaceInv, Engines
<1>4. /\ PlaceInv'
      /\ \A s \in DOMAIN Scans : \A k \in DOMAIN Scans[s].files : \A d \in Engines :
           Passed(s, k, d)' <=> Passed(s, k, d) \/ (s = scan /\ k = file)
  BY <1>1, NextFileMoves DEF IInv
<1>5. \A d \in Engines : d = "bridge" \/ Passed(scan, file, d)
  BY <1>1 DEF Engines, Passed
<1>6. RecordsInv' /\ FreshInv' /\ JudgedInv'
  BY <1>1, <1>2, <1>3, <1>4, <1>5, TurnStep
<1> QED BY <1>4, <1>6 DEF IInv

LEMMA EndSteps == IInv /\ (Gate \/ Flush \/ Done \/ UNCHANGED vars) => IInv'
<1> SUFFICES ASSUME IInv, Gate \/ Flush \/ UNCHANGED vars PROVE IInv'
  BY DEF Done
<1>1. /\ UNCHANGED <<corpus, scan, file, records>> /\ failed \subseteq failed'
      /\ \/ stage \in {"gate", "report"} /\ stage' \in {"report", "done"}
         \/ stage' = stage
  BY DEF Gate, Flush, vars
<1>2. PlaceInv'
  BY <1>1, SkipsStay DEF IInv, PlaceInv, Scan
<1>3. ASSUME NEW s, NEW k, NEW e PROVE Passed(s, k, e)' <=> Passed(s, k, e)
  BY <1>1 DEF Passed
<1>4. RecordsInv' /\ FreshInv' /\ JudgedInv'
  BY <1>1, <1>3, SilentStep
<1> QED BY <1>2, <1>4 DEF IInv

LEMMA NextInv == IInv /\ [Next]_vars => IInv'
  BY BatchSteps, SkipStep, NoReferenceStep, StartStep, NativeStep, BridgeStep, EndSteps
  DEF Next

-----------------------------------------------------------------------------

\* However batches stop, references are lost and engines or the daemon fail: a
\* run without a failed test has judged every fixture with every engine of its
\* format once, and well enough, unless an annotation skips it.
THEOREM GreenMeansJudgedHolds == Spec => []GreenMeansJudged
<1>1. IInv => GreenMeansJudged
  <2> SUFFICES ASSUME IInv, stage = "done", failed = {}, NEW s \in DOMAIN Scans,
                      NEW f \in Files(s), NEW e \in Tested(s)
               PROVE  Judged(s, f, e)
    BY DEF GreenMeansJudged, Judged
  <2>1. PICK k \in DOMAIN Scans[s].files : f = FixtureAt(s, k)
    BY DEF Files, FixtureAt
  <2>2. Passed(s, k, e)
    BY DEF Passed
  <2> QED BY <2>1, <2>2 DEF IInv, JudgedInv
<1> QED BY InitInv, NextInv, <1>1, PTL DEF Spec

-----------------------------------------------------------------------------
(* The gate.                                                                 *)

\* A record is only annotated by the note of its own format and fixture.
NotesInv ==
  \A i \in DOMAIN records :
    records[i].annotation # Unannotated =>
      <<records[i].format, records[i].fixture>> \in DOMAIN corpus.notes

\* Past the gate nothing is recorded, so what it has seen is all there is.
RefusedInv ==
  stage \in {"report", "done"} /\ <<"gate", "gate">> \notin failed =>
    UnannotatedDivergences(records) = {}

GateInv == RecordsInv /\ NotesInv /\ RefusedInv

LEMMA ResultNotes ==
  ASSUME GateInv, corpus' = corpus, NEW e, NEW m, NEW t, NEW skip,
         records' = Append(records, Result(e, m, t, skip))
  PROVE  RecordsInv' /\ NotesInv'
<1> DEFINE r == Result(e, m, t, skip)
<1>1. /\ r.format = Scan.format /\ r.fixture = File.name
      /\ r.annotation = Note(Scan.format, File.name).severity
  BY DEF Result
<1>2. r.annotation # Unannotated => <<r.format, r.fixture>> \in DOMAIN corpus.notes
  BY <1>1 DEF Note, NoNote
<1> HIDE DEF r
<1>3. /\ IsSeq(records') /\ DOMAIN records = 1..Len(records) /\ Len(records) \in Nat
      /\ DOMAIN records' = 1..(Len(records) + 1)
      /\ \A i \in DOMAIN records : records'[i] = records[i]
      /\ records'[Len(records) + 1] = r
  BY AppendToSeq DEF GateInv, RecordsInv, r
<1>4. NotesInv'
  <2> SUFFICES ASSUME NEW i \in DOMAIN records', records'[i].annotation # Unannotated
               PROVE  <<records'[i].format, records'[i].fixture>> \in DOMAIN corpus.notes
    BY DEF NotesInv
  <2>1. CASE i \in DOMAIN records
    BY <1>3, <2>1 DEF GateInv, NotesInv
  <2>2. CASE i = Len(records) + 1
    BY <1>2, <1>3, <2>2
  <2> QED BY <1>3, <2>1, <2>2
<1> QED BY <1>3, <1>4 DEF RecordsInv, IsSeq

LEMMA QuietNotes ==
  ASSUME GateInv, UNCHANGED <<corpus, records>>
  PROVE  RecordsInv' /\ NotesInv'
  BY DEF GateInv, RecordsInv, NotesInv, IsSeq

\* The stages before the gate never lead past it.
LEMMA FixturesBeforeGate ==
  ASSUME PlaceInv, NextFile, stage \in {"fixture", "native", "bridge"}
  PROVE  stage' \notin {"report", "done"}
  BY DEF NextFile

LEMMA GateStep == IInv /\ GateInv /\ [Next]_vars => GateInv'
<1> SUFFICES ASSUME IInv, GateInv, [Next]_vars PROVE GateInv'
  OBVIOUS
<1>1. CASE StartBatch \/ DriverItem \/ DriverStops \/ CollectBatch
  <2>1. UNCHANGED <<corpus, records>> /\ stage' \notin {"report", "done"}
    BY <1>1 DEF StartBatch, DriverItem, DriverStops, CollectBatch
  <2> QED BY <2>1, QuietNotes DEF GateInv, RefusedInv
<1>2. CASE SkipFixture
  <2>1. corpus' = corpus /\ records' = Append(records, Result("native", Divergent, ByteEqual, TRUE))
    BY <1>2 DEF SkipFixture
  <2>2. stage' \notin {"report", "done"}
    BY <1>2, FixturesBeforeGate DEF SkipFixture, Skipping, IInv
  <2> QED BY <2>1, <2>2, ResultNotes DEF GateInv, RefusedInv
<1>3. CASE NoReference \/ StartFixture
  <2>1. UNCHANGED <<corpus, records>>
    BY <1>3 DEF NoReference, StartFixture
  <2>2. stage' \notin {"report", "done"}
    BY <1>3, FixturesBeforeGate DEF NoReference, StartFixture, IInv
  <2> QED BY <2>1, <2>2, QuietNotes DEF GateInv, RefusedInv
<1>4. CASE RunNative
  <2>1. corpus' = corpus
    BY <1>4 DEF RunNative
  <2>2. UNCHANGED records \/ \E m, t, skip : records' = Append(records, Result("native", m, t, skip))
    <3>1. SkipEngine("native") \/ Fatal("native") \/ \E t : Judge("native", t)
      BY <1>4 DEF RunNative
    <3>2. CASE SkipEngine("native")
      BY <3>2 DEF SkipEngine
    <3>3. CASE Fatal("native")
      BY <3>3 DEF Fatal
    <3>4. ASSUME NEW t, Judge("native", t)
          PROVE  \E m, u, skip : records' = Append(records, Result("native", m, u, skip))
      BY <3>4 DEF Judge
    <3> QED BY <3>1, <3>2, <3>3, <3>4
  <2>3. stage' \notin {"report", "done"}
    BY <1>4, FixturesBeforeGate DEF RunNative, IInv
  <2> QED BY <2>1, <2>2, <2>3, ResultNotes, QuietNotes DEF GateInv, RefusedInv
<1>5. CASE RunBridge
  <2>1. corpus' = corpus
    BY <1>5 DEF RunBridge
  <2>2. UNCHANGED records \/ \E m, t, skip : records' = Append(records, Result("bridge", m, t, skip))
    <3>1. SkipEngine("bridge") \/ Fatal("bridge") \/ \E t : Judge("bridge", t)
      BY <1>5 DEF RunBridge
    <3>2. CASE SkipEngine("bridge")
      BY <3>2 DEF SkipEngine
    <3>3. CASE Fatal("bridge")
      BY <3>3 DEF Fatal
    <3>4. ASSUME NEW t, Judge("bridge", t)
          PROVE  \E m, u, skip : records' = Append(records, Result("bridge", m, u, skip))
      BY <3>4 DEF Judge
    <3> QED BY <3>1, <3>2, <3>3, <3>4
  <2>3. stage' \notin {"report", "done"}
    BY <1>5, FixturesBeforeGate DEF RunBridge, IInv
  <2> QED BY <2>1, <2>2, <2>3, ResultNotes, QuietNotes DEF GateInv, RefusedInv
<1>6. CASE Gate
  <2>1. UNCHANGED <<corpus, records>>
    BY <1>6 DEF Gate
  <2>2. UnannotatedDivergences(records)' = UnannotatedDivergences(records)
    BY <2>1 DEF UnannotatedDivergences
  <2>3. RefusedInv'
    BY <1>6, <2>2 DEF Gate, RefusedInv
  <2> QED BY <2>1, <2>3, QuietNotes DEF GateInv
<1>7. CASE Flush \/ Done \/ UNCHANGED vars
  <2>1. UNCHANGED <<corpus, records, failed>> /\ (stage' \in {"report", "done"} => stage \in {"report", "done"})
    BY <1>7 DEF Flush, Done, vars
  <2>2. UnannotatedDivergences(records)' = UnannotatedDivergences(records)
    BY <2>1 DEF UnannotatedDivergences
  <2>3. RefusedInv'
    BY <2>1, <2>2 DEF GateInv, RefusedInv
  <2> QED BY <2>1, <2>3, QuietNotes DEF GateInv
<1> QED BY <1>1, <1>2, <1>3, <1>4, <1>5, <1>6, <1>7 DEF Next

LEMMA GateInit == Init => GateInv
  BY DEF Init, GateInv, RecordsInv, IsSeq, NotesInv, RefusedInv

\* Once the gate has let a run pass, whatever fell short of what its engine has
\* to reach was explained for that fixture in that format.
THEOREM GateIsSoundHolds == Spec => []GateIsSound
<1>1. GateInv => GateIsSound
  <2> SUFFICES ASSUME GateInv, stage \in {"report", "done"}, <<"gate", "gate">> \notin failed,
                      NEW i \in DOMAIN records,
                      ~records[i].skipped, records[i].achieved > records[i].required
               PROVE  <<records[i].format, records[i].fixture>> \in DOMAIN corpus.notes
    BY DEF GateIsSound
  <2>1. ~Undocumented(records[i])
    BY DEF GateInv, RefusedInv, UnannotatedDivergences
  <2> QED BY <2>1 DEF Undocumented, GateInv, NotesInv
<1> QED BY InitInv, NextInv, GateInit, GateStep, <1>1, PTL DEF Spec
-----------------------------------------------------------------------------
(* Types.                                                                    *)

\* The record is one of a fixture of the scans, and its tiers are tiers.
OfFixture(r) ==
  /\ \E s \in DOMAIN Scans : \E k \in DOMAIN Scans[s].files :
       r.path = FixtureAt(s, k).path /\ r.format = Scans[s].format
  /\ r.engine \in Engines
  /\ r.required \in ByteEqual..Divergent /\ r.achieved \in ByteEqual..Divergent

\* Only a batch has work queued.
TypesInv ==
  /\ queue \subseteq DOMAIN Scan.files /\ (stage # "batch" => queue = {})
  /\ written \in [Paths -> {"nothing", "empty", "partial", "whole"}]
  /\ cache \in [Paths -> {"unknown", "error", "partial", "whole"}]
  /\ daemon \in {"unasked", "up", "broken"}
  /\ \A i \in DOMAIN records : OfFixture(records[i])
  /\ failed \subseteq (Paths \cup {"gate"}) \X {"okapi", "native", "bridge", "gate"}

\* The path of a fixture is a path.
LEMMA PathOf ==
  ASSUME NEW s \in DOMAIN Scans, NEW k \in DOMAIN Scans[s].files
  PROVE  FixtureAt(s, k).path \in Paths
<1>1. FixtureAt(s, k) \in Files(s)
  BY DEF FixtureAt, Files
<1> QED BY <1>1 DEF Paths, AllFiles

\* What a step does to the records and the failed tests: an engine whose turn it
\* is leaves one record at most, and a test that has failed stays failed.
LEMMA Recording ==
  ASSUME IInv, [Next]_vars
  PROVE  /\ corpus' = corpus
         /\ \/ UNCHANGED records
            \/ \E e \in Engines, m, t \in ByteEqual..Divergent, skip \in BOOLEAN :
                 /\ records' = Append(records, Result(e, m, t, skip))
                 /\ ~Passed(scan, file, e)
         /\ failed' \subseteq failed \cup ({File.path} \X {"okapi", "native", "bridge"})
                                     \cup {<<"gate", "gate">>}
         /\ failed \subseteq failed'
<1> DEFINE Tier == ByteEqual..Divergent
           Recorder(e) ==
             \/ UNCHANGED records
             \/ \E m, t \in Tier, skip \in BOOLEAN :
                  records' = Append(records, Result(e, m, t, skip))
           Failer == /\ failed' \subseteq failed \cup ({File.path} \X {"okapi", "native", "bridge"})
                                                 \cup {<<"gate", "gate">>}
                     /\ failed \subseteq failed'
<1>1. ByteEqual \in Tier /\ CanonicalEqual \in Tier /\ Divergent \in Tier
  BY DEF ByteEqual, CanonicalEqual, Divergent
<1>2. scan \in Nat /\ file \in Nat /\ scan \in DOMAIN Scans
  BY ScansAssumption DEF IInv, PlaceInv
<1>3. ASSUME NEW e \in Engines PROVE RequiredTier(e) \in Tier
  BY <1>1, <1>2, TiersAssumption DEF RequiredTier, Scan
<1>4. ASSUME NEW e \in Engines,
             SkipEngine(e) \/ Fatal(e) \/ (\E t \in Tier : Judge(e, t))
      PROVE  Recorder(e) /\ Failer
  <2>1. CASE SkipEngine(e)
    BY <1>1, <1>3, <2>1 DEF SkipEngine
  <2>2. CASE Fatal(e)
    BY <2>2 DEF Fatal, Engines
  <2>3. ASSUME NEW t \in Tier, Judge(e, t) PROVE Recorder(e) /\ Failer
    <3>1. failed' = failed \/ failed' = failed \cup {<<File.path, e>>}
      BY <2>3 DEF Judge
    <3>2. records' = Append(records, Result(e, RequiredTier(e), t, FALSE))
      BY <2>3 DEF Judge
    <3>3. e \in {"okapi", "native", "bridge"}
      BY DEF Engines
    <3>4. Failer
      BY <3>1, <3>3
    <3>5. Recorder(e)
      <4> HIDE DEF Tier
      <4> QED BY <1>3, <2>3, <3>2
    <3> QED BY <3>4, <3>5
  <2> QED BY <1>4, <2>1, <2>2, <2>3
<1>5. \A s \in BOOLEAN : Tiers(s) \subseteq Tier
  BY <1>1 DEF Tiers
<1>6. CASE SkipFixture
  <2>1. records' = Append(records, Result("native", Divergent, ByteEqual, TRUE))
        /\ UNCHANGED <<corpus, failed>> /\ stage = "fixture"
    BY <1>6 DEF SkipFixture, Skipping
  <2>2. ~Passed(scan, file, "native") /\ "native" \in Engines
    BY <1>2, <2>1 DEF Passed, Engines
  <2> QED BY <1>1, <2>1, <2>2
<1>7. CASE RunNative
  <2>1. SkipEngine("native") \/ Fatal("native") \/ (\E t \in Tier : Judge("native", t))
    <3> DEFINE same == NativeTargets(Doc(File.path)) = ReferenceTargets(Doc(File.path))
    <3>1. Tiers(same) \subseteq Tier
      BY <1>5
    <3> QED BY <1>7, <3>1 DEF RunNative
  <2>2. ~Passed(scan, file, "native") /\ "native" \in Engines /\ corpus' = corpus
    BY <1>2, <1>7 DEF RunNative, Passed, Engines
  <2> QED BY <1>4, <2>1, <2>2
<1>8. CASE RunBridge
  <2>1. SkipEngine("bridge") \/ Fatal("bridge") \/ (\E t \in Tier : Judge("bridge", t))
    <3> DEFINE same == BridgeTargets(Doc(File.path)) = ShownTargets(Doc(File.path))
    <3>1. Tiers(same) \subseteq Tier
      BY <1>5
    <3> QED BY <1>8, <3>1 DEF RunBridge
  <2>2. ~Passed(scan, file, "bridge") /\ "bridge" \in Engines /\ corpus' = corpus
    BY <1>2, <1>8 DEF RunBridge, Passed, Engines
  <2> QED BY <1>4, <2>1, <2>2
<1>9. CASE ~(SkipFixture \/ RunNative \/ RunBridge)
  BY <1>9 DEF Next, StartBatch, DriverItem, DriverStops, CollectBatch, NoReference,
              StartFixture, Gate, Flush, Done, vars
<1> QED BY <1>6, <1>7, <1>8, <1>9

LEMMA TypesInit == Init => TypesInv
<1> SUFFICES ASSUME Init PROVE TypesInv
  OBVIOUS
<1> QED BY DEF Init, TypesInv

LEMMA TypesStep == IInv /\ TypesInv /\ [Next]_vars => TypesInv'
<1> SUFFICES ASSUME IInv, TypesInv, [Next]_vars PROVE TypesInv'
  OBVIOUS
<1>1. /\ scan \in DOMAIN Scans /\ file \in DOMAIN Scans[scan].files
      /\ File = FixtureAt(scan, file) /\ Scan = Scans[scan] /\ File.path \in Paths
  BY PathOf DEF IInv, PlaceInv, FixtureAt, File, Scan
<1>2. \A i \in DOMAIN records' : OfFixture(records'[i])
  <2>1. CASE UNCHANGED records
    BY <2>1 DEF TypesInv
  <2>2. ASSUME NEW e \in Engines, NEW m \in ByteEqual..Divergent,
               NEW t \in ByteEqual..Divergent, NEW skip \in BOOLEAN,
               records' = Append(records, Result(e, m, t, skip))
        PROVE  \A i \in DOMAIN records' : OfFixture(records'[i])
    <3> DEFINE r == Result(e, m, t, skip)
    <3>1. OfFixture(r)
      BY <1>1 DEF OfFixture, Result
    <3> HIDE DEF r
    <3>2. /\ DOMAIN records = 1..Len(records) /\ Len(records) \in Nat
          /\ DOMAIN records' = 1..(Len(records) + 1)
          /\ \A i \in DOMAIN records : records'[i] = records[i]
          /\ records'[Len(records) + 1] = r
      BY <2>2, AppendToSeq DEF IInv, RecordsInv, r
    <3>3. ASSUME NEW i \in DOMAIN records' PROVE OfFixture(records'[i])
      <4>1. i \in DOMAIN records \/ i = Len(records) + 1
        BY <3>2
      <4> QED BY <3>1, <3>2, <4>1 DEF TypesInv
    <3> QED BY <3>3
  <2> QED BY <2>1, <2>2, Recording
<1>3. failed' \subseteq (Paths \cup {"gate"}) \X {"okapi", "native", "bridge", "gate"}
  BY <1>1, Recording DEF TypesInv
<1>4. CASE StartBatch
  BY <1>2, <1>3, <1>4 DEF StartBatch, TypesInv, Scan
<1>5. CASE DriverItem \/ DriverStops
  <2>1. /\ queue' \subseteq queue /\ UNCHANGED <<stage, scan, cache, daemon>> /\ stage = "batch"
        /\ \E p, left : /\ left \in {"nothing", "empty", "partial", "whole"}
                        /\ written' = [written EXCEPT ![p] = left]
    BY <1>5 DEF DriverItem, DriverStops
  <2>2. written' \in [Paths -> {"nothing", "empty", "partial", "whole"}]
    BY <2>1 DEF TypesInv
  <2> QED BY <1>2, <1>3, <2>1, <2>2 DEF TypesInv, Scan
<1>6. CASE CollectBatch
  <2>1. queue' = {} /\ UNCHANGED <<written, daemon>>
    BY <1>6 DEF CollectBatch
  <2>2. \A p \in Paths : Cached(p) \in {"error", "partial", "whole"}
    BY DEF TypesInv, Cached
  <2>3. cache' \in [Paths -> {"unknown", "error", "partial", "whole"}]
    BY <1>6, <2>2 DEF CollectBatch, TypesInv
  <2> QED BY <1>2, <1>3, <2>1, <2>3 DEF TypesInv
<1>7. CASE ~(StartBatch \/ DriverItem \/ DriverStops \/ CollectBatch)
  <2>1. /\ UNCHANGED <<queue, written, cache>> /\ (stage = "batch" => UNCHANGED <<stage, scan>>)
        /\ daemon' = daemon \/ daemon' \in {"up", "broken"}
        /\ stage # "batch" => stage' # "batch"
    BY <1>7 DEF Next, SkipFixture, NoReference, StartFixture, RunNative, RunBridge,
                AcquireDaemon, Gate, Flush, Done, vars, NextFile, Skipping
  <2>2. queue' \subseteq DOMAIN Scan'.files /\ (stage' # "batch" => queue' = {})
    BY <2>1 DEF TypesInv, Scan
  <2>3. daemon' \in {"unasked", "up", "broken"}
    BY <2>1 DEF TypesInv
  <2> QED BY <1>2, <1>3, <2>1, <2>2, <2>3 DEF TypesInv
<1> QED BY <1>4, <1>5, <1>6, <1>7

\* The stages, the queue and the cache of the batch, the tiers of the records and
\* the names of the failed tests are always in their range, for any scans.
THEOREM TypeCorrect == Spec => []TypeOK
<1>1. IInv /\ TypesInv => TypeOK
  <2> SUFFICES ASSUME IInv, TypesInv PROVE TypeOK
    OBVIOUS
  <2>1. ASSUME NEW i \in DOMAIN records
        PROVE  /\ records[i].format \in Formats /\ records[i].path \in Paths
               /\ records[i].engine \in Engines
               /\ {records[i].required, records[i].achieved} \subseteq ByteEqual..Divergent
    <3>1. PICK s \in DOMAIN Scans : \E k \in DOMAIN Scans[s].files :
            records[i].path = FixtureAt(s, k).path /\ records[i].format = Scans[s].format
      BY DEF TypesInv, OfFixture
    <3>2. PICK k \in DOMAIN Scans[s].files :
            records[i].path = FixtureAt(s, k).path /\ records[i].format = Scans[s].format
      BY <3>1
    <3> QED BY <3>2, PathOf, ScansAssumption DEF TypesInv, OfFixture
  <2> QED BY <2>1 DEF TypeOK, IInv, PlaceInv, TypesInv, Scan
<1> QED BY InitInv, NextInv, TypesInit, TypesStep, <1>1, PTL DEF Spec

-----------------------------------------------------------------------------
(* The coverage map.                                                         *)

\* A fixture has one record of an engine at most.
UniqueInv ==
  \A i, j \in DOMAIN records :
    records[i].path = records[j].path /\ records[i].engine = records[j].engine => i = j

\* Nothing failed silently: past the native turn there is a record, or a test
\* of the fixture that failed.
LostInv ==
  \A s \in DOMAIN Scans : \A k \in DOMAIN Scans[s].files :
    Passed(s, k, "native") =>
      \/ Recorded(FixtureAt(s, k).path, "native") # {}
      \/ {<<FixtureAt(s, k).path, "okapi">>, <<FixtureAt(s, k).path, "native">>} \cap failed # {}

ReportInv == stage = "done" => report = Report(records)

CoverageInv == UniqueInv /\ LostInv /\ ReportInv

LEMMA CoverageInit == Init => CoverageInv
<1> SUFFICES ASSUME Init PROVE CoverageInv
  OBVIOUS
<1>1. UniqueInv /\ ReportInv
  BY DEF Init, UniqueInv, ReportInv
<1>2. LostInv
  <2> SUFFICES ASSUME NEW s \in DOMAIN Scans, NEW k, Passed(s, k, "native") PROVE FALSE
    BY DEF LostInv
  <2>1. s \in Nat /\ s >= 1
    BY ScansAssumption
  <2> QED BY <2>1 DEF Init, Passed
<1> QED BY <1>1, <1>2 DEF CoverageInv

\* A record stays where it is.
LEMMA RecordsStay ==
  ASSUME IInv, [Next]_vars
  PROVE  /\ DOMAIN records \subseteq DOMAIN records'
         /\ \A i \in DOMAIN records : records'[i] = records[i]
         /\ \A p, e : Recorded(p, e) \subseteq Recorded(p, e)'
<1>1. CASE UNCHANGED records
  BY <1>1 DEF Recorded
<1>2. ASSUME NEW r, records' = Append(records, r)
      PROVE  /\ DOMAIN records \subseteq DOMAIN records'
             /\ \A i \in DOMAIN records : records'[i] = records[i]
  <2>1. /\ DOMAIN records = 1..Len(records) /\ Len(records) \in Nat
        /\ DOMAIN records' = 1..(Len(records) + 1)
        /\ \A i \in DOMAIN records : records'[i] = records[i]
    BY <1>2, AppendToSeq DEF IInv, RecordsInv
  <2> QED BY <2>1
<1>3. /\ DOMAIN records \subseteq DOMAIN records'
      /\ \A i \in DOMAIN records : records'[i] = records[i]
  BY <1>1, <1>2, Recording
<1> QED BY <1>3 DEF Recorded

LEMMA UniqueStep == IInv /\ UniqueInv /\ [Next]_vars => UniqueInv'
<1> SUFFICES ASSUME IInv, UniqueInv, [Next]_vars PROVE UniqueInv'
  OBVIOUS
<1>1. CASE UNCHANGED records
  BY <1>1 DEF UniqueInv
<1>2. ASSUME NEW e \in Engines, NEW m, NEW t, NEW skip,
             records' = Append(records, Result(e, m, t, skip)), ~Passed(scan, file, e)
      PROVE  UniqueInv'
  <2> DEFINE r == Result(e, m, t, skip)
  <2>1. r.path = FixtureAt(scan, file).path /\ r.engine = e
    BY DEF Result, FixtureAt, File, Scan
  <2> HIDE DEF r
  <2>2. Recorded(r.path, r.engine) = {}
    BY <1>2, <2>1 DEF IInv, PlaceInv, FreshInv
  <2>3. /\ DOMAIN records = 1..Len(records) /\ Len(records) \in Nat
        /\ DOMAIN records' = 1..(Len(records) + 1)
        /\ \A i \in DOMAIN records : records'[i] = records[i]
        /\ records'[Len(records) + 1] = r
    BY <1>2, AppendToSeq DEF IInv, RecordsInv, r
  <2>4. \A i \in DOMAIN records' : i \in DOMAIN records \/ i = Len(records) + 1
    BY <2>3
  <2>5. \A i \in DOMAIN records : ~(records[i].path = r.path /\ records[i].engine = r.engine)
    BY <2>2 DEF Recorded
  <2> QED BY <2>3, <2>4, <2>5 DEF UniqueInv
<1> QED BY <1>1, <1>2, Recording

\* What its turn leaves of a fixture stays.
LEMMA StaysKnown ==
  ASSUME IInv, [Next]_vars, NEW p,
         Recorded(p, "native") # {} \/ {<<p, "okapi">>, <<p, "native">>} \cap failed # {}
  PROVE  Recorded(p, "native")' # {} \/ {<<p, "okapi">>, <<p, "native">>} \cap failed' # {}
  BY RecordsStay, Recording

LEMMA LostStep == IInv /\ LostInv /\ [Next]_vars => LostInv'
<1> SUFFICES ASSUME IInv, LostInv, [Next]_vars,
                    NEW s \in DOMAIN Scans, NEW k \in DOMAIN Scans[s].files,
                    Passed(s, k, "native")'
             PROVE  LET p == FixtureAt(s, k).path
                    IN \/ Recorded(p, "native")' # {}
                       \/ {<<p, "okapi">>, <<p, "native">>} \cap failed' # {}
  BY DEF LostInv, FixtureAt
<1> DEFINE p == FixtureAt(s, k).path
           Known == \/ Recorded(p, "native")' # {}
                    \/ {<<p, "okapi">>, <<p, "native">>} \cap failed' # {}
           Here == s = scan /\ k = file
<1>1. CASE Passed(s, k, "native")
  BY <1>1, StaysKnown DEF LostInv
<1>2. Here => File.path = p
  BY DEF File, Scan, FixtureAt
<1>3. ASSUME NEW r, records' = Append(records, r), r.path = p, r.engine = "native" PROVE Known
  <2>1. /\ DOMAIN records' = 1..(Len(records) + 1) /\ Len(records) \in Nat
        /\ records'[Len(records) + 1] = r
    BY <1>3, AppendToSeq DEF IInv, RecordsInv
  <2>2. Len(records) + 1 \in Recorded(p, "native")'
    BY <1>3, <2>1 DEF Recorded
  <2> QED BY <2>2
<1>4. CASE SkipFixture
  <2>1. Passed(s, k, "native") \/ Here
    BY <1>4, NextFileMoves DEF SkipFixture, Skipping, IInv, Engines
  <2>2. PICK r : records' = Append(records, r) /\ r.path = File.path /\ r.engine = "native"
    BY <1>4 DEF SkipFixture, Result
  <2> QED BY <1>1, <1>2, <1>3, <2>1, <2>2
<1>5. CASE NoReference
  <2>1. Passed(s, k, "native") \/ Here
    BY <1>5, NextFileMoves DEF NoReference, IInv, Engines
  <2>2. <<File.path, "okapi">> \in failed'
    BY <1>5 DEF NoReference
  <2> QED BY <1>1, <1>2, <2>1, <2>2
<1>6. CASE RunNative
  <2>1. Passed(s, k, "native") \/ Here
    <3>1. CASE Scan.filter
      BY <1>6, <3>1 DEF RunNative, Passed
    <3>2. CASE ~Scan.filter
      BY <1>6, <3>2, NextFileMoves DEF RunNative, IInv, Engines
    <3> QED BY <3>1, <3>2
  <2>2. \/ <<File.path, "native">> \in failed'
        \/ \E r : records' = Append(records, r) /\ r.path = File.path /\ r.engine = "native"
    <3>1. SkipEngine("native") \/ Fatal("native") \/ \E t : Judge("native", t)
      BY <1>6 DEF RunNative
    <3>2. CASE Fatal("native")
      BY <3>2 DEF Fatal
    <3>3. ASSUME NEW m, NEW t, NEW skip,
                 records' = Append(records, Result("native", m, t, skip))
          PROVE  \E r : records' = Append(records, r) /\ r.path = File.path /\ r.engine = "native"
      BY <3>3 DEF Result
    <3> QED BY <3>1, <3>2, <3>3 DEF SkipEngine, Judge
  <2> QED BY <1>1, <1>2, <1>3, <2>1, <2>2
<1>7. CASE RunBridge
  <2>1. Passed(s, k, "native") \/ Here
    BY <1>7, NextFileMoves DEF RunBridge, IInv, Engines
  <2>2. Here => Passed(s, k, "native")
    BY <1>7 DEF RunBridge, Passed
  <2> QED BY <1>1, <2>1, <2>2
<1>8. CASE StartBatch \/ DriverItem \/ DriverStops \/ CollectBatch
  <2>1. /\ UNCHANGED scan /\ stage \in {"scan", "batch"}
        /\ stage' \in {"scan", "batch"} \/ (stage' = "fixture" /\ file' = 1)
    BY <1>8 DEF StartBatch, DriverItem, DriverStops, CollectBatch
  <2>2. k \in Nat /\ k >= 1
    BY ScansAssumption
  <2>3. Passed(s, k, "native")
    BY <2>1, <2>2 DEF Passed
  <2> QED BY <1>1, <2>3
<1>9. CASE StartFixture \/ Gate \/ Flush \/ Done \/ UNCHANGED vars
  <2>1. Passed(s, k, "native")
    BY <1>9 DEF StartFixture, Gate, Flush, Done, vars, Passed
  <2> QED BY <1>1, <2>1
<1> QED BY <1>4, <1>5, <1>6, <1>7, <1>8, <1>9 DEF Next

\* The report is written once, at the end.
LEMMA ReportStep == IInv /\ ReportInv /\ [Next]_vars => ReportInv'
<1> SUFFICES ASSUME IInv, ReportInv, [Next]_vars PROVE ReportInv'
  OBVIOUS
<1>1. CASE Flush
  <2>1. records' = records /\ report' = Report(records)
    BY <1>1 DEF Flush
  <2> QED BY <2>1 DEF ReportInv
<1>2. CASE Done \/ UNCHANGED vars
  <2>1. UNCHANGED <<stage, records, report>>
    BY <1>2 DEF Done, vars
  <2> QED BY <2>1 DEF ReportInv
<1>3. CASE StartBatch \/ DriverItem \/ DriverStops \/ CollectBatch \/ StartFixture \/ Gate
  BY <1>3 DEF StartBatch, DriverItem, DriverStops, CollectBatch, StartFixture, Gate, ReportInv
<1>4. CASE SkipFixture \/ NoReference \/ RunNative \/ RunBridge
  <2>1. stage' # "done"
    BY <1>4 DEF SkipFixture, NoReference, RunNative, RunBridge, Skipping, NextFile
  <2> QED BY <2>1 DEF ReportInv
<1> QED BY <1>1, <1>2, <1>3, <1>4 DEF Next

\* What one format has in the scans.
FilesOf(f) == UNION {Files(s) : s \in {t \in DOMAIN Scans : Scans[t].format = f}}

LEMMA FilesAreFinite ==
  ASSUME NEW f
  PROVE  IsFiniteSet(FilesOf(f))
<1>1. ASSUME NEW s \in DOMAIN Scans PROVE IsFiniteSet(Files(s))
  <2> DEFINE D == DOMAIN Scans[s].files
             h == [k \in D |-> Scans[s].files[k]]
  <2>1. IsFiniteSet(D)
    <3>1. D = 1..Len(Scans[s].files) /\ Len(Scans[s].files) \in Int
      BY ScansAssumption
    <3>2. IsFiniteSet(1..Len(Scans[s].files))
      BY <3>1, FS_Interval
    <3> QED BY <3>1, <3>2
  <2>2. h \in Surjection(D, Files(s))
    BY DEF Surjection, Files
  <2> QED BY <2>1, <2>2, FS_Surjection
<1> DEFINE S == {t \in DOMAIN Scans : Scans[t].format = f}
           F == {Files(s) : s \in S}
           g == [s \in S |-> Files(s)]
<1>2. IsFiniteSet(S)
  <2>1. IsFiniteSet(DOMAIN Scans)
    BY ScansAssumption, FS_Interval
  <2> QED BY <2>1, FS_Subset
<1>3. g \in Surjection(S, F)
  BY DEF Surjection
<1>4. IsFiniteSet(F)
  BY <1>2, <1>3, FS_Surjection
<1>5. \A T \in F : IsFiniteSet(T)
  BY <1>1
<1>6. IsFiniteSet(UNION F)
  BY <1>4, <1>5, FS_UNION
<1> QED BY <1>6 DEF FilesOf

\* A fixture of a format is a fixture of one of its scans.
LEMMA FileOf ==
  ASSUME NEW f, NEW x
  PROVE  x \in FilesOf(f) <=>
           \E s \in DOMAIN Scans : \E k \in DOMAIN Scans[s].files :
             Scans[s].format = f /\ x = FixtureAt(s, k)
  BY DEF FilesOf, Files, FixtureAt

\* The native records of a format are as many as its fixtures that have one.
LEMMA RecordsMatchFiles ==
  ASSUME TypesInv, UniqueInv, NEW f
  PROVE  LET lost == {x \in FilesOf(f) : Recorded(x.path, "native") = {}}
         IN Cardinality(OfGroup(records, f, "native"))
              = Cardinality(FilesOf(f)) - Cardinality(lost)
<1> DEFINE lost == {x \in FilesOf(f) : Recorded(x.path, "native") = {}}
           seen == FilesOf(f) \ lost
           places == OfGroup(records, f, "native")
           h == [x \in seen |-> CHOOSE i \in places : records[i].path = x.path]
<1>1. ASSUME NEW x \in seen PROVE \E i \in places : records[i].path = x.path
  <2>1. PICK s \in DOMAIN Scans : \E k \in DOMAIN Scans[s].files :
          Scans[s].format = f /\ x = FixtureAt(s, k)
    BY FileOf
  <2>2. PICK k \in DOMAIN Scans[s].files : Scans[s].format = f /\ x = FixtureAt(s, k)
    BY <2>1
  <2>3. PICK i \in DOMAIN records : records[i].path = x.path /\ records[i].engine = "native"
    BY DEF Recorded
  <2>4. PICK t \in DOMAIN Scans : \E l \in DOMAIN Scans[t].files :
          records[i].path = FixtureAt(t, l).path /\ records[i].format = Scans[t].format
    BY DEF TypesInv, OfFixture
  <2>5. t = s
    <3>1. PICK l \in DOMAIN Scans[t].files : records[i].path = FixtureAt(t, l).path
      BY <2>4
    <3>2. Scans[s].files[k].path = Scans[t].files[l].path
      BY <2>2, <2>3, <3>1 DEF FixtureAt
    <3> QED BY <3>2, PathsAreDistinct
  <2> QED BY <2>2, <2>3, <2>4, <2>5 DEF OfGroup, OfEngine
<1>2. \A x \in seen : h[x] \in places /\ records[h[x]].path = x.path
  BY <1>1
<1>3. ASSUME NEW x \in seen, NEW y \in seen, x.path = y.path PROVE x = y
  <2>1. x \in FilesOf(f) /\ y \in FilesOf(f)
    OBVIOUS
  <2> QED BY <1>3, <2>1, FileOf, PathsAreDistinct DEF FixtureAt
<1>4. ASSUME NEW i \in places PROVE \E x \in seen : records[i].path = x.path
  <2>1. i \in DOMAIN records /\ records[i].engine = "native" /\ records[i].format = f
    BY DEF OfGroup, OfEngine
  <2>2. PICK s \in DOMAIN Scans : \E k \in DOMAIN Scans[s].files :
          records[i].path = FixtureAt(s, k).path /\ records[i].format = Scans[s].format
    BY <2>1 DEF TypesInv, OfFixture
  <2>3. PICK k \in DOMAIN Scans[s].files : records[i].path = FixtureAt(s, k).path
    BY <2>2
  <2>4. FixtureAt(s, k) \in FilesOf(f)
    BY <2>1, <2>2, FileOf
  <2>5. i \in Recorded(FixtureAt(s, k).path, "native")
    BY <2>1, <2>3 DEF Recorded
  <2> QED BY <2>3, <2>4, <2>5
<1>5. \A i, j \in places : records[i].path = records[j].path => i = j
  BY DEF UniqueInv, OfGroup, OfEngine
<1>6. h \in [seen -> places] /\ DOMAIN h = seen
  BY <1>2
<1> HIDE DEF h, seen, places
<1>7. h \in Bijection(seen, places)
  <2>1. h \in Injection(seen, places)
    BY <1>2, <1>3, <1>6 DEF Injection, IsInjective
  <2>2. \A i \in places : \E x \in seen : h[x] = i
    BY <1>2, <1>4, <1>5
  <2> QED BY <1>6, <2>1, <2>2 DEF Bijection, Surjection
<1>8. IsFiniteSet(FilesOf(f)) /\ IsFiniteSet(seen) /\ IsFiniteSet(lost)
      /\ Cardinality(seen) = Cardinality(FilesOf(f)) - Cardinality(FilesOf(f) \cap lost)
  <2> HIDE DEF lost
  <2> QED BY FilesAreFinite, FS_Difference, FS_Subset DEF seen, lost
<1>9. FilesOf(f) \cap lost = lost
  OBVIOUS
<1>10. Cardinality(places) = Cardinality(seen)
  BY <1>7, <1>8, FS_Bijection DEF ExistsBijection
<1> QED BY <1>8, <1>9, <1>10 DEF places

\* However batches stop, references are lost, engines or the daemon fail and
\* fixtures are skipped: the coverage map counts every fixture of a format, but for
\* those of which a test has failed before their record.
THEOREM CoverageHolds == Spec => []CoverageSeesEveryFixture
<1>1. IInv /\ TypesInv /\ CoverageInv => CoverageSeesEveryFixture
  <2> SUFFICES ASSUME IInv, TypesInv, CoverageInv, stage = "done", NEW f \in DOMAIN report.coverage
               PROVE  LET lost == {x \in FilesOf(f) : Recorded(x.path, "native") = {}}
                      IN /\ report.coverage[f].fixtures = Cardinality(FilesOf(f)) - Cardinality(lost)
                         /\ \A x \in lost : {<<x.path, "okapi">>, <<x.path, "native">>} \cap failed # {}
    BY DEF CoverageSeesEveryFixture, FilesOf
  <2> DEFINE lost == {x \in FilesOf(f) : Recorded(x.path, "native") = {}}
  <2>1. report.coverage = CoverageMap(records)
    BY DEF CoverageInv, ReportInv, Report
  <2>2. report.coverage[f].fixtures = Cardinality(OfGroup(records, f, "native"))
    BY <2>1 DEF CoverageMap
  <2>3. ASSUME NEW x \in lost PROVE {<<x.path, "okapi">>, <<x.path, "native">>} \cap failed # {}
    <3>1. PICK s \in DOMAIN Scans : \E k \in DOMAIN Scans[s].files : x = FixtureAt(s, k)
      BY FileOf
    <3>2. PICK k \in DOMAIN Scans[s].files : x = FixtureAt(s, k)
      BY <3>1
    <3>3. Passed(s, k, "native")
      BY DEF Passed
    <3> QED BY <3>2, <3>3 DEF CoverageInv, LostInv
  <2> QED BY <2>2, <2>3, RecordsMatchFiles DEF CoverageInv
<1>2. IInv /\ CoverageInv /\ [Next]_vars => CoverageInv'
  BY UniqueStep, LostStep, ReportStep DEF CoverageInv
<1> QED BY InitInv, NextInv, TypesInit, TypesStep, CoverageInit, <1>1, <1>2, PTL DEF Spec

-----------------------------------------------------------------------------
(* The totals.                                                               *)

\* The sizes of disjoint sets add up.
LEMMA DisjointSizes ==
  ASSUME NEW S, NEW T, IsFiniteSet(S), IsFiniteSet(T), S \cap T = {}
  PROVE  IsFiniteSet(S \cup T) /\ Cardinality(S \cup T) = Cardinality(S) + Cardinality(T)
<1>1. /\ IsFiniteSet(S \cup T)
      /\ Cardinality(S \cup T) = Cardinality(S) + Cardinality(T) - Cardinality(S \cap T)
  BY FS_Union
<1>2. Cardinality(S) \in Nat /\ Cardinality(T) \in Nat /\ Cardinality(S \cap T) = 0
  BY FS_CardinalityType, FS_EmptySet
<1> QED BY <1>1, <1>2

\* Whatever records are counted: each is in one part, and what is faithful among
\* them is in the part of its tier.
LEMMA TotalsSplit ==
  ASSUME TypesInv, RecordsInv, NEW places \in SUBSET (DOMAIN records)
  PROVE  Splits(Totals(records, places))
<1> DEFINE at(t) == {i \in places : At(records[i], t)}
           skip == {i \in places : records[i].skipped}
           canon(c) == {i \in at(CanonicalEqual) : records[i].class = c}
           faithful == {i \in at(Divergent) : IsFaithfulDivergence(records[i])}
           byte == at(ByteEqual)
           can == at(CanonicalEqual)
           sem == at(SemanticEqual)
           div == at(Divergent)
           well == canon("faithful")
<1>1. IsFiniteSet(places)
  <2>1. DOMAIN records = 1..Len(records) /\ Len(records) \in Int
    BY AppendToSeq DEF RecordsInv
  <2>2. IsFiniteSet(1..Len(records))
    BY <2>1, FS_Interval
  <2> QED BY <2>1, <2>2, FS_Subset
<1>2. \A S \in SUBSET places : IsFiniteSet(S) /\ Cardinality(S) \in Nat
  BY <1>1, FS_Subset, FS_CardinalityType
<1>3. \A i \in places : records[i].achieved \in 0..3
  BY DEF TypesInv, OfFixture, ByteEqual, Divergent
<1>4. /\ places = (((skip \cup byte) \cup can) \cup sem) \cup div
      /\ skip \cap byte = {} /\ (skip \cup byte) \cap can = {}
      /\ ((skip \cup byte) \cup can) \cap sem = {}
      /\ (((skip \cup byte) \cup can) \cup sem) \cap div = {}
  <2>1. \A i \in places : \/ records[i].achieved = 0 \/ records[i].achieved = 1
                         \/ records[i].achieved = 2 \/ records[i].achieved = 3
    BY <1>3
  <2> QED BY <2>1 DEF At, ByteEqual, CanonicalEqual, SemanticEqual, Divergent
<1>5. /\ skip \in SUBSET places /\ byte \in SUBSET places /\ can \in SUBSET places
      /\ sem \in SUBSET places /\ div \in SUBSET places
      /\ well \in SUBSET can /\ faithful \in SUBSET div
  OBVIOUS
<1>6. /\ Totals(records, places).total = Cardinality(places)
      /\ Totals(records, places).skip = Cardinality(skip)
      /\ Totals(records, places).byte = Cardinality(byte)
      /\ Totals(records, places).canon = Cardinality(can)
      /\ Totals(records, places).sem = Cardinality(sem)
      /\ Totals(records, places).div = Cardinality(div)
      /\ Totals(records, places).faithful = Cardinality(well)
      /\ Totals(records, places).divFaithful = Cardinality(faithful)
  BY DEF Totals
<1> HIDE DEF skip, byte, can, sem, div, well, faithful
<1>7. Cardinality(places) = Cardinality(skip) + Cardinality(byte) + Cardinality(can)
                              + Cardinality(sem) + Cardinality(div)
  <2>1. /\ IsFiniteSet(skip) /\ IsFiniteSet(byte) /\ IsFiniteSet(can)
        /\ IsFiniteSet(sem) /\ IsFiniteSet(div)
        /\ Cardinality(skip) \in Nat /\ Cardinality(byte) \in Nat /\ Cardinality(can) \in Nat
        /\ Cardinality(sem) \in Nat /\ Cardinality(div) \in Nat
    BY <1>2, <1>5
  <2>2. IsFiniteSet(skip \cup byte)
        /\ Cardinality(skip \cup byte) = Cardinality(skip) + Cardinality(byte)
    BY <1>4, <2>1, DisjointSizes
  <2>3. IsFiniteSet((skip \cup byte) \cup can)
        /\ Cardinality((skip \cup byte) \cup can) = Cardinality(skip \cup byte) + Cardinality(can)
    BY <1>4, <2>1, <2>2, DisjointSizes
  <2>4. IsFiniteSet(((skip \cup byte) \cup can) \cup sem)
        /\ Cardinality(((skip \cup byte) \cup can) \cup sem)
             = Cardinality((skip \cup byte) \cup can) + Cardinality(sem)
    BY <1>4, <2>1, <2>3, DisjointSizes
  <2>5. Cardinality((((skip \cup byte) \cup can) \cup sem) \cup div)
             = Cardinality(((skip \cup byte) \cup can) \cup sem) + Cardinality(div)
    BY <1>4, <2>1, <2>4, DisjointSizes
  <2> QED BY <1>4, <2>1, <2>2, <2>3, <2>4, <2>5
<1>8. /\ Cardinality(well) \in Nat /\ Cardinality(well) <= Cardinality(can)
      /\ Cardinality(faithful) \in Nat /\ Cardinality(faithful) <= Cardinality(div)
  BY <1>2, <1>5, FS_Subset, FS_CardinalityType
<1>9. /\ Cardinality(skip) \in Nat /\ Cardinality(byte) \in Nat /\ Cardinality(can) \in Nat
      /\ Cardinality(sem) \in Nat /\ Cardinality(div) \in Nat
  BY <1>2, <1>5
<1> QED BY <1>6, <1>7, <1>8, <1>9 DEF Splits, FaithfulShare, Asserted

\* A member of a set, and how a sum over it is taken: the member and the rest.
Member(s) == CHOOSE x \in s : TRUE
Unfolds(h, fun, D) == h = [s \in D |-> IF s = {} THEN 0 ELSE fun[Member(s)] + h[s \ {Member(s)}]]

LEMMA Rest ==
  ASSUME NEW S, IsFiniteSet(S), NEW s \in SUBSET S, s # {}
  PROVE  /\ Member(s) \in s /\ s \ {Member(s)} \in SUBSET S
         /\ IsFiniteSet(s) /\ Cardinality(s) \in Nat
         /\ Cardinality(s \ {Member(s)}) = Cardinality(s) - 1
<1>1. Member(s) \in s
  BY DEF Member
<1>2. IsFiniteSet(s) /\ Cardinality(s) \in Nat
  BY FS_Subset, FS_CardinalityType
<1>3. Cardinality(s \ {Member(s)}) = Cardinality(s) - 1
  BY <1>1, <1>2, FS_RemoveElement
<1> QED BY <1>1, <1>2, <1>3

LEMMA SumExists ==
  ASSUME NEW S, IsFiniteSet(S), NEW fun
  PROVE  \E h : Unfolds(h, fun, SUBSET S)
<1> DEFINE Small(n) == {s \in SUBSET S : Cardinality(s) <= n}
           T == {n \in Nat : \E h : Unfolds(h, fun, Small(n))}
<1>1. 0 \in T
  <2> DEFINE g == [s \in Small(0) |-> 0]
  <2>1. \A s \in Small(0) : s = {}
    <3> SUFFICES ASSUME NEW s \in SUBSET S, Cardinality(s) <= 0, s # {} PROVE FALSE
      OBVIOUS
    <3> QED BY FS_Subset, FS_CardinalityType, FS_EmptySet
  <2>2. Unfolds(g, fun, Small(0))
    BY <2>1 DEF Unfolds
  <2> QED BY <2>2
<1>2. ASSUME NEW n \in Nat, n \in T PROVE n + 1 \in T
  <2>1. PICK h : Unfolds(h, fun, Small(n))
    BY <1>2
  <2> DEFINE g == [s \in Small(n + 1) |-> IF s = {} THEN 0 ELSE fun[Member(s)] + h[s \ {Member(s)}]]
  <2>2. \A s \in Small(n) : s \in Small(n + 1) /\ g[s] = h[s]
    <3>1. \A s \in SUBSET S : Cardinality(s) \in Nat
      BY FS_Subset, FS_CardinalityType
    <3>2. \A s \in Small(n) : s \in Small(n + 1)
      BY <3>1
    <3> HIDE DEF Small
    <3>3. \A s \in Small(n) : h[s] = IF s = {} THEN 0 ELSE fun[Member(s)] + h[s \ {Member(s)}]
      BY <2>1 DEF Unfolds
    <3> QED BY <3>2, <3>3
  <2>3. ASSUME NEW s \in Small(n + 1), s # {} PROVE s \ {Member(s)} \in Small(n)
    BY <2>3, Rest
  <2>4. \A s \in Small(n + 1) : s # {} => h[s \ {Member(s)}] = g[s \ {Member(s)}]
    BY <2>2, <2>3
  <2>5. Unfolds(g, fun, Small(n + 1))
    <3>1. g = [s \in Small(n + 1) |-> IF s = {} THEN 0 ELSE fun[Member(s)] + g[s \ {Member(s)}]]
      <4>1. \A s \in Small(n + 1) :
              (IF s = {} THEN 0 ELSE fun[Member(s)] + h[s \ {Member(s)}])
                = (IF s = {} THEN 0 ELSE fun[Member(s)] + g[s \ {Member(s)}])
        BY <2>4
      <4> HIDE DEF Small
      <4> QED BY <4>1
    <3> HIDE DEF g
    <3> QED BY <3>1 DEF Unfolds
  <2>6. \E k : Unfolds(k, fun, Small(n + 1))
    <3> HIDE DEF g, Small
    <3> QED BY <2>5
  <2>7. n + 1 \in Nat
    OBVIOUS
  <2> HIDE DEF g, Small
  <2> QED BY <2>6, <2>7
<1>3. \A n \in Nat : n \in T
  <2> HIDE DEF T
  <2> QED BY <1>1, <1>2, AllNaturals
<1>4. Cardinality(S) \in Nat /\ Small(Cardinality(S)) = SUBSET S
  BY FS_CardinalityType, FS_Subset
<1>5. Cardinality(S) \in T
  BY <1>3, <1>4
<1> QED BY <1>4, <1>5

LEMMA SumIsFold ==
  ASSUME NEW fun, IsFiniteSet(DOMAIN fun)
  PROVE  \E h : Unfolds(h, fun, SUBSET DOMAIN fun) /\ SumFunction(fun) = h[DOMAIN fun]
<1> DEFINE h == CHOOSE h : Unfolds(h, fun, SUBSET DOMAIN fun)
<1>1. SumFunction(fun) = h[DOMAIN fun]
  BY DEF SumFunction, SumFunctionOnSet, FoldFunctionOnSet, MapThenFoldSet, Unfolds, Member
<1>2. Unfolds(h, fun, SUBSET DOMAIN fun)
  BY SumExists
<1> QED BY <1>1, <1>2

\* The sum of the sizes of disjoint parts is the size of the whole.
LEMMA SumOfParts ==
  ASSUME NEW D, IsFiniteSet(D), NEW G, IsFiniteSet(G), NEW parts \in [G -> SUBSET D],
         \A g, k \in G : g # k => parts[g] \cap parts[k] = {}
  PROVE  SumFunction([g \in G |-> Cardinality(parts[g])]) = Cardinality(UNION {parts[g] : g \in G})
<1> DEFINE fun == [g \in G |-> Cardinality(parts[g])]
           Whole(s) == UNION {parts[g] : g \in s}
<1>1. PICK h : Unfolds(h, fun, SUBSET G) /\ SumFunction(fun) = h[G]
  <2>1. DOMAIN fun = G
    OBVIOUS
  <2> HIDE DEF fun
  <2> QED BY <2>1, SumIsFold
<1> DEFINE T == {n \in Nat : \A s \in SUBSET G : Cardinality(s) = n => h[s] = Cardinality(Whole(s))}
<1>2. \A s \in SUBSET G : h[s] = IF s = {} THEN 0 ELSE fun[Member(s)] + h[s \ {Member(s)}]
  <2> HIDE DEF fun
  <2> QED BY <1>1 DEF Unfolds
<1>3. 0 \in T
  <2> SUFFICES ASSUME NEW s \in SUBSET G, Cardinality(s) = 0 PROVE h[s] = Cardinality(Whole(s))
    OBVIOUS
  <2>1. s = {}
    BY FS_Subset, FS_EmptySet
  <2>2. Whole(s) = {}
    BY <2>1
  <2> QED BY <1>2, <2>1, <2>2, FS_EmptySet
<1>4. ASSUME NEW n \in Nat, n \in T PROVE n + 1 \in T
  <2> SUFFICES ASSUME NEW s \in SUBSET G, Cardinality(s) = n + 1 PROVE h[s] = Cardinality(Whole(s))
    OBVIOUS
  <2> DEFINE m == Member(s)
             r == s \ {m}
  <2>1. s # {}
    BY FS_EmptySet
  <2>2. m \in s /\ r \in SUBSET G /\ Cardinality(r) = n
    BY <2>1, Rest
  <2>3. h[r] = Cardinality(Whole(r))
    BY <1>4, <2>2
  <2>4. h[s] = Cardinality(parts[m]) + h[r]
    BY <1>2, <2>1, <2>2
  <2>5. Whole(s) = parts[m] \cup Whole(r) /\ parts[m] \cap Whole(r) = {}
    <3> HIDE DEF m
    <3> QED BY <2>2
  <2>6. IsFiniteSet(parts[m]) /\ IsFiniteSet(Whole(r))
    <3>1. parts[m] \in SUBSET D /\ Whole(r) \in SUBSET D
      <4> HIDE DEF m
      <4> QED BY <2>2
    <3> HIDE DEF m, r, Whole
    <3> QED BY <3>1, FS_Subset
  <2> HIDE DEF m, r, Whole
  <2> QED BY <2>3, <2>4, <2>5, <2>6, DisjointSizes
<1>5. \A n \in Nat : n \in T
  <2> HIDE DEF T
  <2> QED BY <1>3, <1>4, AllNaturals
<1>6. Cardinality(G) \in Nat
  BY FS_CardinalityType
<1> QED BY <1>1, <1>5, <1>6

\* Whether a record is in a column of the totals.
InColumn(r, c) ==
  CASE c = "total" -> TRUE
    [] c = "skip" -> r.skipped
    [] c = "byte" -> At(r, ByteEqual)
    [] c = "canon" -> At(r, CanonicalEqual)
    [] c = "faithful" -> At(r, CanonicalEqual) /\ r.class = "faithful"
    [] c = "closeable" -> At(r, CanonicalEqual) /\ r.class = "closeable"
    [] c = "sem" -> At(r, SemanticEqual)
    [] c = "div" -> At(r, Divergent)
    [] c = "divFaithful" -> At(r, Divergent) /\ IsFaithfulDivergence(r)

Columns == {"total", "skip", "byte", "canon", "faithful", "closeable", "sem", "div", "divFaithful"}

LEMMA TotalsCount ==
  ASSUME NEW places
  PROVE  /\ DOMAIN Totals(records, places) = Columns
         /\ \A c \in Columns :
              Totals(records, places)[c] = Cardinality({i \in places : InColumn(records[i], c)})
<1>1. DOMAIN Totals(records, places) = Columns
  BY DEF Totals, Columns
<1>2. Totals(records, places).total = Cardinality({i \in places : InColumn(records[i], "total")})
  <2>1. {i \in places : InColumn(records[i], "total")} = places
    BY DEF InColumn
  <2> QED BY <2>1 DEF Totals
<1>3. Totals(records, places).skip = Cardinality({i \in places : InColumn(records[i], "skip")})
  BY DEF Totals, InColumn
<1>4. Totals(records, places).byte = Cardinality({i \in places : InColumn(records[i], "byte")})
  BY DEF Totals, InColumn
<1>5. Totals(records, places).canon = Cardinality({i \in places : InColumn(records[i], "canon")})
  BY DEF Totals, InColumn
<1>6. Totals(records, places).faithful = Cardinality({i \in places : InColumn(records[i], "faithful")})
  <2> DEFINE canon == {i \in places : At(records[i], CanonicalEqual)}
  <2>1. {i \in places : InColumn(records[i], "faithful")} = {i \in canon : records[i].class = "faithful"}
    BY DEF InColumn
  <2> QED BY <2>1 DEF Totals
<1>7. Totals(records, places).closeable = Cardinality({i \in places : InColumn(records[i], "closeable")})
  <2> DEFINE canon == {i \in places : At(records[i], CanonicalEqual)}
  <2>1. {i \in places : InColumn(records[i], "closeable")} = {i \in canon : records[i].class = "closeable"}
    BY DEF InColumn
  <2> QED BY <2>1 DEF Totals
<1>8. Totals(records, places).sem = Cardinality({i \in places : InColumn(records[i], "sem")})
  BY DEF Totals, InColumn
<1>9. Totals(records, places).div = Cardinality({i \in places : InColumn(records[i], "div")})
  BY DEF Totals, InColumn
<1>10. Totals(records, places).divFaithful
         = Cardinality({i \in places : InColumn(records[i], "divFaithful")})
  <2> DEFINE div == {i \in places : At(records[i], Divergent)}
  <2>1. {i \in places : InColumn(records[i], "divFaithful")}
          = {i \in div : IsFaithfulDivergence(records[i])}
    BY DEF InColumn
  <2> QED BY <2>1 DEF Totals
<1> QED BY <1>1, <1>2, <1>3, <1>4, <1>5, <1>6, <1>7, <1>8, <1>9, <1>10 DEF Columns

LEMMA PlacesAreFinite ==
  ASSUME RecordsInv
  PROVE  /\ IsFiniteSet(DOMAIN records) /\ DOMAIN records \subseteq Nat
         /\ \A S \in SUBSET (DOMAIN records) : IsFiniteSet(S) /\ Cardinality(S) \in Nat
<1>1. DOMAIN records = 1..Len(records) /\ Len(records) \in Int
  BY AppendToSeq DEF RecordsInv
<1>2. IsFiniteSet(DOMAIN records)
  BY <1>1, FS_Interval
<1> QED BY <1>1, <1>2, FS_Subset, FS_CardinalityType

\* The groups of an engine part its records.
LEMMA GroupsPart ==
  ASSUME RecordsInv, NEW e, NEW c \in Columns
  PROVE  LET mine == {g \in Groups(records) : g[2] = e}
         IN SumFunction([g \in mine |-> Totals(records, OfGroup(records, g[1], g[2]))[c]])
              = Totals(records, OfEngine(records, e))[c]
<1> DEFINE mine == {g \in Groups(records) : g[2] = e}
           parts == [g \in mine |-> {i \in OfGroup(records, g[1], g[2]) : InColumn(records[i], c)}]
           all == {i \in OfEngine(records, e) : InColumn(records[i], c)}
<1>1. IsFiniteSet(mine)
  <2> DEFINE h == [i \in DOMAIN records |-> <<records[i].format, records[i].engine>>]
  <2>1. h \in Surjection(DOMAIN records, Groups(records))
    BY DEF Surjection, Groups
  <2>2. IsFiniteSet(Groups(records))
    BY <2>1, PlacesAreFinite, FS_Surjection
  <2> QED BY <2>2, FS_Subset
<1>2. parts \in [mine -> SUBSET (DOMAIN records)]
  BY DEF OfGroup, OfEngine
<1>3. ASSUME NEW g \in mine, NEW k \in mine, g # k PROVE parts[g] \cap parts[k] = {}
  <2>1. PICK i \in DOMAIN records : g = <<records[i].format, records[i].engine>>
    BY DEF Groups
  <2>2. PICK j \in DOMAIN records : k = <<records[j].format, records[j].engine>>
    BY DEF Groups
  <2>3. g[1] # k[1]
    BY <1>3, <2>1, <2>2
  <2> QED BY <2>3 DEF OfGroup
<1>4. UNION {parts[g] : g \in mine} = all
  <2>1. ASSUME NEW i \in all PROVE \E g \in mine : i \in parts[g]
    <3> DEFINE g == <<records[i].format, records[i].engine>>
    <3>1. i \in DOMAIN records /\ records[i].engine = e
      BY DEF OfEngine
    <3>2. g \in mine /\ i \in parts[g]
      BY <3>1 DEF Groups, OfGroup
    <3> QED BY <3>2
  <2>2. ASSUME NEW g \in mine, NEW i \in parts[g] PROVE i \in all
    BY DEF OfGroup
  <2> HIDE DEF parts, all, mine
  <2> QED BY <2>1, <2>2
<1>5. SumFunction([g \in mine |-> Cardinality(parts[g])]) = Cardinality(all)
  <2> HIDE DEF parts, all, mine
  <2> QED BY <1>1, <1>2, <1>3, <1>4, PlacesAreFinite, SumOfParts
<1>6. [g \in mine |-> Cardinality(parts[g])]
        = [g \in mine |-> Totals(records, OfGroup(records, g[1], g[2]))[c]]
  BY TotalsCount
<1> QED BY <1>5, <1>6, TotalsCount

\* The n-th of some places is one of them.
LEMMA NthIsOne ==
  ASSUME NEW P, P \subseteq Nat, IsFiniteSet(P), NEW n \in 1..Cardinality(P)
  PROVE  Nth(P, n) \in P
<1> DEFINE below(i) == {j \in P : j <= i}
           h == [i \in P |-> Cardinality(below(i))]
           T == 1..Cardinality(P)
<1>1. Cardinality(P) \in Nat
  BY FS_CardinalityType
<1>2. ASSUME NEW i \in P
      PROVE  below(i) \in SUBSET P /\ IsFiniteSet(below(i)) /\ Cardinality(below(i)) \in T
  <2>1. below(i) \in SUBSET P /\ i \in below(i)
    BY <1>2
  <2>2. /\ IsFiniteSet(below(i)) /\ Cardinality(below(i)) <= Cardinality(P)
        /\ Cardinality(below(i)) \in Nat /\ Cardinality(below(i)) # 0
    <3> HIDE DEF below
    <3> QED BY <2>1, FS_Subset, FS_CardinalityType, FS_EmptySet
  <2> QED BY <1>1, <2>1, <2>2
<1>3. ASSUME NEW i \in P, NEW k \in P, Cardinality(below(i)) = Cardinality(below(k)), i < k
      PROVE  FALSE
  <2>1. below(i) \in SUBSET below(k) /\ k \in below(k) /\ k \notin below(i)
    <3>1. i \in Nat /\ k \in Nat /\ i < k /\ \A j \in P : j \in Nat
      BY <1>3
    <3>2. \A j \in P : j <= i => j <= k
      BY <3>1
    <3>3. k <= k /\ ~(k <= i)
      BY <3>1
    <3> QED BY <1>3, <3>2, <3>3
  <2>2. IsFiniteSet(below(k))
    BY <1>2
  <2> HIDE DEF below
  <2> QED BY <1>3, <2>1, <2>2, FS_Subset
<1>4. h \in Injection(P, T)
  <2>1. h \in [P -> T]
    BY <1>2
  <2>2. \A i, k \in P : h[i] = h[k] => i = k
    BY <1>3
  <2> HIDE DEF h, T
  <2> QED BY <2>1, <2>2 DEF Injection, IsInjective
<1>5. IsFiniteSet(T) /\ Cardinality(T) = Cardinality(P)
  BY <1>1, FS_Interval
<1>6. h \in Surjection(P, T)
  <2> HIDE DEF h, T
  <2> QED BY <1>4, <1>5, FS_Injection
<1>7. \E i \in P : h[i] = n
  <2> HIDE DEF h
  <2> QED BY <1>6 DEF Surjection
<1>8. \E i \in P : Cardinality({j \in P : j <= i}) = n
  BY <1>7
<1> QED BY <1>8 DEF Nth

\* The list of the records at some places has just these.
LEMMA Lists ==
  ASSUME RecordsInv, NEW P \in SUBSET (DOMAIN records)
  PROVE  /\ InOrder(records, P) \in Seq({records[i] : i \in P})
         /\ Len(InOrder(records, P)) = Cardinality(P) /\ Cardinality(P) \in Nat
<1>1. P \subseteq Nat /\ IsFiniteSet(P) /\ Cardinality(P) \in Nat
  BY PlacesAreFinite
<1>2. \A n \in 1..Cardinality(P) : records[Nth(P, n)] \in {records[i] : i \in P}
  BY <1>1, NthIsOne
<1> DEFINE S == {records[i] : i \in P}
<1>3. InOrder(records, P) \in [1..Cardinality(P) -> S]
  BY <1>2 DEF InOrder
<1> HIDE DEF S
<1>4. InOrder(records, P) \in Seq(S) /\ Len(InOrder(records, P)) = Cardinality(P)
  BY <1>1, <1>3
<1> QED BY <1>1, <1>4 DEF S

\* Three lists one behind the other.
LEMMA ThreeLists ==
  ASSUME NEW S, NEW a \in Seq(S), NEW b \in Seq(S), NEW c \in Seq(S)
  PROVE  /\ Len(a \o b \o c) = Len(a) + Len(b) + Len(c)
         /\ SubSeq(a \o b \o c, 1, Len(a)) = a
         /\ \A i \in DOMAIN (a \o b \o c) :
              (a \o b \o c)[i] = IF i <= Len(a) THEN a[i]
                                ELSE IF i <= Len(a) + Len(b) THEN b[i - Len(a)]
                                ELSE c[i - Len(a) - Len(b)]
  OBVIOUS

LEMMA OpenInOrder ==
  ASSUME RecordsInv, TypesInv, NEW f, NEW e
  PROVE  LET t == Totals(records, OfGroup(records, f, e))
             open == OpenFixtures(records, f, e)
         IN /\ Len(open) = t.canon + t.sem + t.div
            /\ SubSeq(open, 1, t.div) = DivergentDetail(records, f, e)
            /\ \A i, j \in DOMAIN open : i < j => open[i].achieved >= open[j].achieved
<1> DEFINE group == OfGroup(records, f, e)
           open == {i \in group : ~records[i].skipped /\ records[i].achieved # ByteEqual}
           at(tier) == {i \in open : records[i].achieved = tier}
           D == at(Divergent)
           M == at(SemanticEqual)
           C == at(CanonicalEqual)
           a == InOrder(records, D)
           b == InOrder(records, M)
           c == InOrder(records, C)
           all == a \o b \o c
           S == {records[i] : i \in DOMAIN records}
<1>1. /\ D = {i \in group : At(records[i], Divergent)}
      /\ M = {i \in group : At(records[i], SemanticEqual)}
      /\ C = {i \in group : At(records[i], CanonicalEqual)}
  BY DEF At, ByteEqual, CanonicalEqual, SemanticEqual, Divergent
<1>2. D \in SUBSET (DOMAIN records) /\ M \in SUBSET (DOMAIN records) /\ C \in SUBSET (DOMAIN records)
  BY DEF OfGroup, OfEngine
<1>3. /\ Totals(records, group).div = Cardinality(D) /\ Totals(records, group).sem = Cardinality(M)
      /\ Totals(records, group).canon = Cardinality(C)
  BY <1>1 DEF Totals
<1>4. OpenFixtures(records, f, e) = all /\ DivergentDetail(records, f, e) = a
  BY <1>1 DEF OpenFixtures, DivergentDetail, DivergentOf
<1>5. /\ a \in Seq({records[i] : i \in D}) /\ b \in Seq({records[i] : i \in M})
      /\ c \in Seq({records[i] : i \in C})
      /\ Len(a) = Cardinality(D) /\ Len(b) = Cardinality(M) /\ Len(c) = Cardinality(C)
  <2> HIDE DEF D, M, C
  <2> QED BY <1>2, Lists
<1>6. /\ \A x \in {records[i] : i \in D} : x \in S /\ x.achieved = 3
      /\ \A x \in {records[i] : i \in M} : x \in S /\ x.achieved = 2
      /\ \A x \in {records[i] : i \in C} : x \in S /\ x.achieved = 1
  BY <1>2 DEF Divergent, SemanticEqual, CanonicalEqual
<1> DEFINE RD == {records[i] : i \in D}
           RM == {records[i] : i \in M}
           RC == {records[i] : i \in C}
<1>7. a \in Seq(RD) /\ b \in Seq(RM) /\ c \in Seq(RC) /\ RD \subseteq S /\ RM \subseteq S /\ RC \subseteq S
  BY <1>5, <1>6
<1>8. /\ \A x \in RD : x.achieved = 3
      /\ \A x \in RM : x.achieved = 2
      /\ \A x \in RC : x.achieved = 1
  BY <1>6
<1> HIDE DEF RD, RM, RC, S, a, b, c, D, M, C
<1>9. a \in Seq(S) /\ b \in Seq(S) /\ c \in Seq(S)
  BY <1>7
<1>10. /\ Len(all) = Len(a) + Len(b) + Len(c) /\ SubSeq(all, 1, Len(a)) = a
       /\ \A i \in DOMAIN all :
            all[i] = IF i <= Len(a) THEN a[i]
                     ELSE IF i <= Len(a) + Len(b) THEN b[i - Len(a)]
                     ELSE c[i - Len(a) - Len(b)]
  BY <1>9, ThreeLists
<1>11. all \in Seq(S) /\ Len(a) \in Nat /\ Len(b) \in Nat /\ Len(c) \in Nat
  BY <1>9
<1>12. ASSUME NEW i \in DOMAIN all
       PROVE  all[i].achieved = IF i <= Len(a) THEN 3 ELSE IF i <= Len(a) + Len(b) THEN 2 ELSE 1
  <2>1. i \in 1..(Len(a) + Len(b) + Len(c))
    BY <1>10, <1>11
  <2>2. CASE i <= Len(a)
    <3>1. a[i] \in RD
      BY <1>7, <1>11, <2>1, <2>2
    <3> QED BY <1>8, <1>10, <2>2, <3>1
  <2>3. CASE ~(i <= Len(a)) /\ i <= Len(a) + Len(b)
    <3>1. b[i - Len(a)] \in RM
      BY <1>7, <1>11, <2>1, <2>3
    <3> QED BY <1>8, <1>10, <2>3, <3>1
  <2>4. CASE ~(i <= Len(a)) /\ ~(i <= Len(a) + Len(b))
    <3>1. c[i - Len(a) - Len(b)] \in RC
      BY <1>7, <1>11, <2>1, <2>4
    <3> QED BY <1>8, <1>10, <2>4, <3>1
  <2> QED BY <2>2, <2>3, <2>4
<1>13. \A i, j \in DOMAIN all : i < j => all[i].achieved >= all[j].achieved
  <2>1. \A i \in DOMAIN all : i \in Int
    BY <1>10, <1>11
  <2> HIDE DEF all
  <2> QED BY <1>11, <1>12, <2>1
<1>14. Len(all) = Cardinality(C) + Cardinality(M) + Cardinality(D)
  BY <1>5, <1>10, <1>11 DEF a, b, c
<1> QED BY <1>3, <1>4, <1>5, <1>10, <1>13, <1>14 DEF a

\* Whatever was recorded: in every row of an engine and of a format the tiers and
\* the skips split the records, and the faithful ones are among those asserted; the
\* rows of the formats sum up to the row of their engine; and all that is short of
\* byte-equal is listed, the worst first, beginning with what the detail shows.
THEOREM TablesAgreeHolds == Spec => []TablesAgree
<1>1. ASSUME IInv, TypesInv, CoverageInv, stage = "done"
      PROVE  TiersSplit /\ RowsSumUp /\ OpenIsListed
  <2>1. report = Report(records)
    BY <1>1 DEF CoverageInv, ReportInv
  <2>2. ASSUME NEW e \in DOMAIN report.engines
        PROVE  report.engines[e] = Totals(records, OfEngine(records, e))
    BY <2>1 DEF Report, EngineTotals
  <2>3. ASSUME NEW g \in DOMAIN report.formats
        PROVE  report.formats[g].totals = Totals(records, OfGroup(records, g[1], g[2]))
    BY <2>1 DEF Report, Aggregate
  <2>4. TiersSplit
    <3>1. \A e : OfEngine(records, e) \in SUBSET (DOMAIN records)
      BY DEF OfEngine
    <3>2. \A f, e : OfGroup(records, f, e) \in SUBSET (DOMAIN records)
      BY DEF OfGroup, OfEngine
    <3> QED BY <1>1, <2>2, <2>3, <3>1, <3>2, TotalsSplit DEF IInv, TiersSplit
  <2>5. RowsSumUp
    <3> SUFFICES ASSUME NEW e \in DOMAIN report.engines,
                        NEW c \in (DOMAIN report.engines[e]) \ {"divFaithful"}
                 PROVE  LET mine == {g \in DOMAIN report.formats : g[2] = e}
                        IN report.engines[e][c]
                             = SumFunction([g \in mine |-> report.formats[g].totals[c]])
      BY DEF RowsSumUp
    <3> DEFINE mine == {g \in DOMAIN report.formats : g[2] = e}
    <3>1. c \in Columns
      BY <2>2, TotalsCount
    <3>2. DOMAIN report.formats = Groups(records)
      BY <2>1 DEF Report
    <3>3. [g \in mine |-> report.formats[g].totals[c]]
            = [g \in mine |-> Totals(records, OfGroup(records, g[1], g[2]))[c]]
      BY <2>3
    <3> QED BY <1>1, <2>2, <3>1, <3>2, <3>3, GroupsPart DEF IInv
  <2>6. OpenIsListed
    <3> SUFFICES ASSUME NEW g \in DOMAIN report.open
                 PROVE  LET t == report.formats[g].totals
                            open == report.open[g]
                        IN /\ Len(open) = t.canon + t.sem + t.div
                           /\ SubSeq(open, 1, t.div) = report.detail[g]
                           /\ \A i, j \in DOMAIN open : i < j => open[i].achieved >= open[j].achieved
      BY DEF OpenIsListed
    <3>1. /\ report.open[g] = OpenFixtures(records, g[1], g[2])
          /\ report.detail[g] = DivergentDetail(records, g[1], g[2])
          /\ g \in DOMAIN report.formats
      BY <2>1 DEF Report
    <3>2. report.formats[g].totals = Totals(records, OfGroup(records, g[1], g[2]))
      BY <2>3, <3>1
    <3> QED BY <1>1, <3>1, <3>2, OpenInOrder DEF IInv
  <2> QED BY <2>4, <2>5, <2>6
<1>2. IInv /\ CoverageInv /\ [Next]_vars => CoverageInv'
  BY UniqueStep, LostStep, ReportStep DEF CoverageInv
<1>3. IInv /\ TypesInv /\ CoverageInv => TablesAgree
  BY <1>1 DEF TablesAgree
<1> QED BY InitInv, NextInv, TypesInit, TypesStep, CoverageInit, <1>2, <1>3, PTL DEF Spec

-----------------------------------------------------------------------------
(* What the native engine makes of the document at hand.                     *)

\* The document of a path is one of the corpus.
CorpusInv == corpus \in Corpora

LEMMA CorpusStays == (Init => CorpusInv) /\ (IInv /\ CorpusInv /\ [Next]_vars => CorpusInv')
<1>1. Init => CorpusInv
  BY DEF Init, CorpusInv
<1>2. IInv /\ CorpusInv /\ [Next]_vars => CorpusInv'
  BY Recording DEF CorpusInv
<1> QED BY <1>1, <1>2

LEMMA FileIsDocument ==
  ASSUME IInv, CorpusInv
  PROVE  IsDocument(Doc(File.path))
<1>1. File.path \in Paths
  BY PathOf DEF IInv, PlaceInv, FixtureAt, File, Scan
<1> QED BY <1>1, DocumentsAssumption DEF CorpusInv, Doc

\* The native engine translates the blocks of a document one by one.
LEMMA NativeBlockOf ==
  ASSUME NEW doc, IsDocument(doc), NEW i \in Blocks(doc)
  PROVE  LET b == doc.parts[i].block
         IN /\ NativeBlocks(doc)[i] = NativeBlock(b, LangAt(doc.parts, i), doc.xliff2)
            /\ IsBlock(b) /\ HasNames(b) /\ (doc.xliff2 => IsXliff2Block(b))
<1> DEFINE part == doc.parts[i]
           new == NativeBlock(part.block, LangAt(doc.parts, i), doc.xliff2)
<1>1. i \in DOMAIN doc.parts /\ part.kind = "block"
  BY DEF Blocks
<1>2. /\ part = [kind |-> part.kind, lang |-> part.lang, region |-> part.region,
                 sourceAsked |-> part.sourceAsked, block |-> part.block]
      /\ IsBlock(part.block) /\ HasNames(part.block) /\ (doc.xliff2 => IsXliff2Block(part.block))
  BY <1>1 DEF IsDocument
<1>3. NativeRead(doc.parts, doc.xliff2)[i] = [part EXCEPT !.block = new]
  <2>1. NativeRead(doc.parts, doc.xliff2)[i] = ReadPart(doc.parts, i, doc.xliff2)
    BY <1>1 DEF NativeRead
  <2>2. ReadPart(doc.parts, i, doc.xliff2) = [part EXCEPT !.block = new]
    BY <1>1 DEF ReadPart
  <2> QED BY <2>1, <2>2
<1>4. [part EXCEPT !.block = new].block = new
  <2> HIDE DEF part, new
  <2> QED BY <1>2
<1>5. NativeBlocks(doc)[i] = NativeRead(doc.parts, doc.xliff2)[i].block
  BY DEF NativeBlocks
<1> QED BY <1>2, <1>3, <1>4, <1>5

\* A target the native engine made is whole, in any document a reader hands
\* over: its segments cover its runs, and what XLIFF 2 keeps inside a segment
\* says what the runs say.
THEOREM TargetsAreWholeHolds == Spec => []TargetsAreWhole
<1>1. IInv /\ CorpusInv => TargetsAreWhole
  <2> SUFFICES ASSUME IInv, CorpusInv PROVE TargetsAreWhole
    OBVIOUS
  <2> DEFINE doc == Doc(File.path)
  <2>1. IsDocument(doc)
    BY FileIsDocument
  <2> HIDE DEF doc
  <2>2. ASSUME NEW i \in Blocks(doc) PROVE WholeTarget(NativeBlocks(doc)[i], doc.xliff2)
    <3> DEFINE b == doc.parts[i].block
               lang == LangAt(doc.parts, i)
               xliff2 == doc.xliff2
    <3>1. /\ NativeBlocks(doc)[i] = NativeBlock(b, lang, xliff2)
          /\ IsBlock(b) /\ HasNames(b) /\ (xliff2 => IsXliff2Block(b))
      BY <2>1, NativeBlockOf
    <3> HIDE DEF b, lang, xliff2
    <3>2. WholeTarget(NativeBlock(b, lang, xliff2), xliff2)
      BY <3>1, NativeIsWhole
    <3> QED BY <3>1, <3>2 DEF xliff2
  <2> QED BY <2>2 DEF TargetsAreWhole, doc
<1> QED BY InitInv, NextInv, CorpusStays, <1>1, PTL DEF Spec

\* What is not to be translated comes through the native engine, in any document
\* whose translations it starts from: ignorables keep their runs, and every
\* segment its inline codes.
THEOREM IgnorablesComeThroughHolds == Spec => []IgnorablesComeThrough
<1>1. IInv /\ CorpusInv => IgnorablesComeThrough
  <2> SUFFICES ASSUME IInv, CorpusInv, Comparable(Doc(File.path))
               PROVE  LET doc == Doc(File.path)
                      IN \A i \in Blocks(doc) :
                           LET before == doc.parts[i].block
                               after == OwnSegs(NativeBlocks(doc)[i])
                           IN \A k \in DOMAIN after : ComesFrom(after[k], OwnSegs(before) \o SourceSegs(before))
    BY DEF IgnorablesComeThrough
  <2> DEFINE doc == Doc(File.path)
  <2>1. IsDocument(doc) /\ Comparable(doc)
    BY FileIsDocument
  <2> HIDE DEF doc
  <2>2. ASSUME NEW i \in Blocks(doc),
               NEW k \in DOMAIN OwnSegs(NativeBlocks(doc)[i])
        PROVE  ComesFrom(OwnSegs(NativeBlocks(doc)[i])[k],
                         OwnSegs(doc.parts[i].block) \o SourceSegs(doc.parts[i].block))
    <3> DEFINE b == doc.parts[i].block
               lang == LangAt(doc.parts, i)
               xliff2 == doc.xliff2
    <3>1. NativeBlocks(doc)[i] = NativeBlock(b, lang, xliff2) /\ IsBlock(b) /\ HasNames(b)
      BY <2>1, NativeBlockOf
    <3>2. (xliff2 \/ SameLanguage(lang)) /\ BaseLocale(b, ~SameLanguage(lang)) \in {Request, NoLocale}
      BY <2>1 DEF Comparable
    <3> DEFINE after == OwnSegs(NativeBlock(b, lang, xliff2))
    <3>3. after \in Seq(SegSet)
      BY <3>1, NativeBlockIsBlock, OwnSegsAreSegs
    <3> HIDE DEF b, lang, xliff2
    <3>4. \A l \in 1..Len(after) : ComesFrom(after[l], OwnSegs(b) \o SourceSegs(b))
      BY <3>1, <3>2, NativeComesThrough
    <3>5. k \in 1..Len(after)
      BY <3>1, <3>3, LenProperties
    <3> QED BY <3>1, <3>4, <3>5 DEF b
  <2> QED BY <2>2 DEF doc
<1> QED BY InitInv, NextInv, CorpusStays, <1>1, PTL DEF Spec

\* Documents whose translatable blocks have sides that agree.
Agreeing(doc) ==
  \A i \in Blocks(doc) :
    doc.parts[i].block.translatable => SidesAgree(doc.parts[i].block, LangAt(doc.parts, i))

\* Segments that render the same are the same by name.
LEMMA AlikeById ==
  ASSUME NEW s, NEW t, DOMAIN s = 1..Len(s), DOMAIN t = 1..Len(t), Alike(s, t)
  PROVE  ById(s) = ById(t)
<1>1. PICK basis : Renders(s, basis) /\ Renders(t, basis)
  BY DEF Alike
<1>2. /\ Len(s) = Len(t)
      /\ \A k \in 1..Len(s) : s[k].id = t[k].id /\ s[k].runs = t[k].runs
  BY <1>1 DEF Renders
<1> QED BY <1>2 DEF ById

\* The segments of a target and those of the step are sequences.
LEMMA AreSequences ==
  ASSUME NEW b, IsBlock(b)
  PROVE  /\ DOMAIN OwnSegs(b) = 1..Len(OwnSegs(b))
         /\ \A xliff2 : DOMAIN HandleTextUnit(b, xliff2) = 1..Len(HandleTextUnit(b, xliff2))
<1>1. OwnSegs(b) \in Seq(SegSet)
  BY OwnSegsAreSegs
<1>2. DOMAIN OwnSegs(b) = 1..Len(OwnSegs(b))
  BY <1>1, LenProperties
<1>3. ASSUME NEW xliff2 PROVE DOMAIN HandleTextUnit(b, xliff2) = 1..Len(HandleTextUnit(b, xliff2))
  <2> DEFINE own == OwnSegs(b)
             target == FilterTarget(b, own, xliff2)
  <2>1. Missing(b, own) \in Seq(SegSet)
    BY MissingAre
  <2>2. target \in Seq(SegSet)
    <3> HIDE DEF own
    <3>1. own \in Seq(SegSet)
      BY <1>1 DEF own
    <3>2. own \o Missing(b, own) \in Seq(SegSet)
      BY <2>1, <3>1, ConcatProperties
    <3> QED BY <3>1, <3>2 DEF FilterTarget
  <2> HIDE DEF target
  <2>3. DOMAIN StepTarget(b, target) = 1..Len(StepTarget(b, target))
    BY <2>2, StepRenders
  <2> QED BY <2>3 DEF HandleTextUnit, target
<1> QED BY <1>2, <1>3

\* In documents whose sides agree both engines give every segment the text the
\* reference gives it: the native engine that of the whole block, with the
\* ignorables that are seeded, the bridge that of what its daemon shows.
THEOREM EnginesAgree == Spec => [](Agreeing(Doc(File.path)) => EnginesTranslateAlike)
<1>1. IInv /\ CorpusInv => (Agreeing(Doc(File.path)) => EnginesTranslateAlike)
  <2> DEFINE doc == Doc(File.path)
  <2> SUFFICES ASSUME IInv, CorpusInv, Agreeing(doc), Comparable(doc), NEW i \in Blocks(doc),
                      doc.parts[i].block.translatable
               PROVE  /\ NativeTargets(doc)[i] = ReferenceTargets(doc)[i]
                      /\ BridgeTargets(doc)[i] = ShownTargets(doc)[i]
    BY DEF EnginesTranslateAlike
  <2>1. IsDocument(doc)
    BY FileIsDocument
  <2> HIDE DEF doc
  <2> DEFINE b == doc.parts[i].block
             lang == LangAt(doc.parts, i)
             xliff2 == doc.xliff2
             s == Shown(b)
             after == BridgeTransform(s, xliff2)
             native == NativeBlock(b, lang, xliff2)
  <2>2. NativeBlocks(doc)[i] = native /\ IsBlock(b) /\ HasNames(b) /\ (xliff2 => IsXliff2Block(b)) /\ b.translatable
    BY <2>1, NativeBlockOf
  <2>3. (xliff2 \/ SameLanguage(lang)) /\ BaseLocale(b, ~SameLanguage(lang)) \in {Request, NoLocale}
    BY DEF Comparable
  <2>4. SidesAgree(b, lang)
    BY DEF Agreeing
  <2>5. /\ NativeTargets(doc)[i] = ById(OwnSegs(native)) /\ ReferenceTargets(doc)[i] = ById(HandleTextUnit(b, xliff2))
        /\ BridgeTargets(doc)[i] = ById(OwnSegs(after)) /\ ShownTargets(doc)[i] = ById(HandleTextUnit(s, xliff2))
    BY <2>2 DEF NativeTargets, ReferenceTargets, BridgeTargets, ShownTargets
  <2> HIDE DEF b, lang, xliff2
  <2>6. Alike(OwnSegs(native), HandleTextUnit(b, xliff2)) /\ Alike(OwnSegs(after), HandleTextUnit(s, xliff2))
    BY <2>2, <2>3, <2>4, NativeIsAlike, BridgeIsAlike
  <2>7. IsBlock(native) /\ IsBlock(s) /\ IsBlock(after)
    BY <2>2, NativeBlockIsBlock, ShownIsBlock, BridgeIsBlock
  <2>8. /\ DOMAIN OwnSegs(native) = 1..Len(OwnSegs(native)) /\ DOMAIN OwnSegs(after) = 1..Len(OwnSegs(after))
        /\ DOMAIN HandleTextUnit(b, xliff2) = 1..Len(HandleTextUnit(b, xliff2))
        /\ DOMAIN HandleTextUnit(s, xliff2) = 1..Len(HandleTextUnit(s, xliff2))
    BY <2>2, <2>7, AreSequences
  <2> HIDE DEF native, after, s
  <2> QED BY <2>5, <2>6, <2>8, AlikeById
<1> QED BY InitInv, NextInv, CorpusStays, <1>1, PTL DEF Spec

=============================================================================
