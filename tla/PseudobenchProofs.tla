-------------------------- MODULE PseudobenchProofs --------------------------
(***************************************************************************)
(* Theorems about Pseudobench, for any sample, any outputs left over, any  *)
(* number of iterations and any way the engines fail.                      *)
(***************************************************************************)
EXTENDS Pseudobench, WellFoundedInduction, TLAPS

Listed(s) == {s[i] : i \in 1..Len(s)}

\* What a stage implies of the engines still to be run and of the iterations.
StageInv ==
  /\ stage = "build" => todo = <<>> /\ daemon = "none" /\ sampler = "off" /\ walls = 0
  /\ stage \in {"iterate", "aggregate"} => todo # <<>>
  /\ stage = "iterate" => walls < turn
  /\ dataset # "old" => stage = "end"

\* Only a daemon that is up is sampled, and its engine is only run while it is.
DaemonInv ==
  /\ sampler = "on" => daemon = "up"
  /\ stage # "end" /\ "kapi-bridge-daemon" \in Listed(todo) => daemon = "up"
  /\ stage = "end" => daemon # "up"

IInv == TypeOK /\ StageInv /\ DaemonInv

----------------------------------------------------------------------------
\* The list of engines

LEMMA TailLists ==
  ASSUME NEW s \in Seq(Engines), s # <<>>
  PROVE  /\ Head(s) \in Engines /\ Tail(s) \in Seq(Engines)
         /\ Listed(s) = {Head(s)} \cup Listed(Tail(s))
<1>1. Head(s) \in Engines /\ Tail(s) \in Seq(Engines) /\ Len(s) \in Nat \ {0}
  OBVIOUS
<1>2. Len(Tail(s)) = Len(s) - 1 /\ \A i \in 1..Len(Tail(s)) : Tail(s)[i] = s[i + 1]
  OBVIOUS
<1>3. Head(s) = s[1]
  OBVIOUS
<1>4. Listed(s) \subseteq {Head(s)} \cup Listed(Tail(s))
  <2> SUFFICES ASSUME NEW i \in 1..Len(s) PROVE s[i] \in {Head(s)} \cup Listed(Tail(s))
    BY DEF Listed
  <2>1. CASE i = 1
    BY <1>3, <2>1
  <2>2. CASE i # 1
    <3>1. i - 1 \in 1..Len(Tail(s)) /\ s[i] = Tail(s)[i - 1]
      BY <1>1, <1>2, <2>2
    <3> QED BY <3>1 DEF Listed
  <2> QED BY <2>1, <2>2
<1>5. {Head(s)} \cup Listed(Tail(s)) \subseteq Listed(s)
  <2>1. Head(s) \in Listed(s)
    BY <1>1, <1>3 DEF Listed
  <2>2. ASSUME NEW i \in 1..Len(Tail(s)) PROVE Tail(s)[i] \in Listed(s)
    <3>1. i + 1 \in 1..Len(s) /\ Tail(s)[i] = s[i + 1]
      BY <1>1, <1>2
    <3> QED BY <3>1 DEF Listed
  <2> QED BY <2>1, <2>2 DEF Listed
<1> QED BY <1>1, <1>4, <1>5

LEMMA BuiltLists ==
  ASSUME NEW up \in BOOLEAN
  PROVE  /\ Built(up) \in Seq(Engines)
         /\ "kapi-bridge-daemon" \in Listed(Built(up)) => up
<1> DEFINE Others == {"kapi-native", "kapi-bridge", "okapi"}
           a == IF setup.kapi THEN <<"kapi-native", "kapi-bridge">> ELSE <<>>
           b == IF up THEN <<"kapi-bridge-daemon">> ELSE <<>>
           c == IF setup.okapi THEN <<"okapi">> ELSE <<>>
<1>1. a \in Seq(Others) /\ a \in Seq(Engines)
  <2>1. CASE setup.kapi
    BY <2>1 DEF Engines, KapiEngines
  <2>2. CASE ~setup.kapi
    BY <2>2
  <2> QED BY <2>1, <2>2
<1>2. b \in Seq(Engines) /\ (~up => b \in Seq(Others))
  <2>1. CASE up
    BY <2>1 DEF Engines, KapiEngines
  <2>2. CASE ~up
    BY <2>2
  <2> QED BY <2>1, <2>2
<1>3. c \in Seq(Others) /\ c \in Seq(Engines)
  <2>1. CASE setup.okapi
    BY <2>1 DEF Engines
  <2>2. CASE ~setup.okapi
    BY <2>2
  <2> QED BY <2>1, <2>2
<1>4. Built(up) = a \o b \o c
  BY DEF Built
<1>5. Built(up) \in Seq(Engines)
  <2> HIDE DEF a, b, c
  <2> QED BY <1>1, <1>2, <1>3, <1>4
<1>6. ASSUME ~up PROVE "kapi-bridge-daemon" \notin Listed(Built(up))
  <2>1. Built(up) \in Seq(Others)
    <3> HIDE DEF a, b, c, Others
    <3> QED BY <1>1, <1>2, <1>3, <1>4, <1>6
  <2>2. \A i \in 1..Len(Built(up)) : Built(up)[i] \in Others
    <3> HIDE DEF Others
    <3> QED BY <2>1
  <2> QED BY <2>2 DEF Listed
<1> QED BY <1>5, <1>6

----------------------------------------------------------------------------
\* The inductive invariant

LEMMA InitInv == Init => IInv
<1> SUFFICES ASSUME Init PROVE IInv
  OBVIOUS
<1>1. TypeOK
  BY IterationsAssumption DEF Init, TypeOK, NoResults, Empty, Contents
<1>2. StageInv /\ DaemonInv
  BY DEF Init, StageInv, DaemonInv, Listed
<1> QED BY <1>1, <1>2 DEF IInv

\* What a step that touches neither engines nor daemon keeps.
LEMMA EnginesFrame ==
  ASSUME IInv, UNCHANGED <<setup, todo, report, daemon, sampler, dataset>>,
         stage \in {"iterate", "aggregate"}, stage' \in {"iterate", "aggregate"},
         stage' = "iterate" => walls' < turn'
  PROVE  StageInv' /\ DaemonInv'
<1>1. StageInv'
  BY DEF IInv, StageInv
<1>2. DaemonInv'
  BY DEF IInv, DaemonInv, Listed
<1> QED BY <1>1, <1>2

LEMMA BuildStep == IInv /\ BuildEngines => IInv'
<1> SUFFICES ASSUME IInv, BuildEngines PROVE IInv'
  OBVIOUS
<1> USE DEF IInv
<1>1. PICK up \in BOOLEAN : todo' = Built(up) /\ daemon' = IF up THEN "up" ELSE "none"
  BY DEF BuildEngines
<1>2. Built(up) \in Seq(Engines) /\ ("kapi-bridge-daemon" \in Listed(Built(up)) => up)
  BY BuiltLists
<1>3. TypeOK'
  BY <1>1, <1>2 DEF BuildEngines, TypeOK
<1>4. StageInv'
  BY DEF BuildEngines, StageInv, TypeOK
<1>5. DaemonInv'
  BY <1>1, <1>2 DEF BuildEngines, DaemonInv, StageInv, Listed
<1> QED BY <1>3, <1>4, <1>5

LEMMA StartStep == IInv /\ StartExperiment => IInv'
<1> SUFFICES ASSUME IInv, StartExperiment PROVE IInv'
  OBVIOUS
<1> USE DEF IInv
<1>1. kept' \in [Fixtures -> Contents]
  BY LeftoversAssumption DEF StartExperiment
<1>2. TypeOK'
  BY <1>1, IterationsAssumption DEF StartExperiment, TypeOK, NoResults
<1>3. StageInv'
  BY DEF StartExperiment, StageInv
<1>4. Engine \in Listed(todo)
  BY TailLists DEF StartExperiment, TypeOK, Engine
<1>5. DaemonInv'
  BY <1>4 DEF StartExperiment, DaemonInv, Listed
<1> QED BY <1>2, <1>3, <1>5

\* The engine at hand leaves the list.
LEMMA LeaveStep ==
  ASSUME IInv, stage # "end", todo # <<>>, stage' = "engine", todo' = Tail(todo),
         UNCHANGED <<setup, daemon, dataset>>, sampler' \in {sampler, "off"}
  PROVE  StageInv' /\ DaemonInv'
<1> USE DEF IInv
<1>1. Tail(todo) \in Seq(Engines) /\ Listed(todo) = {Engine} \cup Listed(Tail(todo))
  BY TailLists DEF StageInv, TypeOK, Engine
<1>2. Listed(todo)' = Listed(Tail(todo))
  BY DEF Listed
<1>3. StageInv'
  BY DEF StageInv
<1>4. DaemonInv'
  BY <1>1, <1>2 DEF DaemonInv
<1> QED BY <1>3, <1>4

LEMMA DropStep == IInv /\ Drop => IInv'
<1> SUFFICES ASSUME IInv, Drop PROVE IInv'
  OBVIOUS
<1>1. Engine \in Engines /\ Tail(todo) \in Seq(Engines)
  BY TailLists DEF IInv, StageInv, TypeOK, Drop, Engine
<1>2. TypeOK'
  BY <1>1 DEF IInv, Drop, TypeOK
<1>3. StageInv' /\ DaemonInv'
  BY LeaveStep DEF Drop, IInv, StageInv
<1> QED BY <1>2, <1>3 DEF IInv

LEMMA AggregateStep == IInv /\ Aggregate => IInv'
<1> SUFFICES ASSUME IInv, Aggregate PROVE IInv'
  OBVIOUS
<1>1. Engine \in Engines /\ Tail(todo) \in Seq(Engines)
  BY TailLists DEF IInv, StageInv, TypeOK, Aggregate, Engine
<1>2. DOMAIN report' = DOMAIN report \cup {Engine}
  BY DEF Aggregate
<1>3. TypeOK'
  BY <1>1, <1>2 DEF IInv, Aggregate, TypeOK
<1>4. StageInv' /\ DaemonInv'
  BY LeaveStep DEF Aggregate, IInv, StageInv
<1> QED BY <1>3, <1>4 DEF IInv

\* The next iteration, or the end of them.
LEMMA TurnStep ==
  ASSUME IInv, stage = "iterate", NextTurn, walls' \in {walls, walls + 1}
  PROVE  /\ turn' \in 1..Iterations /\ walls' \in 0..Iterations
         /\ stage' \in {"iterate", "aggregate"}
         /\ stage' = "iterate" => walls' < turn'
<1>1. turn \in 1..Iterations /\ walls \in 0..Iterations /\ walls < turn
  BY DEF IInv, TypeOK, StageInv
<1> QED BY <1>1, IterationsAssumption DEF NextTurn

LEMMA IterateStep == IInv /\ (IterateKapi \/ IterateOkapi \/ IterateFails) => IInv'
<1>1. ASSUME IInv, stage = "iterate", NEW made \in [Fixtures -> Contents], NEW res, DOMAIN res = Fixtures,
             IterateWith(made, res)
      PROVE  IInv'
  <2>1. /\ turn' \in 1..Iterations /\ walls' \in 0..Iterations
        /\ stage' \in {"iterate", "aggregate"}
        /\ stage' = "iterate" => walls' < turn'
    BY <1>1, TurnStep DEF IterateWith
  <2>2. Over(kept, made) \in [Fixtures -> Contents]
    BY <1>1 DEF Over, IInv, TypeOK
  <2>3. TypeOK'
    BY <1>1, <2>1, <2>2 DEF IterateWith, IInv, TypeOK
  <2>4. StageInv' /\ DaemonInv'
    BY <1>1, <2>1, EnginesFrame DEF IterateWith
  <2> QED BY <2>3, <2>4 DEF IInv
<1>2. ASSUME IInv, IterateKapi PROVE IInv'
  BY <1>1, <1>2 DEF IterateKapi, KapiResults
<1>3. ASSUME IInv, IterateOkapi PROVE IInv'
  BY <1>1, <1>3 DEF IterateOkapi, OkapiResults
<1>4. ASSUME IInv, IterateFails PROVE IInv'
  <2>1. /\ turn' \in 1..Iterations /\ walls' \in 0..Iterations
        /\ stage' \in {"iterate", "aggregate"}
        /\ stage' = "iterate" => walls' < turn'
    BY <1>4, TurnStep DEF IterateFails
  <2>2. TypeOK'
    BY <1>4, <2>1 DEF IterateFails, IInv, TypeOK, NoResults
  <2>3. StageInv' /\ DaemonInv'
    BY <1>4, <2>1, EnginesFrame DEF IterateFails
  <2> QED BY <2>2, <2>3 DEF IInv
<1> QED BY <1>2, <1>3, <1>4

LEMMA NothingStep == IInv /\ NoSuccessfulFiles => IInv'
<1> SUFFICES ASSUME IInv, NoSuccessfulFiles PROVE IInv'
  OBVIOUS
<1> USE DEF IInv, NoSuccessfulFiles
<1>1. TypeOK'
  BY DEF TypeOK
<1>2. StageInv'
  BY DEF StageInv
<1>3. DaemonInv'
  BY DEF DaemonInv, Listed
<1> QED BY <1>1, <1>2, <1>3

LEMMA SampleStep == IInv /\ TakeSample => IInv'
<1> SUFFICES ASSUME IInv, TakeSample PROVE IInv'
  OBVIOUS
<1> USE DEF IInv, TakeSample
<1>1. TypeOK'
  BY IterationsAssumption DEF TypeOK
<1>2. StageInv'
  BY DEF StageInv
<1>3. DaemonInv'
  BY DEF DaemonInv, Listed
<1> QED BY <1>1, <1>2, <1>3

LEMMA EndStep == IInv /\ (WriteReport \/ Fail) => IInv'
<1> SUFFICES ASSUME IInv, WriteReport \/ Fail PROVE IInv'
  OBVIOUS
<1> USE DEF IInv
<1>1. Shutdown /\ stage' = "end" /\ stage # "build" /\ UNCHANGED <<setup, todo, report>>
  BY DEF WriteReport, Fail
<1>2. /\ daemon' \in {"none", "dead"} /\ sampler' = "off"
      /\ (daemon' # "none") = (daemon # "none")
  BY <1>1 DEF Shutdown, DaemonInv, TypeOK
<1>3. TypeOK'
  BY <1>2 DEF WriteReport, Fail, TypeOK
<1>4. StageInv'
  BY DEF WriteReport, Fail, StageInv
<1>5. DaemonInv'
  BY <1>1, <1>2 DEF DaemonInv
<1> QED BY <1>3, <1>4, <1>5

LEMMA StutterStep == IInv /\ (End \/ UNCHANGED vars) => IInv'
<1> SUFFICES ASSUME IInv, UNCHANGED vars PROVE IInv'
  BY DEF End
<1> USE DEF IInv, vars
<1>1. TypeOK'
  BY DEF TypeOK
<1>2. StageInv' /\ DaemonInv'
  BY DEF StageInv, DaemonInv, Listed
<1> QED BY <1>1, <1>2

LEMMA NextInv == IInv /\ [Next]_vars => IInv'
  BY BuildStep, StartStep, DropStep, IterateStep, NothingStep, AggregateStep, SampleStep, EndStep,
     StutterStep
  DEF Next

LEMMA Invariance == Spec => []IInv
  BY InitInv, NextInv, PTL DEF Spec

----------------------------------------------------------------------------
\* The theorems

\* Every variable has its type: no more iterations have a time than there are,
\* and there is a result for every file or for none.
THEOREM TypeCorrect == Spec => []TypeOK
<1>1. IInv => TypeOK
  BY DEF IInv
<1> QED BY Invariance, <1>1, PTL

\* However the run ends (all engines reported, one that did nothing, an engine
\* dropped for want of a directory, a report that cannot be written), the daemon
\* and its sampler are gone.
THEOREM DaemonStops == Spec => []NothingKeepsRunning
<1>1. IInv => NothingKeepsRunning
  BY DEF IInv, TypeOK, DaemonInv, NothingKeepsRunning
<1> QED BY Invariance, <1>1, PTL

\* Where one engine's iterations have produced nothing, the data set that is
\* checked in is never touched any more, whatever the other engines did.
THEOREM EmptyEngineKeepsDatasetHolds == Spec => EmptyEngineKeepsDataset
<1> DEFINE Empty1 == stage = "aggregate" /\ NothingSucceeded
           Doomed == dataset = "old" /\ (Empty1 \/ stage \in {"failed", "end"})
<1>1. IInv /\ Empty1 => Doomed
  BY DEF IInv, StageInv
<1>2. ASSUME Doomed, [Next]_vars PROVE Doomed'
  <2>1. CASE Empty1
    <3>1. CASE NoSuccessfulFiles
      BY <1>2, <3>1 DEF NoSuccessfulFiles
    <3>2. CASE TakeSample \/ UNCHANGED vars
      BY <1>2, <2>1, <3>2 DEF TakeSample, vars, NothingSucceeded, Experiment, Counted
    <3> QED BY <1>2, <2>1, <3>1, <3>2
        DEF Next, BuildEngines, StartExperiment, Drop, IterateKapi, IterateOkapi, IterateFails,
            Aggregate, WriteReport, Fail, End
  <2>2. CASE stage \in {"failed", "end"}
    <3>1. dataset' = dataset /\ stage' \in {"failed", "end"}
      BY <1>2, <2>2
      DEF Next, BuildEngines, StartExperiment, Drop, IterateKapi, IterateOkapi, IterateFails,
          NoSuccessfulFiles, Aggregate, TakeSample, WriteReport, Fail, End, vars
    <3> QED BY <1>2, <3>1
  <2> QED BY <1>2, <2>1, <2>2
<1>3. Doomed => dataset = "old"
  OBVIOUS
<1> HIDE DEF Doomed
<1> QED BY Invariance, <1>1, <1>2, <1>3, PTL DEF Spec, EmptyEngineKeepsDataset

----------------------------------------------------------------------------
\* What counts as done

\* Every set of natural numbers that has one has a least one.
LEMMA Least ==
  ASSUME NEW S, S \subseteq Nat, S # {}
  PROVE  Min(S) \in S
<1>1. PICK x \in S : \A y \in S : ~(<<y, x>> \in OpToRel(<, Nat))
  BY NatLessThanWellFounded, WFMin
<1>2. \A y \in S : ~(y < x)
  BY <1>1 DEF OpToRel
<1>3. \A y \in S : x <= y
  BY <1>2
<1> QED BY <1>3 DEF Min

\* What is found for a file is an output that looks like its own, and its own
\* output does; with a name that nothing resembles, it is its own or none.
LEMMA Found ==
  ASSUME NEW f \in Fixtures, NEW dir \in [Fixtures -> Contents]
  PROVE  /\ dir[f] # "none" => FindOutputFor(f, dir) # "none"
         /\ Lookalikes[f] = <<f>> => FindOutputFor(f, dir) = dir[f]
         /\ FindOutputFor(f, dir) \in Contents
<1> DEFINE hits == {i \in DOMAIN Lookalikes[f] : dir[Lookalikes[f][i]] # "none"}
<1>1. hits \subseteq Nat
  BY LookalikesAssumption
<1>2. hits # {} => Min(hits) \in hits
  <2> HIDE DEF hits
  <2> QED BY <1>1, Least
<1>3. dir[f] # "none" => hits # {}
  BY LookalikesAssumption
<1>4. FindOutputFor(f, dir) = IF hits = {} THEN "none" ELSE dir[Lookalikes[f][Min(hits)]]
  BY DEF FindOutputFor
<1>5. hits # {} => /\ Min(hits) \in DOMAIN Lookalikes[f]
                   /\ dir[Lookalikes[f][Min(hits)]] # "none"
                   /\ dir[Lookalikes[f][Min(hits)]] \in Contents
  <2>1. hits # {} => /\ Min(hits) \in DOMAIN Lookalikes[f]
                     /\ dir[Lookalikes[f][Min(hits)]] # "none"
    BY <1>2
  <2> QED BY <2>1, LookalikesAssumption
<1>6. ASSUME Lookalikes[f] = <<f>> PROVE FindOutputFor(f, dir) = dir[f]
  <2>1. DOMAIN Lookalikes[f] = {1} /\ Lookalikes[f][1] = f
    BY <1>6
  <2>2. CASE dir[f] = "none"
    <3>1. hits = {}
      BY <2>1, <2>2
    <3> QED BY <1>4, <2>2, <3>1
  <2>3. CASE dir[f] # "none"
    <3>1. hits # {} /\ Min(hits) = 1
      BY <1>3, <1>5, <2>1, <2>3
    <3> QED BY <1>4, <2>1, <3>1
  <2> QED BY <2>2, <2>3
<1>7. FindOutputFor(f, dir) \in Contents
  BY <1>4, <1>5 DEF Contents
<1> QED BY <1>3, <1>4, <1>5, <1>6, <1>7

\* The results of a kapi engine are those of its last iteration; all but the last
\* one started from an empty directory.
EarnedInv ==
  stage \in {"iterate", "aggregate"} /\ walls > 0 /\ Engine \in KapiEngines =>
    \E dir, made \in [Fixtures -> Contents], exit \in {0, 1} :
      /\ results = KapiResults(Over(dir, made), exit)
      /\ wrote = {f \in Fixtures : made[f] # "none"}
      /\ stage = "iterate" => dir = Empty

LEMMA EarnedStep == IInv /\ EarnedInv /\ [Next]_vars => EarnedInv'
<1> SUFFICES ASSUME IInv, EarnedInv, [Next]_vars PROVE EarnedInv'
  OBVIOUS
<1>1. CASE IterateKapi
  <2>1. PICK made \in [Fixtures -> Contents], exit \in {0, 1} :
          IterateWith(made, KapiResults(Over(Directory, made), exit))
    BY <1>1 DEF IterateKapi
  <2>2. Directory \in [Fixtures -> Contents]
    BY DEF Directory, IInv, TypeOK, Empty, Contents
  <2>3. stage' = "iterate" => Directory = Empty
    BY <1>1, <2>1, IterationsAssumption DEF IterateKapi, IterateWith, NextTurn, Directory, IInv, TypeOK
  <2>4. /\ results' = KapiResults(Over(Directory, made), exit)
        /\ wrote' = {f \in Fixtures : made[f] # "none"}
    BY <2>1 DEF IterateWith
  <2>5. \E dir, m \in [Fixtures -> Contents], x \in {0, 1} :
          /\ results' = KapiResults(Over(dir, m), x)
          /\ wrote' = {f \in Fixtures : m[f] # "none"}
          /\ stage' = "iterate" => dir = Empty
    BY <2>2, <2>3, <2>4
  <2> QED BY <2>5 DEF EarnedInv
<1>2. CASE IterateOkapi \/ IterateFails
  <2>1. Engine' = Engine /\ Engine = "okapi"
    BY <1>2 DEF IterateOkapi, IterateFails, IterateWith, Engine
  <2> QED BY <2>1 DEF EarnedInv, KapiEngines
<1>3. CASE StartExperiment
  <2>1. walls' = 0
    BY <1>3 DEF StartExperiment
  <2> QED BY <2>1 DEF EarnedInv
<1>4. CASE \/ BuildEngines \/ Drop \/ NoSuccessfulFiles \/ Aggregate \/ WriteReport \/ Fail
  <2>1. stage' \notin {"iterate", "aggregate"}
    BY <1>4 DEF BuildEngines, Drop, NoSuccessfulFiles, Aggregate, WriteReport, Fail
  <2> QED BY <2>1 DEF EarnedInv
<1>5. CASE TakeSample \/ End \/ UNCHANGED vars
  <2>1. UNCHANGED <<stage, walls, todo, results, wrote>>
    BY <1>5 DEF TakeSample, End, vars
  <2> QED BY <2>1 DEF EarnedInv, Engine
<1> QED BY <1>1, <1>2, <1>3, <1>4, <1>5 DEF Next

\* Whatever a kapi process exits with and whatever lay in its directory: what its
\* last iteration wrote counts as done; and in a directory of its own, under a name
\* nothing resembles, nothing else does, and only what was translated is verified.
THEOREM SuccessEarned == Spec => []SuccessIsEarned
<1>1. ASSUME IInv, EarnedInv, stage \in {"iterate", "aggregate"}, walls > 0,
             Engine \in KapiEngines, NEW f \in Fixtures
      PROVE  /\ f \in wrote => results[f].success
             /\ stage = "iterate" /\ Lookalikes[f] = <<f>> =>
                  /\ results[f].success => f \in wrote
                  /\ results[f].verified /\ f \in Letters => results[f].pseudo
  <2>1. PICK dir, made \in [Fixtures -> Contents], exit \in {0, 1} :
          /\ results = KapiResults(Over(dir, made), exit)
          /\ wrote = {g \in Fixtures : made[g] # "none"}
          /\ stage = "iterate" => dir = Empty
    BY <1>1 DEF EarnedInv
  <2> DEFINE all == Over(dir, made)
             out == FindOutputFor(f, all)
  <2>2. all \in [Fixtures -> Contents] /\ all[f] = IF made[f] = "none" THEN dir[f] ELSE made[f]
    BY DEF Over
  <2>3. /\ all[f] # "none" => out # "none"
        /\ Lookalikes[f] = <<f>> => out = all[f]
    BY <2>2, Found
  <2>4. results[f] = Verify(f, out # "none", out)
    BY <2>1 DEF KapiResults
  <2>5. /\ results[f].success = (out # "none")
        /\ results[f].verified => f \notin Letters \/ results[f].pseudo
    BY <2>4 DEF Verify
  <2>6. f \in wrote <=> made[f] # "none"
    BY <2>1
  <2>7. stage = "iterate" => dir[f] = "none"
    BY <2>1 DEF Empty
  <2> QED BY <2>2, <2>3, <2>5, <2>6, <2>7
<1>2. IInv /\ EarnedInv => SuccessIsEarned
  BY <1>1 DEF SuccessIsEarned
<1>3. Init => EarnedInv
  BY DEF Init, EarnedInv
<1> QED BY InitInv, NextInv, EarnedStep, <1>2, <1>3, PTL DEF Spec

=============================================================================
