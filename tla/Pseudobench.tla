---------------------------- MODULE Pseudobench ----------------------------
(***************************************************************************)
(* The benchmark of the engines on the parity corpus (pseudobench/): the   *)
(* daemon and its RSS sampler, an experiment per engine with iterations    *)
(* over the whole corpus, the check of what every engine wrote, and the    *)
(* data set that is checked in.                                            *)
(*                                                                         *)
(* A file has a name, letters or none, and the group of filter and         *)
(* configuration it is run with, if the parity corpus knows one. An output *)
(* is recognised by its name only: Lookalikes gives, for a name, the files *)
(* whose output is taken for its own, in the order of the walk. The        *)
(* directory of the last iteration is preserved, and found again.          *)
(***************************************************************************)
EXTENDS Naturals, Sequences, FiniteSets, FiniteSetsExt

CONSTANTS
  Fixtures,    \* the names of the sample
  Letters,     \* those with letters to translate
  Group,       \* name to group of filter and configuration, or NoGroup
  Lookalikes,  \* name to sequence of names
  Iterations,
  Setups,      \* a set of [kapi, jar, okapi: BOOLEAN]: what was given on the
               \* command line
  Leftovers,   \* a set of contents of an engine's output directory when it starts
  MaxSamples   \* bound: samples of the RSS kept

NoGroup == "-"
KapiEngines == {"kapi-native", "kapi-bridge", "kapi-bridge-daemon"}
Engines == KapiEngines \cup {"okapi"}
Contents == {"none", "plain", "pseudo"}

ASSUME IterationsAssumption == Iterations \in Nat \ {0} /\ MaxSamples \in Nat
ASSUME LeftoversAssumption == Leftovers \subseteq [Fixtures -> Contents]
\* A file's own output always looks like it.
ASSUME LookalikesAssumption ==
  \A f \in Fixtures :
    /\ DOMAIN Lookalikes[f] = 1..Len(Lookalikes[f]) /\ Len(Lookalikes[f]) \in Nat
    /\ \A i \in DOMAIN Lookalikes[f] : Lookalikes[f][i] \in Fixtures
    /\ \E i \in DOMAIN Lookalikes[f] : Lookalikes[f][i] = f

VARIABLES
  setup,
  stage,      \* "build", "engine", "iterate", "aggregate", "failed", "end"
  todo,       \* engines still to be run
  turn,       \* the iteration
  walls,      \* iterations that have a time
  results,    \* FileResults of the last iteration that ended
  kept,       \* the preserved output directory of the engine at hand
  wrote,      \* for the properties: whose output the last iteration wrote
  report,     \* engine to experiment
  daemon,     \* "none", "up" or "dead"
  sampler,    \* the sampling goroutine: "off" or "on"
  samples,    \* how many samples there are
  dataset     \* what is checked in: "old", "new", or "broken" by a write that failed

vars == <<setup, stage, todo, turn, walls, results, kept, wrote, report,
          daemon, sampler, samples, dataset>>

Engine == Head(todo)
NoResults == [f \in {} |-> FALSE]
Empty == [f \in Fixtures |-> "none"]

Init ==
  /\ setup \in Setups
  /\ stage = "build" /\ todo = <<>> /\ turn = 1 /\ walls = 0
  /\ results = NoResults
  /\ kept = Empty
  /\ wrote = {} /\ report = [e \in {} |-> NoResults]
  /\ daemon = "none" /\ sampler = "off" /\ samples = 0
  /\ dataset = "old"

----------------------------------------------------------------------------
\* The check of the outputs

\* The first output whose name fits.
FindOutputFor(f, dir) ==
  LET hits == {i \in DOMAIN Lookalikes[f] : dir[Lookalikes[f][i]] # "none"}
  IN IF hits = {} THEN "none" ELSE dir[Lookalikes[f][Min(hits)]]

\* Verified: there are pseudo characters, or there was nothing to translate. The
\* note says why not, or that there was nothing.
Verify(f, success, output) ==
  LET looked == success /\ output # "none"
  IN [success |-> success,
      verified |-> looked /\ (f \notin Letters \/ output = "pseudo"),
      pseudo |-> looked /\ output = "pseudo",
      note |-> looked /\ (f \notin Letters \/ output = "plain")]

\* The outputs of one pass laid over what the directory had.
Over(dir, made) == [f \in Fixtures |-> IF made[f] = "none" THEN dir[f] ELSE made[f]]

\* Mutant: the exit code is obeyed.
KapiResultsMutant(dir, exit) ==
  [f \in Fixtures |-> Verify(f, exit = 0 /\ FindOutputFor(f, dir) # "none", FindOutputFor(f, dir))]

\* A process that failed, or that never ran, is judged by the outputs alone.
KapiResults(dir, exit) ==
  [f \in Fixtures |-> Verify(f, FindOutputFor(f, dir) # "none", FindOutputFor(f, dir))]

Groups == {Group[f] : f \in Fixtures} \ {NoGroup}

\* The reference is judged by the exit of the process of its group.
OkapiResults(dir, bad) ==
  [f \in Fixtures |-> Verify(f, Group[f] \notin bad \cup {NoGroup}, FindOutputFor(f, dir))]

----------------------------------------------------------------------------
\* buildEngines

\* The engines of a setup, the daemon's only if it came up.
Built(up) ==
  (IF setup.kapi THEN <<"kapi-native", "kapi-bridge">> ELSE <<>>)
  \o (IF up THEN <<"kapi-bridge-daemon">> ELSE <<>>)
  \o (IF setup.okapi THEN <<"okapi">> ELSE <<>>)

BuildEngines ==
  /\ stage = "build"
  /\ \E up \in IF setup.kapi /\ setup.jar THEN BOOLEAN ELSE {FALSE} :
       /\ todo' = Built(up)
       /\ daemon' = IF up THEN "up" ELSE "none"
  /\ stage' = IF todo' = <<>> THEN "failed" ELSE "engine"
  /\ UNCHANGED <<setup, turn, walls, results, kept, wrote, report, sampler, samples, dataset>>

----------------------------------------------------------------------------
\* runExperiment

\* Warm-up runs leave nothing behind; a daemon is sampled from here on.
StartExperiment ==
  /\ stage = "engine" /\ todo # <<>>
  /\ stage' = "iterate" /\ turn' = 1 /\ walls' = 0 /\ results' = NoResults /\ wrote' = {}
  /\ IF Engine = "kapi-bridge-daemon" /\ sampler = "off"
     THEN sampler' = "on" /\ samples' = 0
     ELSE UNCHANGED <<sampler, samples>>
  /\ kept' \in Leftovers
  /\ UNCHANGED <<setup, todo, report, daemon, dataset>>

\* A temporary directory cannot be made, for a warm-up or for an iteration: the
\* engine is left out of the report, and whatever was running for it keeps running.
Drop ==
  /\ \/ stage = "engine" /\ todo # <<>>
     \/ stage = "iterate" /\ turn < Iterations
  /\ todo' = Tail(todo) /\ stage' = "engine"
  /\ UNCHANGED <<setup, turn, walls, results, kept, wrote, report, daemon, sampler, samples, dataset>>

NextTurn == IF turn < Iterations THEN turn' = turn + 1 /\ stage' = stage ELSE stage' = "aggregate" /\ turn' = turn

\* All but the last iteration write to a directory of their own.
Directory == IF turn = Iterations THEN kept ELSE Empty

IterateWith(made, res) ==
  /\ results' = res
  /\ wrote' = {f \in Fixtures : made[f] # "none"}
  /\ walls' = walls + 1
  /\ kept' = IF turn = Iterations THEN Over(kept, made) ELSE kept
  /\ NextTurn
  /\ UNCHANGED <<setup, todo, report, daemon, sampler, samples, dataset>>

IterateKapi ==
  /\ stage = "iterate" /\ Engine \in KapiEngines
  /\ \E made \in [Fixtures -> Contents], exit \in {0, 1} :
       IterateWith(made, KapiResults(Over(Directory, made), exit))

IterateOkapi ==
  /\ stage = "iterate" /\ Engine = "okapi"
  /\ \E made \in [Fixtures -> Contents], bad \in SUBSET Groups :
       /\ \A f \in Fixtures : Group[f] = NoGroup => made[f] = "none"
       /\ IterateWith(made, OkapiResults(Over(Directory, made), bad))

\* A directory of the reference cannot be made: no results, no time.
IterateFails ==
  /\ stage = "iterate" /\ Engine = "okapi" /\ Groups # {}
  /\ results' = NoResults /\ wrote' = {}
  /\ NextTurn
  /\ UNCHANGED <<setup, todo, walls, kept, report, daemon, sampler, samples, dataset>>

Counted(P(_)) == Cardinality({f \in DOMAIN results : P(results[f])})

Experiment ==
  [iterations |-> walls,
   attempted |-> Cardinality(DOMAIN results),
   succeeded |-> Counted(LAMBDA r : r.success),
   verified |-> Counted(LAMBDA r : r.verified),
   unverified |-> Counted(LAMBDA r : ~r.verified /\ r.success /\ ~r.pseudo /\ r.note)]

NothingSucceeded == walls = 0 \/ Experiment.succeeded = 0

\* Mutant: an engine that did nothing is left out, and the others are reported.
NoSuccessfulFilesMutant ==
  /\ stage = "aggregate" /\ NothingSucceeded
  /\ todo' = Tail(todo) /\ stage' = "engine"
  /\ UNCHANGED <<setup, turn, walls, results, kept, wrote, report, daemon, sampler, samples, dataset>>

\* One engine that did nothing fails the run.
NoSuccessfulFiles ==
  /\ stage = "aggregate" /\ NothingSucceeded
  /\ stage' = "failed"
  /\ UNCHANGED <<setup, todo, turn, walls, results, kept, wrote, report, daemon, sampler, samples, dataset>>

\* The sampler is stopped here; the passes for the trace change nothing.
Aggregate ==
  /\ stage = "aggregate" /\ ~NothingSucceeded
  /\ report' = [e \in DOMAIN report \cup {Engine} |-> IF e = Engine THEN Experiment ELSE report[e]]
  /\ sampler' = IF Engine = "kapi-bridge-daemon" THEN "off" ELSE sampler
  /\ todo' = Tail(todo) /\ stage' = "engine"
  /\ UNCHANGED <<setup, turn, walls, results, kept, wrote, daemon, samples, dataset>>

\* The goroutine, on its own clock.
TakeSample ==
  /\ sampler = "on" /\ samples < MaxSamples
  /\ samples' = samples + 1
  /\ UNCHANGED <<setup, stage, todo, turn, walls, results, kept, wrote, report, daemon, sampler, dataset>>

----------------------------------------------------------------------------
\* The end

\* Mutant: the daemon is killed while its sampler goes on.
ShutdownMutant == daemon' = (IF daemon = "up" THEN "dead" ELSE daemon) /\ UNCHANGED sampler

Shutdown == IF daemon = "up" THEN daemon' = "dead" /\ sampler' = "off" ELSE UNCHANGED <<daemon, sampler>>

\* All engines done: the daemon goes and the report is written. If its directory
\* cannot be made the old one stays; a write that fails has truncated it.
WriteReport ==
  /\ stage = "engine" /\ todo = <<>>
  /\ Shutdown
  /\ dataset' \in {"old", "new", "broken"} /\ stage' = "end"
  /\ UNCHANGED <<setup, todo, turn, walls, results, kept, wrote, report, samples>>

Fail ==
  /\ stage = "failed"
  /\ Shutdown
  /\ stage' = "end"
  /\ UNCHANGED <<setup, todo, turn, walls, results, kept, wrote, report, samples, dataset>>

End == stage = "end" /\ UNCHANGED vars

Next ==
  \/ BuildEngines \/ StartExperiment \/ Drop \/ IterateKapi \/ IterateOkapi \/ IterateFails
  \/ NoSuccessfulFiles \/ Aggregate \/ TakeSample \/ WriteReport \/ Fail \/ End

Spec == Init /\ [][Next]_vars

----------------------------------------------------------------------------
\* What must hold

\* No more iterations have a time than there are, and there is a result for
\* every file or for none.
TypeOK ==
  /\ setup \in Setups
  /\ stage \in {"build", "engine", "iterate", "aggregate", "failed", "end"}
  /\ todo \in Seq(Engines)
  /\ turn \in 1..Iterations /\ walls \in 0..Iterations
  /\ DOMAIN results \in {{}, Fixtures} /\ wrote \subseteq Fixtures
  /\ kept \in [Fixtures -> Contents]
  /\ DOMAIN report \subseteq Engines
  /\ daemon \in {"none", "up", "dead"} /\ sampler \in {"off", "on"} /\ samples \in 0..MaxSamples
  /\ dataset \in {"old", "new", "broken"}

\* One engine whose iterations produced nothing leaves the data set alone, however
\* well the engines before and after it do. This does not make the data set
\* complete: an engine that was dropped is missing from it.
EmptyEngineKeepsDataset ==
  [](stage = "aggregate" /\ NothingSucceeded => [](dataset = "old"))

\* Neither the exit code nor another bad file decides about a file of a kapi
\* engine. What the iteration wrote counts as done; and with a name that cannot
\* be confused and a directory of its own, nothing else does, and only what was
\* translated counts as verified.
SuccessIsEarned ==
  stage \in {"iterate", "aggregate"} /\ walls > 0 /\ Engine \in KapiEngines =>
    \A f \in Fixtures :
      /\ f \in wrote => results[f].success
      /\ stage = "iterate" /\ Lookalikes[f] = <<f>> =>
           /\ results[f].success => f \in wrote
           /\ results[f].verified /\ f \in Letters => results[f].pseudo

\* The run leaves no daemon and no sampler, however it ends.
NothingKeepsRunning == stage = "end" => daemon # "up" /\ sampler = "off"

=============================================================================
