---------------------------- MODULE BridgeServer ----------------------------
(***************************************************************************)
(* The server around the streams: the permits of pipelineSemaphore, the    *)
(* filter pool and its queue, the activeStreams counter, the idle timer,   *)
(* the Shutdown RPC and the main thread. The body of runPipeline is one    *)
(* state here ("running"); module ProcessPipeline has its inside.          *)
(***************************************************************************)
EXTENDS Integers, Sequences, FiniteSets

CONSTANTS
  Calls,        (* Process calls                                           *)
  Steps,        (* ProcessStep calls                                       *)
  Concurrency,  (* --concurrency: permits, and threads of the filter pool  *)
  Lanes,        (* calls the client keeps in flight                        *)
  IdleTimeout,  (* TRUE when --idle-timeout is positive                    *)
  UnixSocket,   (* TRUE when a socket path is set, as always in daemon mode*)
  Faults        (* environment events that may happen, see FaultKinds      *)

FaultKinds == {"cancel", "noHeader", "bodyDies", "shutdown"}

ASSUME SizesAssumption ==
  /\ IsFiniteSet(Calls) /\ IsFiniteSet(Steps) /\ Calls \cap Steps = {}
  /\ Concurrency \in Nat \ {0} /\ Lanes \in Nat
ASSUME ShapeAssumption == {IdleTimeout, UnixSocket} \subseteq BOOLEAN /\ Faults \subseteq FaultKinds

VARIABLES
  call,      (* how far each Process call has come, see CallStates         *)
  gone,      (* Process calls the client has cancelled                     *)
  step,      (* how far each ProcessStep call has come                     *)
  permits,   (* pipelineSemaphore                                          *)
  active,    (* activeStreams                                              *)
  jobs,      (* tasks waiting in the filter pool's queue                   *)
  stale,     (* lastActivityNanos lies at least the idle timeout back      *)
  timer,     (* the idle timer: "wait", "idle" once it has read that no    *)
             (* stream is active, "expired" once it has decided to stop    *)
  latch,     (* what counted shutdownLatch down: "up", "idle", "rpc"     *)
  pools,     (* both pools accept tasks                                    *)
  main       (* "serving", "stopping" (server.shutdown called), "returned" *)
             (* while the JVM stays up, "down" once it has exited          *)

vars == <<call, gone, step, permits, active, jobs, stale, timer, latch, pools,
          main>>

(***************************************************************************)
(* A Process call is acquired (holds a permit), counted (in activeStreams) *)
(* and accepted (activity noted); its header queues the pipeline, which    *)
(* runs, releases its permit, answers, leaves the count and notes the      *)
(* activity. A call is rejected without a permit, refused by a server that *)
(* shuts down, and dead when its handler or its task threw past            *)
(* sendComplete.                                                           *)
(***************************************************************************)
CallStates == {"none", "acquired", "counted", "accepted", "queued", "running",
               "release", "complete", "answered", "uncounted", "ended",
               "rejected", "refused", "dead"}
StepStates == {"none", "open", "failed", "over", "twice"}

Holders == {c \in Calls : call[c] \in {"acquired", "counted", "accepted",
                                       "queued", "running", "release", "dead"}}
Busy == {c \in Calls : call[c] \in {"running", "release", "complete",
                                    "answered", "uncounted"}}
Counted == {c \in Calls : call[c] \in {"counted", "accepted", "queued",
                 "running", "release", "complete", "answered", "dead"}}
OpenSteps == {t \in Steps : step[t] = "open"}
LeftTwice == {t \in Steps : step[t] = "twice"}

\* Calls the client still waits for: a lane is free again as soon as its call
\* is answered, rejected, refused or cancelled.
InFlight == {c \in Calls \ gone : call[c] \notin {"none", "answered",
               "uncounted", "ended", "rejected", "refused"}}

\* Permits stay natural, and every call is in a known state.
TypeOK ==
  /\ call \in [Calls -> CallStates] /\ gone \subseteq Calls
  /\ step \in [Steps -> StepStates]
  /\ permits \in Nat /\ active \in Int
  /\ jobs \in Seq(Calls)
  /\ stale \in BOOLEAN /\ timer \in {"wait", "idle", "expired"}
  /\ latch \in {"up", "idle", "rpc"} /\ pools \in BOOLEAN
  /\ main \in {"serving", "stopping", "returned", "down"}

Init ==
  /\ call = [c \in Calls |-> "none"] /\ gone = {}
  /\ step = [t \in Steps |-> "none"]
  /\ permits = Concurrency /\ active = 0
  /\ jobs = <<>>
  /\ stale = FALSE /\ timer = "wait"
  /\ latch = "up" /\ pools = TRUE /\ main = "serving"

Moves(c, from, to) == call[c] = from /\ call' = [call EXCEPT ![c] = to]

(***************************************************************************)
(* An operator XMutant is a bug that X could have had, for the runs that   *)
(* show that the properties notice it; no specification uses one.          *)
(***************************************************************************)

serverVars == <<timer, latch, pools, main>>

-----------------------------------------------------------------------------
(* One Process call, from the handler to the end of its pipeline.            *)

\* tryAcquire fails.
NoPermit == permits = 0

\* process: tryAcquire, or RESOURCE_EXHAUSTED.
Process(c) ==
  /\ call[c] = "none" /\ Cardinality(InFlight) < Lanes
  /\ main # "down"
  /\ IF main # "serving"
       THEN Moves(c, "none", "refused") /\ UNCHANGED permits
       ELSE IF NoPermit
         THEN Moves(c, "none", "rejected") /\ UNCHANGED permits
         ELSE Moves(c, "none", "acquired") /\ permits' = permits - 1
  /\ UNCHANGED <<gone, step, active, jobs, stale, serverVars>>

\* streamStarted, first half: activeStreams.incrementAndGet.
CountStream(c) ==
  /\ Moves(c, "acquired", "counted")
  /\ active' = active + 1
  /\ UNCHANGED <<gone, step, permits, jobs, stale, serverVars>>

\* streamStarted, second half: lastActivityNanos.set.
NoteStart(c) ==
  /\ Moves(c, "counted", "accepted")
  /\ stale' = FALSE
  /\ UNCHANGED <<gone, step, permits, active, jobs, serverVars>>

\* filterPool.submit takes the task; its queue is unbounded.
PoolAccepts == pools

\* onNext(HEADER): filterPool.submit; a pool that was shut down throws, and the
\* call ends without sendComplete.
OnHeader(c) ==
  /\ c \notin gone
  /\ IF PoolAccepts
       THEN Moves(c, "accepted", "queued") /\ jobs' = Append(jobs, c)
       ELSE Moves(c, "accepted", "dead") /\ UNCHANGED jobs
  /\ UNCHANGED <<gone, step, permits, active, stale, serverVars>>

\* The mutant waits for a permit again, which the handler has already taken.
StartPipelineMutant ==
  /\ jobs # <<>> /\ Cardinality(Busy) < Concurrency /\ permits > 0
  /\ Moves(Head(jobs), "queued", "running")
  /\ jobs' = Tail(jobs)
  /\ UNCHANGED <<gone, step, permits, active, stale, serverVars>>

\* A filter-pool thread takes the next task.
StartPipeline ==
  /\ jobs # <<>> /\ Cardinality(Busy) < Concurrency
  /\ Moves(Head(jobs), "queued", "running")
  /\ jobs' = Tail(jobs)
  /\ UNCHANGED <<gone, step, permits, active, stale, serverVars>>

\* The body of runPipeline ends, in success or in its catch block; what is no
\* Exception leaves the task without sendComplete.
BodyEnds(c) ==
  /\ \/ Moves(c, "running", "release")
     \/ "bodyDies" \in Faults /\ Moves(c, "running", "dead")
  /\ UNCHANGED <<gone, step, permits, active, jobs, stale, serverVars>>

ReleasePermitMutant(c) ==
  /\ Moves(c, "release", "complete")
  /\ UNCHANGED <<gone, step, permits, active, jobs, stale, serverVars>>
\* sendCompleteMessage: the permit first, then the network, then streamEnded.
ReleasePermit(c) ==
  /\ Moves(c, "release", "complete")
  /\ permits' = permits + 1
  /\ UNCHANGED <<gone, step, active, jobs, stale, serverVars>>

SendComplete(c) ==
  /\ Moves(c, "complete", "answered")
  /\ UNCHANGED <<gone, step, permits, active, jobs, stale, serverVars>>

UncountStream(c) ==
  /\ Moves(c, "answered", "uncounted")
  /\ active' = active - 1
  /\ UNCHANGED <<gone, step, permits, jobs, stale, serverVars>>

NoteEnd(c) ==
  /\ Moves(c, "uncounted", "ended")
  /\ stale' = FALSE
  /\ UNCHANGED <<gone, step, permits, active, jobs, serverVars>>

\* The client cancels. onError touches only the translation queue: neither the
\* permit nor the count. Without "noHeader" a client cancels only a call whose
\* header it has sent.
Cancel(c) ==
  /\ "cancel" \in Faults /\ c \notin gone
  /\ call[c] \in {"queued", "running", "release", "complete"}
       \cup (IF "noHeader" \in Faults THEN {"accepted"} ELSE {})
  /\ gone' = gone \cup {c}
  /\ UNCHANGED <<call, step, permits, active, jobs, stale, serverVars>>

Pipeline(c) ==
  \/ CountStream(c) \/ NoteStart(c) \/ BodyEnds(c) \/ ReleasePermit(c)
  \/ SendComplete(c) \/ UncountStream(c) \/ NoteEnd(c)

-----------------------------------------------------------------------------
(* ProcessStep calls, as far as the counter sees them.                       *)

OpenStep(t) ==
  /\ step[t] = "none" /\ main = "serving"
  /\ step' = [step EXCEPT ![t] = "open"]
  /\ active' = active + 1 /\ stale' = FALSE
  /\ UNCHANGED <<call, gone, permits, jobs, serverVars>>

\* sendStepError after a failing header or part.
StepFails(t) ==
  /\ step[t] = "open"
  /\ step' = [step EXCEPT ![t] = "failed"]
  /\ active' = active - 1 /\ stale' = FALSE
  /\ UNCHANGED <<call, gone, permits, jobs, serverVars>>

StepCompletesMutant(t) ==
  /\ step[t] \in {"open", "failed"}
  /\ step' = [step EXCEPT ![t] = "over"]
  /\ active' = active - 1 /\ stale' = FALSE
  /\ UNCHANGED <<call, gone, permits, jobs, serverVars>>

\* onCompleted: after an error its onNext throws on the completed stream before
\* streamEnded.
StepCompletes(t) ==
  /\ step[t] \in {"open", "failed"}
  /\ step' = [step EXCEPT ![t] = "over"]
  /\ IF step[t] = "open"
       THEN active' = active - 1 /\ stale' = FALSE
       ELSE UNCHANGED <<active, stale>>
  /\ UNCHANGED <<call, gone, permits, jobs, serverVars>>

\* onError: streamEnded, also when sendStepError has already called it; the
\* call has then left the count twice.
StepCancelled(t) ==
  /\ step[t] \in {"open", "failed"}
  /\ step' = [step EXCEPT ![t] = IF step[t] = "open" THEN "over" ELSE "twice"]
  /\ active' = active - 1 /\ stale' = FALSE
  /\ UNCHANGED <<call, gone, permits, jobs, serverVars>>

-----------------------------------------------------------------------------
(* Idle timer, Shutdown and the main thread.                                 *)

\* The idle timeout passes without a streamStarted or streamEnded; checkIdle
\* itself takes no such time, and what it finds matters while the latch is up.
TimePasses ==
  /\ IdleTimeout /\ timer = "wait" /\ latch = "up" /\ ~stale
  /\ stale' = TRUE
  /\ UNCHANGED <<call, gone, step, permits, active, jobs, serverVars>>

\* checkIdle's test of the counter.
NoneActiveMutant == TRUE
NoneActive == active <= 0

\* checkIdle, first read: activeStreams.
CheckActive ==
  /\ IdleTimeout /\ timer = "wait" /\ latch = "up"
  /\ NoneActive
  /\ timer' = "idle"
  /\ UNCHANGED <<call, gone, step, permits, active, jobs, stale, latch, pools,
                 main>>

\* checkIdle, second read: lastActivityNanos, compared with the timeout.
CheckElapsed ==
  /\ timer = "idle"
  /\ timer' = IF stale THEN "expired" ELSE "wait"
  /\ UNCHANGED <<call, gone, step, permits, active, jobs, stale, latch, pools,
                 main>>

\* checkIdle, its end: the log line is written and the latch counted down,
\* whoever has come since the reads.
CountDown ==
  /\ timer = "expired"
  /\ timer' = "wait"
  /\ latch' = IF latch = "up" THEN "idle" ELSE latch
  /\ UNCHANGED <<call, gone, step, permits, active, jobs, stale, pools, main>>

\* The Shutdown RPC: both pools stopped, queued tasks dropped, running ones
\* interrupted; then the latch.
ShutdownRPC ==
  /\ "shutdown" \in Faults /\ main = "serving" /\ pools
  /\ pools' = FALSE
  /\ call' = [c \in Calls |-> IF call[c] = "queued" THEN "dead" ELSE call[c]]
  /\ jobs' = <<>>
  /\ latch' = IF latch = "up" THEN "rpc" ELSE latch
  /\ UNCHANGED <<gone, step, permits, active, stale, timer, main>>

\* awaitShutdown returns.
LatchDown == latch # "up"

\* main: awaitShutdown, then server.shutdown.
StopServing ==
  /\ main = "serving" /\ LatchDown
  /\ main' = "stopping"
  /\ UNCHANGED <<call, gone, step, permits, active, jobs, stale, timer, latch,
                 pools>>

\* awaitTermination ends: every call is over, or five seconds are, and
\* shutdownNow cancels the rest. main returns; the threads of the pools, the
\* timer and a TCP server are daemons, but the event loops that
\* createUnixSocketServer has made are not, and nobody shuts them down.
Exit ==
  /\ main = "stopping"
  /\ main' = IF UnixSocket THEN "returned" ELSE "down"
  /\ gone' = gone \cup InFlight
  /\ UNCHANGED <<call, step, permits, active, jobs, stale, timer, latch, pools>>

CallStep(c) == Process(c) \/ OnHeader(c) \/ Cancel(c) \/ Pipeline(c)
StepStep(t) == OpenStep(t) \/ StepFails(t) \/ StepCompletes(t) \/ StepCancelled(t)

Running ==
  \/ \E c \in Calls : CallStep(c)
  \/ StartPipeline
  \/ \E t \in Steps : StepStep(t)
  \/ TimePasses \/ CheckActive \/ CheckElapsed \/ CountDown
  \/ ShutdownRPC \/ StopServing \/ Exit

\* Nothing happens in a JVM that has exited; a server without work waits, for
\* calls, for headers.
Waiting ==
  /\ main = "down" \/ \A c \in Calls :
       call[c] \in {"none", "accepted", "ended", "rejected", "refused", "dead"}
  /\ UNCHANGED vars

Next == (main # "down" /\ Running) \/ Waiting

Spec ==
  /\ Init /\ [][Next]_vars
  /\ \A c \in Calls : WF_vars(main # "down" /\ Pipeline(c))
  /\ \A c \in Calls : WF_vars(main # "down" /\ OnHeader(c))
  /\ WF_vars(main # "down" /\ StartPipeline)
  /\ WF_vars(StopServing) /\ WF_vars(Exit)

-----------------------------------------------------------------------------
(* Properties.                                                               *)

\* No permit is lost or invented: those in the semaphore and those held by
\* calls, from tryAcquire to sendCompleteMessage, make up the concurrency.
SlotAccounting == permits + Cardinality(Holders) = Concurrency

\* activeStreams counts the open streams, Process and ProcessStep together, the
\* calls that died among them; it is short by one for every ProcessStep call
\* that was cancelled after it had failed, and for nothing else.
ActiveAccounting ==
  active = Cardinality(Counted) + Cardinality(OpenSteps) - Cardinality(LeftTwice)

\* A client is told RESOURCE_EXHAUSTED only while as many of its calls as the
\* server has permits are unanswered or were cancelled: one that keeps no more
\* than that in flight never is, however soon it follows up on an answer.
LanesNeverRejected ==
  [][\A c \in Calls : call[c] = "none" /\ call'[c] = "rejected" =>
       Cardinality(InFlight \cup gone) >= Concurrency]_vars

\* The idle timer decides to stop the server only when no stream is accepted
\* and unanswered, though it reads the count and the time in two steps: as long
\* as no call has left the count twice. What comes between the decision and the
\* countDown is not spared.
IdleSparesAccepted ==
  [][timer # "expired" /\ timer' = "expired" /\ LeftTwice = {} =>
       \A c \in Calls : call[c] \notin {"accepted", "queued", "running",
                                        "release", "complete"}]_vars

\* A call that got a permit runs to its end, its header once sent: unless its
\* task or its handler dies, its client goes, or the process exits.
CallsEnd ==
  \A c \in Calls : call[c] = "acquired" ~>
    (call[c] \in {"ended", "dead"} \/ c \in gone \/ main = "down")

\* Whatever counts the latch down, the process exits.
ComesDown == latch # "up" ~> main = "down"
=============================================================================
