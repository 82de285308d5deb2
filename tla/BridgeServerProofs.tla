-------------------------- MODULE BridgeServerProofs --------------------------
(* Proofs about BridgeServer for every set of calls and every concurrency.   *)
EXTENDS BridgeServer, FiniteSetTheorems, TLAPS

(***************************************************************************)
(* Every variable keeps its type, whatever the order of the steps of the   *)
(* calls, the timer and the main thread.                                   *)
(***************************************************************************)
THEOREM TypeCorrect == Spec => []TypeOK
<1>1. Init => TypeOK
  <2> SUFFICES ASSUME Init PROVE TypeOK
    OBVIOUS
  <2>1. permits \in Nat
    BY SizesAssumption DEF Init
  <2>2. active \in Int
    BY DEF Init
  <2>3. /\ call \in [Calls -> CallStates] /\ gone \subseteq Calls
        /\ step \in [Steps -> StepStates] /\ jobs \in Seq(Calls)
    BY DEF Init, CallStates, StepStates
  <2>4. /\ stale \in BOOLEAN /\ pools \in BOOLEAN
        /\ timer \in {"wait", "idle", "expired"} /\ latch \in {"up", "idle", "rpc"}
        /\ main \in {"serving", "stopping", "returned", "down"}
    BY DEF Init
  <2>5. QED
    BY <2>1, <2>2, <2>3, <2>4 DEF TypeOK
<1>2. TypeOK /\ [Next]_vars => TypeOK'
  <2> SUFFICES ASSUME TypeOK, [Next]_vars PROVE TypeOK'
    OBVIOUS
  <2> USE DEF TypeOK, CallStates, StepStates, Moves, serverVars
  <2>1. ASSUME NEW c \in Calls, Process(c) PROVE TypeOK'
    BY <2>1 DEF Process, NoPermit
  <2>2. ASSUME NEW c \in Calls, OnHeader(c) PROVE TypeOK'
    BY <2>2 DEF OnHeader, PoolAccepts
  <2>3. ASSUME NEW c \in Calls, Cancel(c) PROVE TypeOK'
    BY <2>3 DEF Cancel
  <2>4. ASSUME NEW c \in Calls, Pipeline(c) PROVE TypeOK'
    <3>1. CASE CountStream(c)
      <4>1. active' \in Int
        BY <3>1 DEF CountStream
      <4>2. QED
        BY <3>1, <4>1 DEF CountStream
    <3>2. CASE NoteStart(c) \/ NoteEnd(c)
      BY <3>2 DEF NoteStart, NoteEnd
    <3>3. CASE BodyEnds(c) \/ SendComplete(c)
      BY <3>3 DEF BodyEnds, SendComplete
    <3>4. CASE ReleasePermit(c) \/ UncountStream(c)
      BY <3>4 DEF ReleasePermit, UncountStream
    <3>5. QED
      BY <2>4, <3>1, <3>2, <3>3, <3>4 DEF Pipeline
  <2>5. CASE StartPipeline
    BY <2>5 DEF StartPipeline
  <2>6. ASSUME NEW t \in Steps, StepStep(t) PROVE TypeOK'
    <3>1. CASE OpenStep(t)
      <4>1. active' \in Int
        BY <3>1 DEF OpenStep
      <4>2. QED
        BY <3>1, <4>1 DEF OpenStep
    <3>2. CASE StepFails(t)
      <4>1. active' \in Int
        BY <3>2 DEF StepFails
      <4>2. QED
        BY <3>2, <4>1 DEF StepFails
    <3>3. CASE StepCompletes(t)
      <4>1. active' \in Int
        BY <3>3 DEF StepCompletes
      <4>2. QED
        BY <3>3, <4>1 DEF StepCompletes
    <3>4. CASE StepCancelled(t)
      <4>1. active' \in Int
        BY <3>4 DEF StepCancelled
      <4>2. QED
        BY <3>4, <4>1 DEF StepCancelled
    <3>5. QED
      BY <2>6, <3>1, <3>2, <3>3, <3>4 DEF StepStep
  <2>7. CASE TimePasses \/ CheckActive \/ CheckElapsed \/ CountDown
    <3>1. CASE TimePasses
      BY <3>1 DEF TimePasses
    <3>2. CASE CheckActive
      BY <3>2 DEF CheckActive
    <3>3. CASE CheckElapsed
      BY <3>3 DEF CheckElapsed
    <3>4. CASE CountDown
      BY <3>4 DEF CountDown
    <3>5. QED
      BY <2>7, <3>1, <3>2, <3>3, <3>4
  <2>8. CASE ShutdownRPC
    <3>1. call' \in [Calls -> CallStates]
      BY <2>8 DEF ShutdownRPC
    <3>2. jobs' \in Seq(Calls) /\ latch' \in {"up", "idle", "rpc"}
      BY <2>8 DEF ShutdownRPC
    <3>3. pools' \in BOOLEAN
      BY <2>8 DEF ShutdownRPC
    <3>4. UNCHANGED <<gone, step, permits, active, stale, timer, main>>
      BY <2>8 DEF ShutdownRPC
    <3>5. QED
      BY <3>1, <3>2, <3>3, <3>4
  <2>9. CASE StopServing \/ Exit
    BY <2>9 DEF StopServing, Exit, InFlight
  <2>10. CASE UNCHANGED vars
    BY <2>10 DEF vars
  <2>11. QED
    BY <2>1, <2>2, <2>3, <2>4, <2>5, <2>6, <2>7, <2>8, <2>9, <2>10
       DEF Next, Running, CallStep, Waiting
<1>3. QED
  BY <1>1, <1>2, PTL DEF Spec

-----------------------------------------------------------------------------
(* What one call's move does to the size of the set of permit holders.       *)
LEMMA HoldersFinite == IsFiniteSet(Holders) /\ IsFiniteSet(Holders')
  BY SizesAssumption, FS_Subset DEF Holders

LEMMA HolderJoins ==
  ASSUME NEW c, c \notin Holders, Holders' = Holders \cup {c}
  PROVE  Cardinality(Holders') = Cardinality(Holders) + 1
  BY HoldersFinite, FS_AddElement

LEMMA HolderLeaves ==
  ASSUME NEW c, c \in Holders, Holders' = Holders \ {c}
  PROVE  Cardinality(Holders') = Cardinality(Holders) - 1
  BY HoldersFinite, FS_RemoveElement

(***************************************************************************)
(* The permits in the semaphore and the calls that hold one always add up  *)
(* to the concurrency: no permit is lost or invented while a call is alive,*)
(* and a leak is always the permit of a call that is stuck in "accepted"   *)
(* or "dead".                                                              *)
(***************************************************************************)
THEOREM SlotAccountingHolds == Spec => []SlotAccounting
<1>1. Init => SlotAccounting
  <2> SUFFICES ASSUME Init PROVE SlotAccounting
    OBVIOUS
  <2>1. Holders = {}
    BY DEF Init, Holders
  <2>2. Cardinality(Holders) = 0
    BY <2>1, FS_EmptySet
  <2>3. QED
    BY <2>2, SizesAssumption DEF Init, SlotAccounting
<1>2. TypeOK /\ SlotAccounting /\ [Next]_vars => SlotAccounting'
  <2> SUFFICES ASSUME TypeOK, SlotAccounting, [Next]_vars PROVE SlotAccounting'
    OBVIOUS
  <2>0. Cardinality(Holders) \in Nat /\ Concurrency \in Nat /\ permits \in Nat
    BY HoldersFinite, FS_CardinalityType, SizesAssumption DEF TypeOK
  <2> USE DEF TypeOK, Moves, serverVars
  <2>1. ASSUME NEW c \in Calls, Process(c) PROVE SlotAccounting'
    <3>1. call[c] = "none"
      BY <2>1 DEF Process, NoPermit
    <3>2. CASE main = "serving" /\ permits # 0
      <4>1. permits' = permits - 1
        BY <2>1, <3>2 DEF Process, NoPermit
      <4>2. c \notin Holders /\ Holders' = Holders \cup {c}
        BY <2>1, <3>2 DEF Process, NoPermit, Holders
      <4>3. Cardinality(Holders') = Cardinality(Holders) + 1
        BY <4>2, HolderJoins
      <4>4. QED
        BY <4>1, <4>3, <2>0 DEF SlotAccounting
    <3>3. CASE main # "serving" \/ permits = 0
      <4>1. PICK s \in {"refused", "rejected"} :
              call' = [call EXCEPT ![c] = s] /\ permits' = permits
        BY <2>1, <3>3 DEF Process, NoPermit
      <4>2. Holders' = Holders
        BY <3>1, <4>1 DEF Holders
      <4>3. QED
        BY <4>1, <4>2 DEF SlotAccounting
    <3>4. QED
      BY <3>2, <3>3
  <2>2. ASSUME NEW c \in Calls, ReleasePermit(c) PROVE SlotAccounting'
    <3>1. c \in Holders /\ Holders' = Holders \ {c} /\ permits' = permits + 1
      BY <2>2 DEF ReleasePermit, Holders
    <3>2. Cardinality(Holders') = Cardinality(Holders) - 1
      BY <3>1, HolderLeaves
    <3>3. QED
      BY <3>1, <3>2, <2>0 DEF SlotAccounting
  <2>3. ASSUME NEW c \in Calls,
               CountStream(c) \/ NoteStart(c) \/ OnHeader(c) \/ BodyEnds(c)
        PROVE  SlotAccounting'
    <3>1. Holders' = Holders /\ permits' = permits
      BY <2>3 DEF CountStream, NoteStart, OnHeader, BodyEnds, Holders
    <3>2. QED
      BY <3>1 DEF SlotAccounting
  <2>4. ASSUME NEW c \in Calls,
               SendComplete(c) \/ UncountStream(c) \/ NoteEnd(c)
        PROVE  SlotAccounting'
    <3>1. Holders' = Holders /\ permits' = permits
      BY <2>4 DEF SendComplete, UncountStream, NoteEnd, Holders
    <3>2. QED
      BY <3>1 DEF SlotAccounting
  <2>5. CASE StartPipeline
    <3>1. Holders' = Holders /\ permits' = permits
      BY <2>5 DEF StartPipeline, Holders
    <3>2. QED
      BY <3>1 DEF SlotAccounting
  <2>6. CASE ShutdownRPC
    <3>1. Holders' = Holders /\ permits' = permits
      BY <2>6 DEF ShutdownRPC, Holders
    <3>2. QED
      BY <3>1 DEF SlotAccounting
  <2>7. CASE UNCHANGED <<call, permits>>
    BY <2>7 DEF SlotAccounting, Holders
  <2>8. QED
    BY <2>1, <2>2, <2>3, <2>4, <2>5, <2>6, <2>7
       DEF Next, Running, CallStep, Pipeline, StepStep, Waiting, vars, Cancel,
           OpenStep, StepFails, StepCompletes, StepCancelled, TimePasses,
           CheckActive, CheckElapsed, CountDown, StopServing, Exit
<1>3. QED
  BY <1>1, <1>2, TypeCorrect, PTL DEF Spec

-----------------------------------------------------------------------------

(***************************************************************************)
(* For any number of lanes: whenever a call is rejected, as many calls as  *)
(* the server has permits are unanswered or were cancelled. The permit is  *)
(* back before the answer that lets the client call again.                 *)
(***************************************************************************)
THEOREM LanesNeverRejectedHolds == Spec => LanesNeverRejected
<1>1. TypeOK /\ SlotAccounting /\ [Next]_vars =>
        [\A c \in Calls : call[c] = "none" /\ call'[c] = "rejected" =>
           Cardinality(InFlight \cup gone) >= Concurrency]_vars
  <2> SUFFICES ASSUME TypeOK, SlotAccounting, Next,
                      NEW c \in Calls, call[c] = "none", call'[c] = "rejected"
               PROVE  Cardinality(InFlight \cup gone) >= Concurrency
    OBVIOUS
  <2> USE DEF TypeOK, Moves
  <2>1. Process(c)
    <3>1. ASSUME NEW d \in Calls, CallStep(d) PROVE Process(c)
      <4>1. CASE Process(d)
        BY <4>1 DEF Process
      <4>2. ~OnHeader(d) /\ ~Cancel(d)
        BY DEF OnHeader, Cancel
      <4>3. ~Pipeline(d)
        BY DEF Pipeline, CountStream, NoteStart, BodyEnds, ReleasePermit, SendComplete,
               UncountStream, NoteEnd
      <4>4. QED
        BY <3>1, <4>1, <4>2, <4>3 DEF CallStep
    <3>2. ~StartPipeline /\ ~ShutdownRPC
      BY DEF StartPipeline, ShutdownRPC
    <3>3. ~UNCHANGED call
      OBVIOUS
    <3>4. QED
      BY <3>1, <3>2, <3>3
         DEF Next, Running, StepStep, Waiting, vars, OpenStep, StepFails, StepCompletes,
             StepCancelled, TimePasses, CheckActive, CheckElapsed, CountDown, StopServing, Exit
  <2>2. permits = 0
    BY <2>1 DEF Process, NoPermit
  <2>3. Holders \subseteq InFlight \cup gone /\ IsFiniteSet(InFlight \cup gone)
    <3>1. InFlight \cup gone \subseteq Calls
      BY DEF InFlight
    <3>2. QED
      BY <3>1, SizesAssumption, FS_Subset DEF Holders, InFlight
  <2>4. Cardinality(Holders) <= Cardinality(InFlight \cup gone)
    BY <2>3, FS_Subset
  <2>5. Cardinality(Holders) \in Nat /\ Cardinality(InFlight \cup gone) \in Nat
    BY <2>3, HoldersFinite, FS_CardinalityType
  <2>6. QED
    BY <2>2, <2>4, <2>5, SizesAssumption DEF SlotAccounting
<1>2. QED
  BY <1>1, TypeCorrect, SlotAccountingHolds, PTL DEF Spec, LanesNeverRejected

-----------------------------------------------------------------------------

LEMMA CountedFinite ==
  /\ IsFiniteSet(Counted) /\ IsFiniteSet(Counted')
  /\ IsFiniteSet(OpenSteps) /\ IsFiniteSet(OpenSteps')
  /\ IsFiniteSet(LeftTwice) /\ IsFiniteSet(LeftTwice')
  BY SizesAssumption, FS_Subset DEF Counted, OpenSteps, LeftTwice

(***************************************************************************)
(* activeStreams is the number of open streams, less the ProcessStep calls *)
(* that were cancelled after the server had answered them with an error.   *)
(***************************************************************************)
THEOREM ActiveAccountingHolds == Spec => []ActiveAccounting
<1>1. Init => ActiveAccounting
  <2> SUFFICES ASSUME Init PROVE ActiveAccounting
    OBVIOUS
  <2>1. Counted = {} /\ OpenSteps = {} /\ LeftTwice = {}
    BY DEF Init, Counted, OpenSteps, LeftTwice
  <2>2. Cardinality(Counted) = 0 /\ Cardinality(OpenSteps) = 0 /\ Cardinality(LeftTwice) = 0
    BY <2>1, FS_EmptySet
  <2>3. QED
    BY <2>2 DEF Init, ActiveAccounting
<1>2. TypeOK /\ ActiveAccounting /\ [Next]_vars => ActiveAccounting'
  <2> SUFFICES ASSUME TypeOK, ActiveAccounting, [Next]_vars
               PROVE  ActiveAccounting'
    OBVIOUS
  <2>0. /\ Cardinality(Counted) \in Nat /\ Cardinality(OpenSteps) \in Nat
        /\ Cardinality(LeftTwice) \in Nat
    BY CountedFinite, FS_CardinalityType
  <2> USE DEF TypeOK, Moves, serverVars
  <2>1. ASSUME NEW c \in Calls, CountStream(c) PROVE ActiveAccounting'
    <3>1. c \notin Counted /\ Counted' = Counted \cup {c}
      BY <2>1 DEF CountStream, Counted
    <3>2. Cardinality(Counted') = Cardinality(Counted) + 1
      BY <3>1, CountedFinite, FS_AddElement
    <3>3. active' = active + 1 /\ OpenSteps' = OpenSteps /\ LeftTwice' = LeftTwice
      BY <2>1 DEF CountStream, OpenSteps, LeftTwice
    <3>4. QED
      BY <3>2, <3>3, <2>0 DEF ActiveAccounting
  <2>2. ASSUME NEW c \in Calls, UncountStream(c) PROVE ActiveAccounting'
    <3>1. c \in Counted /\ Counted' = Counted \ {c}
      BY <2>2 DEF UncountStream, Counted
    <3>2. Cardinality(Counted') = Cardinality(Counted) - 1
      BY <3>1, CountedFinite, FS_RemoveElement
    <3>3. active' = active - 1 /\ OpenSteps' = OpenSteps /\ LeftTwice' = LeftTwice
      BY <2>2 DEF UncountStream, OpenSteps, LeftTwice
    <3>4. QED
      BY <3>2, <3>3, <2>0 DEF ActiveAccounting
  <2>3. ASSUME NEW t \in Steps, OpenStep(t) PROVE ActiveAccounting'
    <3>1. t \notin OpenSteps /\ OpenSteps' = OpenSteps \cup {t}
      BY <2>3 DEF OpenStep, OpenSteps
    <3>2. Cardinality(OpenSteps') = Cardinality(OpenSteps) + 1
      BY <3>1, CountedFinite, FS_AddElement
    <3>3. active' = active + 1 /\ Counted' = Counted /\ LeftTwice' = LeftTwice
      BY <2>3 DEF OpenStep, Counted, LeftTwice
    <3>4. QED
      BY <3>2, <3>3, <2>0 DEF ActiveAccounting
  <2>4. ASSUME NEW t \in OpenSteps,
               StepFails(t) \/ StepCompletes(t) \/ StepCancelled(t)
        PROVE  ActiveAccounting'
    <3>1. t \in Steps /\ step[t] = "open"
      BY DEF OpenSteps
    <3>2. OpenSteps' = OpenSteps \ {t}
      BY <2>4, <3>1 DEF StepFails, StepCompletes, StepCancelled, OpenSteps
    <3>3. Cardinality(OpenSteps') = Cardinality(OpenSteps) - 1
      BY <3>2, CountedFinite, FS_RemoveElement
    <3>4. active' = active - 1
      BY <2>4, <3>1 DEF StepFails, StepCompletes, StepCancelled
    <3>5. Counted' = Counted /\ LeftTwice' = LeftTwice
      BY <2>4, <3>1 DEF StepFails, StepCompletes, StepCancelled, Counted, LeftTwice
    <3>6. QED
      BY <3>3, <3>4, <3>5, <2>0 DEF ActiveAccounting
  <2>5. ASSUME NEW t \in Steps \ OpenSteps,
               StepFails(t) \/ StepCompletes(t) \/ StepCancelled(t)
        PROVE  ActiveAccounting'
    <3>1. step[t] # "open"
      BY DEF OpenSteps
    <3>2. step[t] = "failed" /\ OpenSteps' = OpenSteps /\ Counted' = Counted
      BY <2>5, <3>1 DEF StepFails, StepCompletes, StepCancelled, OpenSteps, Counted
    <3>3. CASE StepCompletes(t)
      BY <3>2, <3>3 DEF StepCompletes, LeftTwice, ActiveAccounting
    <3>4. CASE StepCancelled(t)
      <4>1. t \notin LeftTwice /\ LeftTwice' = LeftTwice \cup {t} /\ active' = active - 1
        BY <3>2, <3>4 DEF StepCancelled, LeftTwice
      <4>2. Cardinality(LeftTwice') = Cardinality(LeftTwice) + 1
        BY <4>1, CountedFinite, FS_AddElement
      <4>3. QED
        BY <3>2, <4>1, <4>2, <2>0 DEF ActiveAccounting
    <3>5. QED
      BY <2>5, <3>1, <3>3, <3>4 DEF StepFails
  <2>6. ASSUME NEW c \in Calls,
               Process(c) \/ NoteStart(c) \/ OnHeader(c) \/ BodyEnds(c)
        PROVE  ActiveAccounting'
    <3>1. Counted' = Counted
      <4>1. CASE Process(c)
        <5>1. call[c] = "none"
          BY <4>1 DEF Process, NoPermit
        <5>2. PICK s \in {"refused", "rejected", "acquired"} :
                call' = [call EXCEPT ![c] = s]
          BY <4>1 DEF Process, NoPermit
        <5>3. QED
          BY <5>1, <5>2 DEF Counted
      <4>2. CASE NoteStart(c) \/ OnHeader(c) \/ BodyEnds(c)
        BY <4>2 DEF NoteStart, OnHeader, BodyEnds, Counted
      <4>3. QED
        BY <2>6, <4>1, <4>2
    <3>2. active' = active /\ OpenSteps' = OpenSteps /\ LeftTwice' = LeftTwice
      BY <2>6 DEF Process, NoPermit, NoteStart, OnHeader, BodyEnds, OpenSteps, LeftTwice
    <3>3. QED
      BY <3>1, <3>2 DEF ActiveAccounting
  <2>7. ASSUME NEW c \in Calls,
               ReleasePermit(c) \/ SendComplete(c) \/ NoteEnd(c)
        PROVE  ActiveAccounting'
    <3>1. Counted' = Counted
      BY <2>7 DEF ReleasePermit, SendComplete, NoteEnd, Counted
    <3>2. active' = active /\ OpenSteps' = OpenSteps /\ LeftTwice' = LeftTwice
      BY <2>7 DEF ReleasePermit, SendComplete, NoteEnd, OpenSteps, LeftTwice
    <3>3. QED
      BY <3>1, <3>2 DEF ActiveAccounting
  <2>8. CASE StartPipeline \/ ShutdownRPC
    <3>1. Counted' = Counted
      BY <2>8 DEF StartPipeline, ShutdownRPC, Counted
    <3>2. active' = active /\ OpenSteps' = OpenSteps /\ LeftTwice' = LeftTwice
      BY <2>8 DEF StartPipeline, ShutdownRPC, OpenSteps, LeftTwice
    <3>3. QED
      BY <3>1, <3>2 DEF ActiveAccounting
  <2>9. CASE UNCHANGED <<call, step, active>>
    BY <2>9 DEF ActiveAccounting, Counted, OpenSteps, LeftTwice
  <2>10. QED
    BY <2>1, <2>2, <2>3, <2>4, <2>5, <2>6, <2>7, <2>8, <2>9
       DEF Next, Running, CallStep, Pipeline, StepStep, Waiting, vars, Cancel,
           TimePasses, CheckActive, CheckElapsed, CountDown, StopServing, Exit
<1>3. QED
  BY <1>1, <1>2, TypeCorrect, PTL DEF Spec

-----------------------------------------------------------------------------
(* The idle timer and the streams it must not stop.                          *)

Open == {"accepted", "queued", "running", "release", "complete"}

\* A server found without streams has none, unless one has come and said so:
\* as long as the count is not short.
CheckInv ==
  timer = "idle" /\ stale /\ LeftTwice = {} => \A c \in Calls : call[c] \notin Open

\* What has left twice stays.
LEMMA LeftStays == TypeOK /\ [Next]_vars => LeftTwice \subseteq LeftTwice'
<1> SUFFICES ASSUME TypeOK, [Next]_vars PROVE LeftTwice \subseteq LeftTwice'
  OBVIOUS
<1> USE DEF TypeOK, LeftTwice
<1>1. ASSUME NEW t \in Steps, StepStep(t) PROVE LeftTwice \subseteq LeftTwice'
  BY <1>1 DEF StepStep, OpenStep, StepFails, StepCompletes, StepCancelled
<1>2. ASSUME NEW c \in Calls, CallStep(c) PROVE UNCHANGED step
  BY <1>2 DEF CallStep, Process, OnHeader, Cancel, Pipeline, CountStream, NoteStart, BodyEnds,
       ReleasePermit, SendComplete, UncountStream, NoteEnd
<1>3. QED
  BY <1>1, <1>2 DEF Next, Running, Waiting, vars, StartPipeline, TimePasses, CheckActive,
       CheckElapsed, CountDown, ShutdownRPC, StopServing, Exit

(***************************************************************************)
(* The two reads of checkIdle, the count and then the time, are not one    *)
(* step; still a stream accepted between them stops the timer, for it      *)
(* notes its activity after it counts itself.                              *)
(***************************************************************************)
LEMMA NextCheck ==
  TypeOK /\ ActiveAccounting /\ CheckInv /\ [Next]_vars => CheckInv'
<1> SUFFICES ASSUME TypeOK, ActiveAccounting, CheckInv, [Next]_vars, LeftTwice' = {}
             PROVE  CheckInv'
  BY DEF CheckInv
<1>0. LeftTwice = {}
  BY LeftStays
<1> USE DEF TypeOK, Moves, serverVars
<1>1. ASSUME NEW c \in Calls, Process(c) \/ CountStream(c) \/ OnHeader(c) \/ BodyEnds(c)
      PROVE  CheckInv'
  <2>1. UNCHANGED <<timer, stale>>
    BY <1>1 DEF Process, CountStream, OnHeader, BodyEnds
  <2>2. PICK s \in CallStates : call' = [call EXCEPT ![c] = s]
        /\ (s \in Open => call[c] \in Open)
    BY <1>1 DEF Process, CountStream, OnHeader, BodyEnds, Open, CallStates
  <2>3. QED
    BY <1>0, <2>1, <2>2 DEF CheckInv
<1>2. ASSUME NEW c \in Calls, ReleasePermit(c) \/ SendComplete(c) \/ UncountStream(c)
      PROVE  CheckInv'
  <2>1. UNCHANGED <<timer, stale>>
    BY <1>2 DEF ReleasePermit, SendComplete, UncountStream
  <2>2. PICK s \in CallStates : call' = [call EXCEPT ![c] = s]
        /\ (s \in Open => call[c] \in Open)
    BY <1>2 DEF ReleasePermit, SendComplete, UncountStream, Open, CallStates
  <2>3. QED
    BY <1>0, <2>1, <2>2 DEF CheckInv
<1>3. ASSUME NEW c \in Calls, NoteStart(c) \/ NoteEnd(c) PROVE CheckInv'
  BY <1>3 DEF NoteStart, NoteEnd, CheckInv
<1>4. CASE StartPipeline
  <2>0. Head(jobs) \in Calls
    BY <1>4 DEF StartPipeline
  <2>1. PICK c \in Calls : call[c] = "queued" /\ call' = [call EXCEPT ![c] = "running"]
    BY <1>4, <2>0 DEF StartPipeline
  <2>2. UNCHANGED <<timer, stale>>
    BY <1>4 DEF StartPipeline
  <2>3. QED
    BY <1>0, <2>1, <2>2 DEF CheckInv, Open
<1>5. CASE ShutdownRPC
  BY <1>0, <1>5 DEF ShutdownRPC, CheckInv, Open
<1>6. ASSUME NEW t \in Steps, StepStep(t) PROVE CheckInv'
  <2>1. UNCHANGED <<call, timer>> /\ (stale' => stale)
    BY <1>6 DEF StepStep, OpenStep, StepFails, StepCompletes, StepCancelled
  <2>2. QED
    BY <1>0, <2>1 DEF CheckInv
<1>7. CASE TimePasses
  BY <1>7 DEF TimePasses, CheckInv
<1>8. CASE CheckActive
  <2>1. Cardinality(Counted) \in Nat /\ Cardinality(OpenSteps) \in Nat
    BY CountedFinite, FS_CardinalityType
  <2>2. Cardinality(Counted) = 0
    BY <1>0, <1>8, <2>1, FS_EmptySet DEF CheckActive, NoneActive, ActiveAccounting
  <2>3. Counted = {}
    BY <2>2, CountedFinite, FS_EmptySet
  <2>4. QED
    BY <1>8, <2>3 DEF CheckActive, CheckInv, Counted, Open
<1>9. CASE CheckElapsed
  BY <1>9 DEF CheckElapsed, CheckInv
<1>10. CASE CountDown
  BY <1>10 DEF CountDown, CheckInv
<1>11. CASE UNCHANGED <<call, timer, stale>>
  BY <1>0, <1>11 DEF CheckInv
<1>12. QED
  BY <1>1, <1>2, <1>3, <1>4, <1>5, <1>6, <1>7, <1>8, <1>9, <1>10, <1>11
     DEF Next, Running, CallStep, Pipeline, Waiting, vars, Cancel, StopServing, Exit

(***************************************************************************)
(* The idle timer never decides to stop a server that has accepted a       *)
(* stream and not answered it, in whatever order the count and the time    *)
(* are written and read, as long as no call has left the count twice. A    *)
(* stream that comes after the decision is stopped with the server.        *)
(***************************************************************************)
THEOREM IdleSparesAcceptedHolds == Spec => IdleSparesAccepted
<1>1. Init => CheckInv
  BY DEF Init, CheckInv
<1>2. TypeOK /\ CheckInv /\ [Next]_vars =>
        [timer # "expired" /\ timer' = "expired" /\ LeftTwice = {} =>
           \A c \in Calls : call[c] \notin {"accepted", "queued", "running",
                                            "release", "complete"}]_vars
  <2> SUFFICES ASSUME TypeOK, CheckInv, [Next]_vars, timer # "expired", timer' = "expired",
                      LeftTwice = {}
               PROVE  \A c \in Calls : call[c] \notin Open
    BY DEF Open
  <2>1. CheckElapsed
    <3>1. timer' # timer
      OBVIOUS
    <3>2. ASSUME NEW c \in Calls, CallStep(c) PROVE FALSE
      BY <3>1, <3>2 DEF CallStep, Process, OnHeader, Cancel, Pipeline, CountStream,
           NoteStart, BodyEnds, ReleasePermit, SendComplete, UncountStream, NoteEnd,
           serverVars
    <3>3. ASSUME NEW t \in Steps, StepStep(t) PROVE FALSE
      BY <3>1, <3>3 DEF StepStep, OpenStep, StepFails, StepCompletes, StepCancelled,
           serverVars
    <3>4. ~(StartPipeline \/ TimePasses \/ ShutdownRPC \/ StopServing \/ Exit \/ Waiting)
      BY <3>1 DEF StartPipeline, TimePasses, ShutdownRPC, StopServing, Exit, Waiting,
           serverVars, vars
    <3>5. ~CheckActive /\ ~CountDown
      BY DEF CheckActive, CountDown
    <3>6. QED
      BY <3>1, <3>2, <3>3, <3>4, <3>5 DEF Next, Running, vars
  <2>2. timer = "idle" /\ stale
    BY <2>1 DEF CheckElapsed
  <2>3. QED
    BY <2>2 DEF CheckInv
<1>3. QED
  BY <1>1, <1>2, NextCheck, TypeCorrect, ActiveAccountingHolds, PTL
    DEF Spec, IdleSparesAccepted
=============================================================================
