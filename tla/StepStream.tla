----------------------------- MODULE StepStream -----------------------------
(***************************************************************************)
(* One ProcessStep call: the request observer of                           *)
(* BridgeServiceImpl.processStep with the Okapi step it feeds, and         *)
(* RunBridgeStep, the Go client, which sends all its parts without waiting *)
(* for answers. A part, its event and its answer are named by the          *)
(* position of the part in the client's input.                             *)
(*                                                                         *)
(* gRPC calls the handlers of one stream one after the other, in the order *)
(* of the messages; after the server has closed the stream it may deliver  *)
(* what is still under way or stop.                                        *)
(***************************************************************************)
EXTENDS Integers, Sequences, Functions

CONSTANTS
  Inputs,   (* the client's inputs: sequences of parts                     *)
  Faults    (* environment events that may happen, see FaultKinds          *)

(***************************************************************************)
(* A part is the part_type it carries and the payload set in it: the Block *)
(* of a Go client has type 5, the Block this server sends has type 4.      *)
(***************************************************************************)
Part == [type : 0..6, payload : {"block", "data", "layer", "group", "none"}]

FaultKinds == {"initFails", "stepFails", "cancel"}

ASSUME InputsAssumption == Inputs \subseteq Seq(Part)
ASSUME FaultsAssumption == Faults \subseteq FaultKinds

VARIABLES
  input,      (* what the client sends after its header                    *)
  requests,   (* messages sent: header, parts, half-close                  *)
  handled,    (* messages delivered to the observer                        *)
  cut,        (* gRPC delivers nothing more                                *)
  step,       (* the step object: "none", "live", "destroyed"              *)
  fed,        (* events the step has been given                            *)
  answers,    (* parts sent back                                           *)
  complete,   (* partsProcessed of the StepComplete, or NoComplete         *)
  ended       (* calls of streamEnded                                      *)

vars == <<input, requests, handled, cut, step, fed, answers, complete, ended>>

(***************************************************************************)
(* An operator XMutant is a bug that X could have had, for the runs that   *)
(* show that the properties notice it; no specification uses one.          *)
(***************************************************************************)

NoComplete == -1
Positions == DOMAIN input
HalfClose == Len(input) + 2

\* Batch events, apart from the positions of parts.
StartBatch == <<-2, -1>>
EndBatch == <<-3, -4>>

\* What is delivered was sent, and answers are positions of the input.
TypeOK ==
  /\ input \in Inputs
  /\ requests \in 0..HalfClose /\ handled \in 0..requests
  /\ cut \in BOOLEAN
  /\ step \in {"none", "live", "destroyed"}
  /\ fed \in Seq(-4..Len(input)) /\ answers \in Seq(Positions)
  /\ complete \in {NoComplete} \cup 0..Len(input)
  /\ ended \in Nat

\* processStep calls streamStarted before it returns the observer.
Init ==
  /\ input \in Inputs
  /\ requests = 0 /\ handled = 0 /\ cut = FALSE
  /\ step = "none" /\ fed = <<>> /\ answers = <<>>
  /\ complete = NoComplete
  /\ ended = 0

-----------------------------------------------------------------------------
(* The client.                                                               *)

\* Header, parts and half-close, one after the other, until the stream is over.
ClientSends ==
  /\ requests < HalfClose /\ ~cut
  /\ requests' = requests + 1
  /\ UNCHANGED <<input, handled, cut, step, fed, answers, complete, ended>>

-----------------------------------------------------------------------------
(* The observer. A send on a stream that is completed throws.                *)

Open == complete = NoComplete

\* sendStepError: a StepComplete like any other, with no parts processed, and
\* the end of the stream in the count. A second one throws out of the handler,
\* and gRPC stops.
ErrorCountMutant == Len(answers) + 1
ErrorCount == 0
SendStepErrorMutant ==
  /\ ended' = ended + 1
  /\ IF Open
       THEN complete' = ErrorCount /\ UNCHANGED cut
       ELSE cut' = TRUE /\ UNCHANGED complete
SendStepError ==
  IF Open
    THEN /\ complete' = ErrorCount /\ ended' = ended + 1
         /\ UNCHANGED cut
    ELSE cut' = TRUE /\ UNCHANGED <<complete, ended>>

Deliver(n) == ~cut /\ handled < requests /\ handled + 1 = n /\ handled' = n

\* The header: initializeStep, then the two start events. initializeStep may
\* throw, and then there is no step; the step may throw at either event.
OnHeader ==
  /\ Deliver(1)
  /\ \/ /\ step' = "live" /\ fed' = StartBatch
        /\ UNCHANGED <<complete, ended, cut>>
     \/ /\ "initFails" \in Faults
        /\ \/ UNCHANGED <<step, fed>>
           \/ step' = "live" /\ \E n \in 1..2 : fed' = SubSeq(StartBatch, 1, n)
        /\ SendStepError
  /\ UNCHANGED <<input, requests, answers>>

\* partMessageToEvent: a part becomes an event if it carries the payload that
\* belongs to its type.
Payloads == {<<0, "layer">>, <<2, "group">>, <<4, "block">>, <<5, "data">>}
BecomesEvent(part) ==
  part.type \in {1, 3} \/ <<part.type, part.payload>> \in Payloads

\* The end of processStepPart for the part at position p: the step's answer, or
\* the part itself, goes back. After an error the step is still fed.
Answer(p) ==
  IF Open
    THEN /\ answers' = Append(answers, p)
         /\ UNCHANGED <<complete, ended, cut>>
    ELSE UNCHANGED answers /\ SendStepError

\* The step throws at a part.
StepThrowsMutant == UNCHANGED <<complete, ended, cut>>
StepThrows == SendStepError

OnPart(p) ==
  /\ Deliver(p + 1)
  /\ IF step = "none"
       THEN UNCHANGED <<fed, answers, complete, ended, cut>>
       ELSE IF BecomesEvent(input[p])
         THEN /\ fed' = Append(fed, p)
              /\ \/ Answer(p)
                 \/ "stepFails" \in Faults /\ UNCHANGED answers /\ StepThrows
         ELSE UNCHANGED fed /\ Answer(p)
  /\ UNCHANGED <<input, requests, step>>

\* onCompleted, first half: the end events and destroy, which an end event that
\* throws prevents.
FinishStep ==
  IF step = "none"
    THEN UNCHANGED <<step, fed>>
    ELSE \/ fed' = fed \o EndBatch /\ step' = "destroyed"
         \/ /\ "stepFails" \in Faults
            /\ \E n \in 1..2 : fed' = fed \o SubSeq(EndBatch, 1, n)
            /\ UNCHANGED step

\* partsProcessed counts the parts sent back.
Processed == Len(answers)

\* onCompleted, second half: the StepComplete, then streamEnded; on a completed
\* stream the send throws first.
EndStreamMutant ==
  /\ complete' = Processed /\ UNCHANGED <<ended, cut>>
EndStream ==
  IF Open
    THEN /\ complete' = Processed /\ ended' = ended + 1
         /\ UNCHANGED cut
    ELSE cut' = TRUE /\ UNCHANGED <<complete, ended>>

OnCompleted ==
  /\ Deliver(HalfClose)
  /\ FinishStep /\ EndStream
  /\ UNCHANGED <<input, requests, answers>>

\* The call is cancelled before its half-close has been handled, be it still
\* open or ended by an error: destroy and streamEnded, whatever was sent before.
OnError ==
  /\ "cancel" \in Faults
  /\ ~cut /\ handled < HalfClose
  /\ cut' = TRUE
  /\ step' = IF step = "live" THEN "destroyed" ELSE step
  /\ ended' = ended + 1
  /\ UNCHANGED <<input, requests, handled, fed, answers, complete>>

\* gRPC has sent the status of a completed stream and is done with the call.
StreamOver ==
  /\ ~Open /\ ~cut
  /\ cut' = TRUE
  /\ UNCHANGED <<input, requests, handled, step, fed, answers, complete, ended>>

Observer == OnHeader \/ (\E p \in Positions : OnPart(p)) \/ OnCompleted

Next ==
  \/ ClientSends \/ Observer \/ OnError \/ StreamOver
  \/ cut /\ UNCHANGED vars

\* The client sends what it has, and gRPC delivers what is sent.
Spec == Init /\ [][Next]_vars /\ WF_vars(ClientSends) /\ WF_vars(Observer)
             /\ WF_vars(StreamOver)

-----------------------------------------------------------------------------
(* Properties.                                                               *)

\* Each part is answered once, in order, and after a part that failed nothing
\* is answered any more, though parts keep coming.
AnswersInOrder == \A i \in DOMAIN answers : answers[i] = i

\* The number in the StepComplete tells success from failure, which nothing
\* else in it does: it counts all parts of the input only when each has been
\* answered.
CountTellsSuccess ==
  complete = Len(input) /\ input # <<>> => Range(answers) = Positions

\* Whichever of error, end and cancellation come together: a call that has left
\* activeStreams leaves it again only when gRPC cancels it, delivering nothing,
\* after it was ended by an error, and then for the last time.
OnlyCancelLeavesTwice ==
  [][ended > 0 /\ ended' # ended =>
       ended' = 2 /\ complete = 0 /\ handled' = handled /\ cut']_vars

\* Every call leaves activeStreams.
LeavesCount == <>(ended > 0)

\* The server feeds each part through the step: a StepComplete that counts all
\* parts means that the step has seen every block.
BlocksAreFed ==
  complete = Len(input) =>
    \A p \in Positions : input[p].payload = "block" => p \in Range(fed)
=============================================================================
