-------------------------- MODULE StepStreamProofs --------------------------
(* Proofs about StepStream for all inputs and faults, and that a ProcessStep *)
(* call is what BridgeServer takes it for.                                  *)
EXTENDS StepStream, SequenceTheorems, TLAPS

\* Handlers run one after the other: as long as the stream is open, the parts
\* handled so far are the parts answered.
OrderInv ==
  /\ AnswersInOrder
  /\ handled = 0 => answers = <<>>
  /\ Open /\ handled > 0 => step # "none" /\ Len(answers) = handled - 1
  /\ ~Open => complete \in {0, Len(answers)}

\* The parts of TypeOK, by what changes together.
MessageTypes ==
  /\ input \in Inputs
  /\ requests \in 0..HalfClose /\ handled \in 0..requests
  /\ cut \in BOOLEAN
FedTypes == fed \in Seq(-4..Len(input)) /\ step \in {"none", "live", "destroyed"}
AnswerTypes == answers \in Seq(Positions)
CountTypes == complete \in {NoComplete} \cup 0..Len(input)

IInv == MessageTypes /\ FedTypes /\ AnswerTypes /\ CountTypes /\ OrderInv

LEMMA InputIsSeq ==
  ASSUME input \in Inputs
  PROVE  input \in Seq(Part) /\ Len(input) \in Nat /\ Positions = 1..Len(input)
<1>1. input \in Seq(Part)
  BY InputsAssumption
<1>2. QED
  BY <1>1 DEF Positions

LEMMA Appends ==
  ASSUME NEW S, NEW s \in Seq(S), NEW x \in S
  PROVE  Append(s, x) \in Seq(S)
OBVIOUS

LEMMA Concats ==
  ASSUME NEW S, NEW s \in Seq(S), NEW t \in Seq(S)
  PROVE  s \o t \in Seq(S)
OBVIOUS

(***************************************************************************)
(* The batch events, or the first of them, keep the type of what is fed.   *)
(***************************************************************************)
LEMMA BatchEvents ==
  ASSUME NEW n \in 1..2, NEW m \in Nat
  PROVE  /\ StartBatch \in Seq(-4..m) /\ SubSeq(StartBatch, 1, n) \in Seq(-4..m)
         /\ EndBatch \in Seq(-4..m) /\ SubSeq(EndBatch, 1, n) \in Seq(-4..m)
<1>1. <<-2, -1>> \in Seq(-4..m) /\ <<-3, -4>> \in Seq(-4..m)
  OBVIOUS
<1>2. /\ SubSeq(<<-2, -1>>, 1, n) \in Seq(-4..m)
      /\ SubSeq(<<-3, -4>>, 1, n) \in Seq(-4..m)
  BY <1>1
<1>3. QED
  BY <1>1, <1>2 DEF StartBatch, EndBatch

(***************************************************************************)
(* Appending the next position keeps the answers in order.                 *)
(***************************************************************************)
LEMMA NextAnswer ==
  ASSUME NEW S, NEW s \in Seq(S), \A i \in DOMAIN s : s[i] = i,
         NEW p, p = Len(s) + 1
  PROVE  \A i \in DOMAIN Append(s, p) : Append(s, p)[i] = i
OBVIOUS

(***************************************************************************)
(* An error on an open stream closes it with a count of zero; on a closed  *)
(* one it changes nothing of it.                                           *)
(***************************************************************************)
LEMMA ErrorCloses ==
  ASSUME SendStepError
  PROVE  /\ Open => complete' = 0
         /\ ~Open => complete' = complete
BY DEF SendStepError, ErrorCount

LEMMA InitHolds == Init => IInv
<1> SUFFICES ASSUME Init PROVE IInv
  OBVIOUS
<1>1. input \in Inputs /\ Len(input) \in Nat
  BY InputIsSeq DEF Init
<1>2. MessageTypes
  <2>1. requests \in 0..HalfClose /\ handled \in 0..requests
    BY <1>1 DEF Init, HalfClose
  <2>2. QED
    BY <2>1 DEF Init, MessageTypes
<1>3. FedTypes /\ AnswerTypes
  BY <1>1 DEF Init, FedTypes, AnswerTypes
<1>4. CountTypes
  BY DEF Init, CountTypes
<1>5. OrderInv
  BY DEF Init, OrderInv, AnswersInOrder, Open, NoComplete
<1>6. QED
  BY <1>2, <1>3, <1>4, <1>5 DEF IInv

(***************************************************************************)
(* The header comes first: it leaves a live step or a closed stream.       *)
(***************************************************************************)
LEMMA HeaderKeeps == IInv /\ OnHeader => IInv'
<1> SUFFICES ASSUME IInv, OnHeader PROVE IInv'
  OBVIOUS
<1>1. input \in Inputs /\ Len(input) \in Nat /\ handled \in Nat /\ requests \in Nat
  BY InputIsSeq DEF IInv, MessageTypes, HalfClose
<1>2. handled = 0 /\ handled' = 1 /\ 1 <= requests
  BY <1>1 DEF OnHeader, Deliver
<1>3. answers = <<>> /\ UNCHANGED <<input, requests, answers>>
  BY <1>2 DEF OnHeader, IInv, OrderInv
<1>4. MessageTypes'
  <2>1. cut' \in BOOLEAN
    BY DEF OnHeader, SendStepError, IInv, MessageTypes
  <2>2. QED
    BY <2>1, <1>1, <1>2, <1>3 DEF IInv, MessageTypes, HalfClose
<1>5. FedTypes'
  <2>1. StartBatch \in Seq(-4..Len(input))
        /\ \A n \in 1..2 : SubSeq(StartBatch, 1, n) \in Seq(-4..Len(input))
    BY <1>1, BatchEvents
  <2>2. fed' \in Seq(-4..Len(input))
    BY <2>1 DEF OnHeader, IInv, FedTypes
  <2>3. step' \in {"none", "live", "destroyed"}
    BY DEF OnHeader, IInv, FedTypes
  <2>4. QED
    BY <2>2, <2>3, <1>3 DEF FedTypes
<1>6. AnswerTypes'
  BY <1>3 DEF IInv, AnswerTypes, Positions
<1>7. CASE step' = "live" /\ UNCHANGED <<complete, ended, cut>>
  <2>1. CountTypes'
    BY <1>7, <1>3 DEF IInv, CountTypes
  <2>2. OrderInv'
    BY <1>7, <1>2, <1>3 DEF IInv, OrderInv, AnswersInOrder, Open
  <2>3. QED
    BY <2>1, <2>2, <1>4, <1>5, <1>6 DEF IInv
<1>8. CASE SendStepError
  <2>1. complete' \in {0, complete} /\ complete' # NoComplete
    BY <1>8, ErrorCloses DEF Open, NoComplete
  <2>2. CountTypes'
    BY <2>1, <1>1, <1>3 DEF IInv, CountTypes
  <2>3. OrderInv'
    BY <2>1, <1>2, <1>3 DEF IInv, OrderInv, AnswersInOrder, Open, NoComplete
  <2>4. QED
    BY <2>2, <2>3, <1>4, <1>5, <1>6 DEF IInv
<1>9. QED
  BY <1>7, <1>8 DEF OnHeader

(***************************************************************************)
(* Handling the part at position p while the stream is open means that p   *)
(* parts less one are answered: p is the next.                             *)
(***************************************************************************)
LEMMA PartKeeps ==
  ASSUME IInv, NEW p \in Positions, OnPart(p)
  PROVE  IInv'
<1>1. /\ input \in Inputs /\ Len(input) \in Nat /\ handled \in Nat /\ requests \in Nat
      /\ Positions = 1..Len(input)
  BY InputIsSeq DEF IInv, MessageTypes, HalfClose
<1>2. p \in Nat /\ 1 <= p /\ p <= Len(input)
  BY <1>1
<1>3. handled = p /\ handled' = p + 1 /\ p + 1 <= requests
  BY <1>1, <1>2 DEF OnPart, Deliver
<1>4. UNCHANGED <<input, requests, step>>
  BY DEF OnPart
<1>5. MessageTypes'
  <2>1. cut' \in BOOLEAN
    BY DEF OnPart, Answer, StepThrows, SendStepError, IInv, MessageTypes
  <2>2. QED
    BY <2>1, <1>1, <1>2, <1>3, <1>4 DEF IInv, MessageTypes, HalfClose
<1>6. FedTypes'
  <2>1. p \in -4..Len(input)
    BY <1>1, <1>2
  <2>2. Append(fed, p) \in Seq(-4..Len(input))
    BY <2>1, Appends DEF IInv, FedTypes
  <2>3. fed' = fed \/ fed' = Append(fed, p)
    BY DEF OnPart
  <2>4. QED
    BY <2>2, <2>3, <1>4 DEF IInv, FedTypes
<1>7. CASE Open /\ answers' = Append(answers, p) /\ UNCHANGED <<complete, ended, cut>>
  <2>1. Len(answers) = p - 1 /\ answers \in Seq(Positions) /\ step # "none"
    BY <1>7, <1>2, <1>3 DEF IInv, OrderInv, AnswerTypes
  <2>2. answers' \in Seq(Positions)
    BY <1>7, <2>1, Appends
  <2>3. AnswerTypes'
    BY <2>2, <1>4 DEF AnswerTypes, Positions
  <2>4. AnswersInOrder'
    <3>1. p = Len(answers) + 1
      BY <2>1, <1>2
    <3>2. QED
      BY <1>7, <2>1, <3>1, NextAnswer DEF IInv, OrderInv, AnswersInOrder
  <2>5. Len(answers') = p
    BY <1>7, <2>1, <1>2
  <2>6. OrderInv'
    BY <1>7, <2>1, <2>4, <2>5, <1>2, <1>3, <1>4 DEF OrderInv, Open
  <2>7. CountTypes'
    BY <1>7, <1>4 DEF IInv, CountTypes
  <2>8. QED
    BY <2>3, <2>6, <2>7, <1>5, <1>6 DEF IInv
<1>8. CASE UNCHANGED answers /\ SendStepError
  <2>1. complete' # NoComplete /\ complete' \in {0, complete}
    BY <1>8, ErrorCloses DEF Open, NoComplete
  <2>2. ~Open => complete' = complete
    BY <1>8, ErrorCloses
  <2>3. Open => complete' = 0
    BY <1>8, ErrorCloses
  <2>4. CountTypes'
    BY <2>1, <1>1, <1>4 DEF IInv, CountTypes
  <2>5. OrderInv'
    BY <1>8, <2>1, <2>2, <2>3, <1>2, <1>3, <1>4
    DEF IInv, OrderInv, AnswersInOrder, Open, NoComplete
  <2>6. AnswerTypes'
    BY <1>8, <1>4 DEF IInv, AnswerTypes, Positions
  <2>7. QED
    BY <2>4, <2>5, <2>6, <1>5, <1>6 DEF IInv
<1>9. CASE step = "none" /\ UNCHANGED <<fed, answers, complete, ended, cut>>
  <2>1. ~Open
    BY <1>9, <1>2, <1>3 DEF IInv, OrderInv
  <2>2. OrderInv'
    BY <1>9, <2>1, <1>2, <1>3 DEF IInv, OrderInv, AnswersInOrder, Open
  <2>3. CountTypes'
    BY <1>9, <1>4 DEF IInv, CountTypes
  <2>4. AnswerTypes'
    BY <1>9, <1>4 DEF IInv, AnswerTypes, Positions
  <2>5. QED
    BY <2>2, <2>3, <2>4, <1>5, <1>6 DEF IInv
<1>10. QED
  BY <1>7, <1>8, <1>9 DEF OnPart, Answer, StepThrows

(***************************************************************************)
(* The end of the input counts what was answered.                          *)
(***************************************************************************)
LEMMA CompletedKeeps == IInv /\ OnCompleted => IInv'
<1> SUFFICES ASSUME IInv, OnCompleted PROVE IInv'
  OBVIOUS
<1>1. /\ input \in Inputs /\ Len(input) \in Nat /\ handled \in Nat /\ requests \in Nat
      /\ Positions = 1..Len(input)
  BY InputIsSeq DEF IInv, MessageTypes, HalfClose
<1>2. /\ UNCHANGED <<input, requests, answers>>
      /\ handled = Len(input) + 1 /\ handled' = handled + 1 /\ handled' <= requests
  BY <1>1 DEF OnCompleted, Deliver, HalfClose
<1>3. MessageTypes'
  <2>1. cut' \in BOOLEAN
    BY DEF OnCompleted, EndStream, IInv, MessageTypes
  <2>2. QED
    BY <2>1, <1>1, <1>2 DEF IInv, MessageTypes, HalfClose
<1>4. FedTypes'
  <2>1. EndBatch \in Seq(-4..Len(input))
        /\ \A n \in 1..2 : SubSeq(EndBatch, 1, n) \in Seq(-4..Len(input))
    BY <1>1, BatchEvents
  <2>2. fed \o EndBatch \in Seq(-4..Len(input))
        /\ \A n \in 1..2 : fed \o SubSeq(EndBatch, 1, n) \in Seq(-4..Len(input))
    BY <2>1, Concats DEF IInv, FedTypes
  <2>3. fed' \in Seq(-4..Len(input))
    BY <2>2 DEF OnCompleted, FinishStep, IInv, FedTypes
  <2>4. step' \in {"none", "live", "destroyed"}
    BY DEF OnCompleted, FinishStep, IInv, FedTypes
  <2>5. QED
    BY <2>3, <2>4, <1>2 DEF FedTypes
<1>5. AnswerTypes'
  BY <1>2 DEF IInv, AnswerTypes, Positions
<1>6. CASE Open
  <2>1. complete' = Len(answers) /\ Len(answers) = Len(input)
    BY <1>6, <1>1, <1>2 DEF OnCompleted, EndStream, Processed, IInv, OrderInv
  <2>2. ~Open'
    BY <2>1, <1>1 DEF Open, NoComplete
  <2>3. OrderInv'
    BY <2>1, <2>2, <1>1, <1>2 DEF IInv, OrderInv, AnswersInOrder
  <2>4. CountTypes'
    BY <2>1, <1>1, <1>2 DEF CountTypes
  <2>5. QED
    BY <2>3, <2>4, <1>3, <1>4, <1>5 DEF IInv
<1>7. CASE ~Open
  <2>1. complete' = complete
    BY <1>7 DEF OnCompleted, EndStream
  <2>2. OrderInv'
    BY <2>1, <1>7, <1>1, <1>2 DEF IInv, OrderInv, AnswersInOrder, Open
  <2>3. CountTypes'
    BY <2>1, <1>2 DEF IInv, CountTypes
  <2>4. QED
    BY <2>2, <2>3, <1>3, <1>4, <1>5 DEF IInv
<1>8. QED
  BY <1>6, <1>7

(***************************************************************************)
(* What happens around the observer touches neither answers nor count.     *)
(***************************************************************************)
LEMMA AroundKeeps ==
  ASSUME IInv, UNCHANGED <<input, handled, fed, answers, complete>>,
         requests' \in {requests, requests + 1}, requests' <= HalfClose,
         cut' \in BOOLEAN, step' \in {step, "destroyed"}
  PROVE  IInv'
<1>1. Len(input) \in Nat /\ handled \in Nat /\ requests \in Nat /\ handled <= requests
  BY InputIsSeq DEF IInv, MessageTypes, HalfClose
<1>2. MessageTypes'
  BY <1>1 DEF IInv, MessageTypes, HalfClose
<1>3. FedTypes' /\ AnswerTypes'
  BY DEF IInv, FedTypes, AnswerTypes, Positions
<1>4. CountTypes'
  BY DEF IInv, CountTypes
<1>5. OrderInv'
  BY DEF IInv, OrderInv, AnswersInOrder, Open
<1>6. QED
  BY <1>2, <1>3, <1>4, <1>5 DEF IInv

LEMMA NextKeeps == IInv /\ [Next]_vars => IInv'
<1> SUFFICES ASSUME IInv, [Next]_vars PROVE IInv'
  OBVIOUS
<1>1. requests \in Int /\ HalfClose \in Int /\ requests <= HalfClose /\ cut \in BOOLEAN
  BY InputIsSeq DEF IInv, MessageTypes, HalfClose
<1>2. CASE ClientSends
  <2>1. requests' = requests + 1 /\ requests' <= HalfClose
    BY <1>2, <1>1 DEF ClientSends
  <2>2. QED
    BY <2>1, <1>1, <1>2, AroundKeeps DEF ClientSends
<1>3. CASE OnHeader
  BY <1>3, HeaderKeeps
<1>4. CASE \E p \in Positions : OnPart(p)
  BY <1>4, PartKeeps
<1>5. CASE OnCompleted
  BY <1>5, CompletedKeeps
<1>6. CASE OnError
  BY <1>6, <1>1, AroundKeeps DEF OnError
<1>7. CASE StreamOver
  BY <1>7, <1>1, AroundKeeps DEF StreamOver
<1>8. CASE UNCHANGED vars
  BY <1>8, <1>1, AroundKeeps DEF vars
<1>9. QED
  BY <1>2, <1>3, <1>4, <1>5, <1>6, <1>7, <1>8 DEF Next, Observer

LEMMA Invariance == Spec => []IInv
<1>1. Init => IInv
  BY InitHolds
<1>2. IInv /\ [Next]_vars => IInv'
  BY NextKeeps
<1>3. QED
  BY <1>1, <1>2, PTL DEF Spec

-----------------------------------------------------------------------------
(* The end of the call.                                                      *)

\* As long as gRPC delivers, the call is in the count while its stream is open
\* and has left it once when it is not; before the half-close only an error
\* closes the stream.
EndInv ==
  /\ ended \in Nat
  /\ ~cut => ended = (IF Open THEN 0 ELSE 1)
  /\ ~cut /\ ~Open /\ handled < HalfClose => complete = 0

(***************************************************************************)
(* An error, in a message or in a half-close that is refused, ends an open *)
(* stream with a count of zero and takes the call out of activeStreams; on *)
(* a closed stream it ends gRPC's deliveries.                              *)
(***************************************************************************)
LEMMA ErrorEnds ==
  ASSUME EndInv, ~cut, handled < HalfClose, SendStepError
  PROVE  EndInv' /\ (ended' # ended => ended = 0)
<1>1. CASE Open
  <2>1. complete' = 0 /\ ended' = ended + 1 /\ ended = 0 /\ UNCHANGED cut
    BY <1>1 DEF SendStepError, ErrorCount, EndInv
  <2>2. ~Open'
    BY <2>1 DEF Open, NoComplete
  <2>3. QED
    BY <2>1, <2>2 DEF EndInv
<1>2. CASE ~Open
  BY <1>2 DEF SendStepError, EndInv
<1>3. QED
  BY <1>1, <1>2

\* A message that changes neither stream nor count keeps what is known of them.
LEMMA EndStays ==
  ASSUME EndInv, UNCHANGED <<input, complete, ended, cut>>, handled \in Nat, handled' \in Nat,
         Len(input) \in Nat, handled <= handled'
  PROVE  EndInv'
BY DEF EndInv, Open, HalfClose

LEMMA EndKeeps ==
  IInv /\ EndInv /\ [Next]_vars =>
    /\ EndInv'
    /\ ended > 0 /\ ended' # ended =>
         ended' = 2 /\ complete = 0 /\ handled' = handled /\ cut'
<1> DEFINE Second ==
      ended > 0 /\ ended' # ended =>
        ended' = 2 /\ complete = 0 /\ handled' = handled /\ cut'
<1> SUFFICES ASSUME IInv, EndInv, [Next]_vars PROVE EndInv' /\ Second
  OBVIOUS
<1>0. /\ Len(input) \in Nat /\ handled \in Nat /\ HalfClose = Len(input) + 2
      /\ Positions = 1..Len(input) /\ Len(answers) \in Nat /\ ended \in Nat
  BY InputIsSeq DEF IInv, MessageTypes, HalfClose, AnswerTypes, EndInv
<1>1. ASSUME ~cut, handled < HalfClose, SendStepError PROVE EndInv' /\ Second
  BY <1>0, <1>1, ErrorEnds
<1>2. ASSUME UNCHANGED <<input, complete, ended, cut>>, handled' \in {handled, handled + 1}
      PROVE  EndInv' /\ Second
  BY <1>0, <1>2, EndStays
<1>3. CASE OnHeader
  BY <1>0, <1>1, <1>2, <1>3 DEF OnHeader, Deliver
<1>4. ASSUME NEW p \in Positions, OnPart(p) PROVE EndInv' /\ Second
  <2>1. ~cut /\ handled < HalfClose /\ handled' = handled + 1 /\ UNCHANGED input
    BY <1>0, <1>4 DEF OnPart, Deliver
  <2>2. UNCHANGED <<complete, ended, cut>> \/ SendStepError
    BY <1>4 DEF OnPart, Answer, StepThrows
  <2>3. QED
    BY <1>1, <1>2, <2>1, <2>2
<1>5. CASE OnCompleted
  <2>1. ~cut /\ EndStream /\ handled' = HalfClose /\ UNCHANGED input
    BY <1>5 DEF OnCompleted, Deliver
  <2>2. CASE Open
    <3>1. complete' = Len(answers) /\ ended' = 1 /\ ended = 0
      BY <2>1, <2>2, <1>0 DEF EndStream, Processed, EndInv
    <3>2. ~Open'
      BY <3>1, <1>0 DEF Open, NoComplete
    <3>3. QED
      BY <1>0, <2>1, <3>1, <3>2 DEF EndInv, HalfClose
  <2>3. CASE ~Open
    BY <1>0, <2>1, <2>3 DEF EndStream, EndInv
  <2>4. QED
    BY <2>2, <2>3
<1>6. CASE OnError
  BY <1>0, <1>6 DEF OnError, EndInv
<1>7. CASE ClientSends
  BY <1>2, <1>7 DEF ClientSends
<1>8. CASE StreamOver
  BY <1>0, <1>8 DEF StreamOver, EndInv
<1>9. CASE UNCHANGED vars
  BY <1>2, <1>9 DEF vars
<1>10. QED
  BY <1>3, <1>4, <1>5, <1>6, <1>7, <1>8, <1>9 DEF Next, Observer

LEMMA EndInvariance == Spec => []EndInv
<1>1. Init => EndInv
  BY DEF Init, EndInv, Open, NoComplete
<1>2. QED
  BY <1>1, EndKeeps, Invariance, PTL DEF Spec

-----------------------------------------------------------------------------
(* Theorems.                                                                 *)

\* The variables have their types: what is delivered was sent, answers are
\* positions of the input, and the count is none of more than the input has.
THEOREM TypeCorrect == Spec => []TypeOK
<1>1. IInv /\ EndInv => TypeOK
  BY DEF IInv, EndInv, MessageTypes, FedTypes, AnswerTypes, CountTypes, TypeOK
<1>2. QED
  BY <1>1, Invariance, EndInvariance, PTL

\* For inputs of any length and with any faults, the answers are a prefix of
\* the input: errors and a step that throws leave no gap and repeat nothing.
THEOREM AnswersInOrderHolds == Spec => []AnswersInOrder
<1>1. IInv => AnswersInOrder
  BY DEF IInv, OrderInv
<1>2. QED
  BY <1>1, Invariance, PTL

\* A count of the whole input means that as many parts were answered, and in order.
LEMMA AllAnswered == IInv => CountTellsSuccess
<1> SUFFICES ASSUME IInv, complete = Len(input), input # <<>>
             PROVE  Range(answers) = Positions
  BY DEF CountTellsSuccess
<1>1. /\ input \in Seq(Part) /\ Len(input) \in Nat /\ Positions = 1..Len(input)
      /\ answers \in Seq(Positions)
  BY InputIsSeq DEF IInv, MessageTypes, AnswerTypes
<1>2. Len(input) > 0
  BY <1>1
<1>3. Len(answers) = Len(input)
  BY <1>1, <1>2 DEF IInv, OrderInv, Open, NoComplete
<1>4. DOMAIN answers = Positions
  BY <1>1, <1>3
<1>5. \A i \in Positions : answers[i] = i
  BY <1>4 DEF IInv, OrderInv, AnswersInOrder
<1>6. QED
  BY <1>4, <1>5 DEF Range

\* For inputs of any length and with any faults, the count of a StepComplete
\* is that of the input only when every part has been answered.
THEOREM CountTellsSuccessHolds == Spec => []CountTellsSuccess
BY AllAnswered, Invariance, PTL

\* However error, end and cancellation come together, for inputs of any length:
\* the call leaves the count of active streams a second time only when it is
\* cancelled after it was ended by an error, and no third time.
THEOREM OnlyCancelLeavesTwiceHolds == Spec => OnlyCancelLeavesTwice
<1>1. IInv /\ EndInv /\ [Next]_vars =>
        [ended > 0 /\ ended' # ended =>
           ended' = 2 /\ complete = 0 /\ handled' = handled /\ cut']_vars
  BY EndKeeps
<1>2. QED
  BY <1>1, Invariance, EndInvariance, PTL DEF Spec, OnlyCancelLeavesTwice

-----------------------------------------------------------------------------
(* The call as the server around it sees it.                                *)

\* BridgeServer has four states of a ProcessStep call that was opened.
CallState ==
  IF Open /\ ~cut THEN "open"
                  ELSE IF ~cut /\ handled < HalfClose THEN "failed"
                  ELSE IF ended = 2 THEN "twice" ELSE "over"

\* The server with this call only, which is counted from the start.
Server == INSTANCE BridgeServer WITH
  Calls <- {}, Steps <- {"call"}, Concurrency <- 1, Lanes <- 0, IdleTimeout <- FALSE,
  UnixSocket <- TRUE, Faults <- {},
  call <- [c \in {} |-> "none"], gone <- {}, step <- [c \in {"call"} |-> CallState],
  permits <- 1, active <- 1 - ended, jobs <- <<>>, stale <- FALSE, timer <- "wait",
  latch <- "up", pools <- TRUE, main <- "serving"

ServerStep ==
  Server!StepFails("call") \/ Server!StepCompletes("call") \/ Server!StepCancelled("call")

\* What the server keeps apart from the state of the call and the count.
LEMMA ServerSees ==
  ASSUME ended \in Nat, CallState' = CallState, ended' = ended
  PROVE  UNCHANGED Server!vars
BY DEF Server!vars

LEMMA ServerMoves ==
  ASSUME ended \in Nat,
         \/ CallState = "open" /\ CallState' \in {"failed", "over"} /\ ended' = ended + 1
         \/ CallState = "failed" /\ CallState' = "over" /\ ended' = ended
         \/ CallState = "failed" /\ CallState' = "twice" /\ ended' = ended + 1
  PROVE  ServerStep
<1>1. [[c \in {"call"} |-> CallState] EXCEPT !["call"] = CallState'] = [c \in {"call"} |-> CallState']
  OBVIOUS
<1>2. 1 - (ended + 1) = (1 - ended) - 1
  OBVIOUS
<1>3. CASE CallState = "open" /\ CallState' = "failed" /\ ended' = ended + 1
  BY <1>1, <1>2, <1>3 DEF ServerStep, Server!StepFails, Server!serverVars
<1>4. CASE CallState = "open" /\ CallState' = "over" /\ ended' = ended + 1
  BY <1>1, <1>2, <1>4 DEF ServerStep, Server!StepCompletes, Server!serverVars
<1>5. CASE CallState = "failed" /\ CallState' = "over" /\ ended' = ended
  BY <1>1, <1>5 DEF ServerStep, Server!StepCompletes, Server!serverVars
<1>6. CASE CallState = "failed" /\ CallState' = "twice" /\ ended' = ended + 1
  BY <1>1, <1>2, <1>6 DEF ServerStep, Server!StepCancelled, Server!serverVars
<1>7. QED
  BY <1>3, <1>4, <1>5, <1>6

\* An error on an open stream fails the call; on a closed one it ends gRPC's
\* deliveries, and with them the call.
LEMMA ErrorMoves ==
  ASSUME ended \in Nat, ended < 2, ~cut, handled < HalfClose, UNCHANGED input,
         handled' < HalfClose \/ ~Open, SendStepError
  PROVE  ServerStep
<1>1. CASE Open
  <2>1. complete' = 0 /\ ended' = ended + 1 /\ UNCHANGED cut
    BY <1>1 DEF SendStepError, ErrorCount
  <2>2. CallState = "open" /\ CallState' = "failed"
    BY <1>1, <2>1 DEF CallState, Open, NoComplete, HalfClose
  <2>3. QED
    BY <2>1, <2>2, ServerMoves
<1>2. CASE ~Open
  <2>1. cut' /\ UNCHANGED ended
    BY <1>2 DEF SendStepError
  <2>2. CallState = "failed" /\ CallState' = "over"
    BY <1>2, <2>1 DEF CallState, HalfClose
  <2>3. QED
    BY <2>1, <2>2, ServerMoves
<1>3. QED
  BY <1>1, <1>2

LEMMA StepIsCounted == IInv /\ EndInv /\ [Next]_vars => [ServerStep]_(Server!vars)
<1> SUFFICES ASSUME IInv, EndInv, [Next]_vars PROVE [ServerStep]_(Server!vars)
  OBVIOUS
<1>0. /\ ended \in Nat /\ (~cut => ended = (IF Open THEN 0 ELSE 1))
      /\ Len(input) \in Nat /\ Positions = 1..Len(input) /\ handled \in Nat /\ requests \in Nat /\ handled <= HalfClose /\ HalfClose \in Nat
      /\ HalfClose = Len(input) + 2 /\ cut \in BOOLEAN
  BY InputIsSeq DEF IInv, MessageTypes, EndInv, HalfClose
<1>1. ASSUME UNCHANGED <<input, complete, cut, ended>>, ~cut => Open \/ handled' < HalfClose,
             ~cut => handled < HalfClose
      PROVE  [ServerStep]_(Server!vars)
  <2>1. CallState' = CallState
    BY <1>1 DEF CallState, Open, HalfClose
  <2>2. QED
    BY <1>0, <1>1, <2>1, ServerSees
<1>2. CASE OnHeader
  <2>1. ~cut /\ handled < HalfClose /\ handled' < HalfClose /\ UNCHANGED input
    BY <1>0, <1>2 DEF OnHeader, Deliver
  <2>2. UNCHANGED <<complete, cut, ended>> \/ SendStepError
    BY <1>2 DEF OnHeader
  <2>3. QED
    BY <1>0, <1>1, <2>1, <2>2, ErrorMoves
<1>3. ASSUME NEW p \in Positions, OnPart(p) PROVE [ServerStep]_(Server!vars)
  <2>1. ~cut /\ handled < HalfClose /\ handled' < HalfClose /\ UNCHANGED input
    BY <1>0, <1>3 DEF OnPart, Deliver
  <2>2. UNCHANGED <<complete, cut, ended>> \/ SendStepError
    BY <1>3 DEF OnPart, Answer, StepThrows
  <2>3. QED
    BY <1>0, <1>1, <2>1, <2>2, ErrorMoves
<1>4. CASE OnCompleted
  <2>1. ~cut /\ handled < HalfClose /\ handled' = HalfClose /\ UNCHANGED input /\ EndStream
    BY <1>0, <1>4 DEF OnCompleted, Deliver
  <2>2. CallState' = "over"
    <3>1. ended' = 1 /\ (~Open' \/ cut')
      <4>1. Len(answers) \in Nat
        BY DEF IInv, AnswerTypes
      <4>2. QED
        BY <1>0, <2>1, <4>1 DEF EndStream, Processed, Open, NoComplete
    <3>2. QED
      BY <1>0, <2>1, <3>1 DEF CallState, HalfClose
  <2>3. CASE Open
    BY <1>0, <2>1, <2>2, <2>3, ServerMoves DEF EndStream, CallState
  <2>4. CASE ~Open
    BY <1>0, <2>1, <2>2, <2>4, ServerMoves DEF EndStream, CallState
  <2>5. QED
    BY <2>3, <2>4
<1>5. CASE OnError
  <2>1. ~cut /\ handled < HalfClose /\ cut' /\ ended' = ended + 1
    BY <1>5 DEF OnError
  <2>2. CASE Open
    <3>1. CallState = "open" /\ CallState' = "over"
      BY <1>0, <2>1, <2>2 DEF CallState
    <3>2. QED
      BY <1>0, <2>1, <3>1, ServerMoves
  <2>3. CASE ~Open
    <3>1. CallState = "failed" /\ CallState' = "twice"
      BY <1>0, <2>1, <2>3 DEF CallState
    <3>2. QED
      BY <1>0, <2>1, <3>1, ServerMoves
  <2>4. QED
    BY <2>2, <2>3
<1>6. CASE StreamOver
  <2>1. ~Open /\ ~cut /\ cut' /\ ended = 1 /\ UNCHANGED <<ended, complete, input, handled>>
    BY <1>0, <1>6 DEF StreamOver
  <2>2. CallState' = "over" /\ CallState \in {"failed", "over"}
    BY <2>1 DEF CallState
  <2>3. QED
    BY <1>0, <2>1, <2>2, ServerMoves, ServerSees
<1>7. CASE ClientSends \/ UNCHANGED vars
  <2>1. UNCHANGED <<complete, cut, input, handled, ended>>
    BY <1>7 DEF ClientSends, vars
  <2>2. CallState' = CallState
    BY <2>1 DEF CallState, Open, HalfClose
  <2>3. QED
    BY <1>0, <2>1, <2>2, ServerSees
<1>8. QED
  BY <1>2, <1>3, <1>4, <1>5, <1>6, <1>7 DEF Next, Observer

(***************************************************************************)
(* The states and the three steps that BridgeServer gives an open ProcessStep*)
(* call are those of the observer: it is open, fails at most once, and     *)
(* leaves the count when, and as often as, BridgeServer says.              *)
(***************************************************************************)
THEOREM CallsAreSteps == Spec => CallState = "open" /\ [][ServerStep]_(Server!vars)
<1>1. Init => CallState = "open"
  BY DEF Init, CallState, Open, NoComplete
<1>2. QED
  BY <1>1, StepIsCounted, Invariance, EndInvariance, PTL DEF Spec
=============================================================================
