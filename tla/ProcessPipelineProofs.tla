----------------------- MODULE ProcessPipelineProofs -----------------------
(* Proofs about ProcessPipeline for all documents, modes, sizes, clients and *)
(* faults.                                                                   *)
EXTENDS ProcessPipeline, SequenceTheorems, TLAPS

\* The parts of TypeOK, by the actor whose steps change them, with what keeps
\* them: an event is at hand wherever one is used.
ReaderTypes ==
  /\ rpc \in {"open", "read", "convert", "put", "putEnd", "pass2", "join",
              "close", "readDone", "catch", "release", "complete", "done"}
  /\ rpos \in 0..Len(doc)
  /\ batch \in Seq(1..Len(doc))
  /\ rpc = "convert" => rpos # 0
EventQueueTypes == evq \in Seq(0..Len(doc)) /\ Len(evq) <= EventCap
WriterTypes ==
  /\ wpc \in {"off", "poll", "find", "handle", "done", "failed"}
  /\ wev \in 0..Len(doc) /\ wseg \in 0..Len(doc)
  /\ look \in [Ids -> 0..Len(doc)] /\ eos \in BOOLEAN
  /\ wpc \in {"find", "handle"} => wev # 0
EntryQueueTypes == trq \in Seq(0..Len(doc))
OutputTypes ==
  out \in Seq([ev : 1..Len(doc), seg : 0..Len(doc)]) /\ writerOpen \in BOOLEAN
ResponseTypes ==
  /\ sent \in Seq(1..Len(doc)) /\ readDone \in BOOLEAN
  /\ complete \in {"none", "ok", "error"}
RequestTypes ==
  echoed \subseteq 1..Len(doc) /\ halfClosed \in BOOLEAN /\ cancelled \in BOOLEAN
EndTypes ==
  /\ verdict \in {"none", "ok", "error"} /\ slot \in {"held", "free"}
  /\ intr \subseteq {"reader", "writer"}

TypeInv ==
  /\ doc \in Docs /\ mode \in Modes /\ client \in Clients
  /\ ReaderTypes /\ EventQueueTypes /\ WriterTypes /\ EntryQueueTypes
  /\ OutputTypes /\ ResponseTypes /\ RequestTypes /\ EndTypes

(***************************************************************************)
(* Appending an element, appending a sequence and taking the tail keep the *)
(* type of the elements.                                                   *)
(***************************************************************************)
LEMMA Appends ==
  ASSUME NEW S, NEW s \in Seq(S), NEW x \in S
  PROVE  Append(s, x) \in Seq(S)
OBVIOUS

LEMMA Concats ==
  ASSUME NEW S, NEW s \in Seq(S), NEW t \in Seq(S)
  PROVE  s \o t \in Seq(S)
OBVIOUS

LEMMA EmptyTyped == ASSUME NEW S PROVE <<>> \in Seq(S)
OBVIOUS

LEMMA TailKeeps ==
  ASSUME NEW S, NEW s \in Seq(S), s # <<>>
  PROVE  /\ Head(s) \in S /\ Tail(s) \in Seq(S)
         /\ Len(Tail(s)) = Len(s) - 1
OBVIOUS

(***************************************************************************)
(* A document is a sequence of events with a length.                       *)
(***************************************************************************)
LEMMA DocIsSeq ==
  ASSUME doc \in Docs
  PROVE  /\ doc \in Seq(Event) /\ Len(doc) \in Nat
         /\ Positions = 1..Len(doc)
BY DocsAssumption DEF Positions

(***************************************************************************)
(* The block id of an event is in the domain of the lookahead, its         *)
(* segments are a position or none.                                        *)
(***************************************************************************)
LEMMA EntryTypes ==
  ASSUME doc \in Docs, NEW p \in 1..Len(doc)
  PROVE  /\ BlockId(p) \in Ids
         /\ Segments(p) \in 0..Len(doc)
<1>1. p \in Positions /\ Len(doc) \in Nat
  BY DocIsSeq
<1>2. BlockId(p) \in Ids
  BY <1>1 DEF BlockId, Ids
<1>3. Segments(p) \in 0..Len(doc)
  BY <1>1 DEF Segments
<1>4. QED
  BY <1>2, <1>3

(***************************************************************************)
(* Starting an event that exists leaves the writer with a typed state.     *)
(***************************************************************************)
LEMMA StartEventTypes ==
  ASSUME doc \in Docs, WriterTypes, NEW p \in 1..Len(doc), StartEvent(p)
  PROVE  /\ wev' \in 1..Len(doc) /\ wseg' \in 0..Len(doc)
         /\ look' \in [Ids -> 0..Len(doc)]
         /\ wpc' \in {"find", "handle"}
<1>1. look \in [Ids -> 0..Len(doc)]
  BY DEF WriterTypes
<1>2. BlockId(p) \in Ids /\ Len(doc) \in Nat
  BY EntryTypes, DocIsSeq
<1>3. look[BlockId(p)] \in 0..Len(doc)
  BY <1>1, <1>2
<1>4. wev' \in 1..Len(doc)
  BY DEF StartEvent
<1>5. wseg' \in 0..Len(doc)
  BY <1>2, <1>3 DEF StartEvent, Found
<1>6. look' \in [Ids -> 0..Len(doc)]
  BY <1>1, <1>2 DEF StartEvent
<1>7. wpc' \in {"find", "handle"}
  BY DEF StartEvent
<1>8. QED
  BY <1>4, <1>5, <1>6, <1>7

(***************************************************************************)
(* A part whose variables do not change stays true.                        *)
(***************************************************************************)
LEMMA Frame ==
  ASSUME TypeInv, UNCHANGED <<doc, mode, client>>
  PROVE  /\ doc' \in Docs /\ mode' \in Modes
         /\ UNCHANGED <<rpc, rpos, batch>> => ReaderTypes'
         /\ UNCHANGED evq => EventQueueTypes'
         /\ UNCHANGED <<wpc, wev, wseg, look, eos>> => WriterTypes'
         /\ UNCHANGED trq => EntryQueueTypes'
         /\ UNCHANGED <<out, writerOpen>> => OutputTypes'
         /\ UNCHANGED <<sent, readDone, complete>> => ResponseTypes'
         /\ UNCHANGED <<echoed, halfClosed, cancelled>> => RequestTypes'
         /\ UNCHANGED <<verdict, slot, intr>> => EndTypes'
<1>1. Ids' = Ids
  BY DEF Ids, Positions
<1>2. UNCHANGED <<rpc, rpos, batch>> => ReaderTypes'
  BY DEF TypeInv, ReaderTypes
<1>3. UNCHANGED evq => EventQueueTypes'
  BY DEF TypeInv, EventQueueTypes
<1>4. UNCHANGED <<wpc, wev, wseg, look, eos>> => WriterTypes'
  BY <1>1 DEF TypeInv, WriterTypes
<1>5. UNCHANGED trq => EntryQueueTypes'
  BY DEF TypeInv, EntryQueueTypes
<1>6. UNCHANGED <<out, writerOpen>> => OutputTypes'
  BY DEF TypeInv, OutputTypes
<1>7. UNCHANGED <<sent, readDone, complete>> => ResponseTypes'
  BY DEF TypeInv, ResponseTypes
<1>8. UNCHANGED <<echoed, halfClosed, cancelled>> => RequestTypes'
  BY DEF TypeInv, RequestTypes
<1>9. UNCHANGED <<verdict, slot, intr>> => EndTypes'
  BY DEF TypeInv, EndTypes
<1>10. QED
  BY <1>2, <1>3, <1>4, <1>5, <1>6, <1>7, <1>8, <1>9 DEF TypeInv

(***************************************************************************)
(* What is sent is a sequence of positions.                                *)
(***************************************************************************)
LEMMA SendOrTypes ==
  ASSUME NEW S, NEW b \in Seq(S), NEW next, sent \in Seq(S), SendOr(b, next)
  PROVE  rpc' \in {"catch", next} /\ sent' \in Seq(S)
<1>1. CASE b # <<>> /\ cancelled
  BY <1>1 DEF SendOr
<1>2. CASE ~(b # <<>> /\ cancelled)
  <2>1. rpc' = next /\ sent' = sent \o b
    BY <1>2 DEF SendOr
  <2>2. QED
    BY <2>1, Concats
<1>3. QED
  BY <1>1, <1>2

(***************************************************************************)
(* Every step of the pipeline thread keeps the types.                      *)
(***************************************************************************)
LEMMA ReaderTyped == TypeInv /\ Reader => TypeInv'
<1> SUFFICES ASSUME TypeInv, Reader PROVE TypeInv'
  OBVIOUS
<1> USE DEF readerVars, writerVars, respVars, reqVars, endVars
<1>1. doc \in Docs /\ Len(doc) \in Nat /\ Positions = 1..Len(doc)
  BY DocIsSeq DEF TypeInv
<1>2. CASE Open
  <2>1. ReaderTypes'
    BY <1>2 DEF Open, ReaderTypes, TypeInv
  <2>2. WriterTypes'
    <3>1. Ids' = Ids
      BY <1>2 DEF Open, Ids, Positions
    <3>2. QED
      BY <1>2, <3>1 DEF Open, WriterTypes, TypeInv
  <2>3. OutputTypes'
    BY <1>2 DEF Open, OutputTypes, TypeInv
  <2>4. QED
    BY <1>2, <2>1, <2>2, <2>3, Frame DEF Open, TypeInv
<1>3. CASE NextEvent
  <2>1. ReaderTypes'
    BY <1>3, <1>1 DEF NextEvent, ReaderTypes, TypeInv
  <2>2. QED
    BY <1>3, <2>1, Frame DEF NextEvent, TypeInv
<1>4. CASE ConvertEvent
  <2> DEFINE b == IF Wanted(rpos) THEN Append(batch, rpos) ELSE batch
             full == Wanted(rpos) /\ Full(b)
  <2>1. rpos \in 1..Len(doc) /\ batch \in Seq(1..Len(doc))
    BY <1>1, <1>4 DEF ConvertEvent, TypeInv, ReaderTypes
  <2>2. b \in Seq(1..Len(doc))
    BY <2>1, Appends
  <2>3. batch' = IF full THEN <<>> ELSE b
    BY <1>4 DEF ConvertEvent
  <2>4. SendOr(IF full THEN b ELSE <<>>, IF mode = "single" THEN "put" ELSE "read")
    BY <1>4 DEF ConvertEvent
  <2>5. sent \in Seq(1..Len(doc))
    BY DEF TypeInv, ResponseTypes
  <2> HIDE DEF b, full
  <2>6. rpc' \in {"catch", "put", "read"} /\ sent' \in Seq(1..Len(doc))
    <3>1. (IF full THEN b ELSE <<>>) \in Seq(1..Len(doc))
      BY <2>2, EmptyTyped
    <3>2. QED
      BY <2>4, <2>5, <3>1, SendOrTypes
  <2>7. ReaderTypes'
    <3>1. batch' \in Seq(1..Len(doc)) /\ UNCHANGED <<doc, rpos>>
      BY <1>4, <2>2, <2>3, EmptyTyped DEF ConvertEvent
    <3>2. QED
      BY <2>6, <3>1 DEF TypeInv, ReaderTypes
  <2>8. ResponseTypes'
    BY <1>4, <2>6 DEF ConvertEvent, TypeInv, ResponseTypes
  <2>9. QED
    BY <1>4, <2>7, <2>8, Frame DEF ConvertEvent, TypeInv
<1>5. CASE ReadFails
  <2>1. ReaderTypes'
    BY <1>5 DEF ReadFails, ReaderTypes, TypeInv
  <2>2. QED
    BY <1>5, <2>1, Frame DEF ReadFails, TypeInv
<1>6. CASE PutEvent \/ PutEnd
  <2>1. ReaderTypes'
    BY <1>6 DEF PutEvent, PutEnd, ReaderTypes, TypeInv
  <2>2. EventQueueTypes'
    <3>1. evq \in Seq(0..Len(doc)) /\ rpos \in 0..Len(doc) /\ END \in 0..Len(doc)
      BY <1>1 DEF TypeInv, ReaderTypes, EventQueueTypes, END
    <3>2. evq' \in Seq(0..Len(doc)) /\ Len(evq') = Len(evq) + 1
      <4>1. evq' = Append(evq, rpos) \/ evq' = Append(evq, END)
        BY <1>6 DEF PutEvent, PutEnd
      <4>2. CASE evq' = Append(evq, rpos)
        <5>1. Append(evq, rpos) \in Seq(0..Len(doc))
          BY <3>1, Appends
        <5>2. QED
          BY <3>1, <4>2, <5>1
      <4>3. CASE evq' = Append(evq, END)
        <5>1. Append(evq, END) \in Seq(0..Len(doc))
          BY <3>1, Appends
        <5>2. QED
          BY <3>1, <4>3, <5>1
      <4>4. QED
        BY <4>1, <4>2, <4>3
    <3>3. Len(evq) \in Nat /\ EventCap \in Nat /\ Len(evq) < EventCap
      BY <1>6, <3>1, SizesAssumption DEF PutEvent, PutEnd, HasRoom
    <3>4. Len(evq') <= EventCap
      BY <3>2, <3>3
    <3>5. UNCHANGED doc
      BY <1>6 DEF PutEvent, PutEnd
    <3>6. QED
      BY <3>2, <3>4, <3>5 DEF EventQueueTypes
  <2>3. QED
    BY <1>6, <2>1, <2>2, Frame DEF PutEvent, PutEnd, TypeInv
<1>7. CASE Flush
  <2>1. sent' \in Seq(1..Len(doc))
    BY <1>7, SendOrTypes DEF Flush, Rest, TypeInv, ReaderTypes, ResponseTypes
  <2>2. rpc' \in {"catch", "putEnd", "pass2", "close"}
    <3>1. mode \in {"readonly", "single", "twopass"}
      BY ShapeAssumption DEF TypeInv
    <3>2. CASE mode = "readonly"
      BY <1>7, <3>2 DEF Flush, SendOr
    <3>3. CASE mode = "single"
      BY <1>7, <3>3 DEF Flush, SendOr
    <3>4. CASE mode = "twopass"
      BY <1>7, <3>4 DEF Flush, SendOr
    <3>5. QED
      BY <3>1, <3>2, <3>3, <3>4
  <2>3. ReaderTypes'
    BY <1>7, <2>2 DEF Flush, TypeInv, ReaderTypes
  <2>4. ResponseTypes'
    BY <1>7, <2>1 DEF Flush, TypeInv, ResponseTypes
  <2>5. QED
    BY <1>7, <2>3, <2>4, Frame DEF Flush, TypeInv
<1>8. CASE StartPass2
  <2>1. ReaderTypes'
    BY <1>8 DEF StartPass2, ReaderTypes, TypeInv
  <2>2. WriterTypes'
    <3>1. Ids' = Ids
      BY <1>8 DEF StartPass2, Ids, Positions
    <3>2. QED
      BY <1>8, <3>1 DEF StartPass2, WriterTypes, TypeInv
  <2>3. OutputTypes'
    BY <1>8 DEF StartPass2, OutputTypes, TypeInv
  <2>4. QED
    BY <1>8, <2>1, <2>2, <2>3, Frame DEF StartPass2, TypeInv
<1>9. CASE JoinWriter
  <2>1. ReaderTypes'
    BY <1>9 DEF JoinWriter, AfterJoin, ReaderTypes, TypeInv
  <2>2. QED
    BY <1>9, <2>1, Frame DEF JoinWriter, TypeInv
<1>10. CASE ReaderInterrupted
  <2>1. ReaderTypes'
    BY <1>10 DEF ReaderInterrupted, ReaderTypes, TypeInv
  <2>2. QED
    BY <1>10, <2>1, Frame DEF ReaderInterrupted, TypeInv
<1>11. CASE CloseWriter
  <2>1. ReaderTypes'
    BY <1>11 DEF CloseWriter, ReaderTypes, TypeInv
  <2>2. OutputTypes'
    BY <1>11 DEF CloseWriter, OutputTypes, TypeInv
  <2>3. QED
    BY <1>11, <2>1, <2>2, Frame DEF CloseWriter, TypeInv
<1>12. CASE SendReadDone
  <2>1. ReaderTypes'
    BY <1>12 DEF SendReadDone, ReaderTypes, TypeInv
  <2>2. ResponseTypes'
    BY <1>12 DEF SendReadDone, ResponseTypes, TypeInv
  <2>3. EndTypes'
    BY <1>12 DEF SendReadDone, EndTypes, TypeInv
  <2>4. QED
    BY <1>12, <2>1, <2>2, <2>3, Frame DEF SendReadDone, TypeInv
<1>13. CASE Catch
  <2>1. ReaderTypes'
    BY <1>13 DEF Catch, ReaderTypes, TypeInv
  <2>2. OutputTypes'
    BY <1>13 DEF Catch, OutputTypes, TypeInv
  <2>3. EndTypes'
    BY <1>13 DEF Catch, EndTypes, TypeInv
  <2>4. QED
    BY <1>13, <2>1, <2>2, <2>3, Frame DEF Catch, TypeInv
<1>14. CASE ReleaseSlot
  <2>1. ReaderTypes'
    BY <1>14 DEF ReleaseSlot, ReaderTypes, TypeInv
  <2>2. EndTypes'
    BY <1>14 DEF ReleaseSlot, EndTypes, TypeInv
  <2>3. QED
    BY <1>14, <2>1, <2>2, Frame DEF ReleaseSlot, TypeInv
<1>15. CASE SendComplete
  <2>1. ReaderTypes'
    BY <1>15 DEF SendComplete, ReaderTypes, TypeInv
  <2>2. ResponseTypes'
    BY <1>15 DEF SendComplete, Answer, ResponseTypes, EndTypes, TypeInv
  <2>3. QED
    BY <1>15, <2>1, <2>2, Frame DEF SendComplete, TypeInv
<1>16. QED
  BY <1>2, <1>3, <1>4, <1>5, <1>6, <1>7, <1>8, <1>9, <1>10, <1>11, <1>12,
     <1>13, <1>14, <1>15 DEF Reader

(***************************************************************************)
(* Every step of the writer keeps the types.                               *)
(***************************************************************************)
LEMMA WriterTyped == TypeInv /\ Writer => TypeInv'
<1> SUFFICES ASSUME TypeInv, Writer PROVE TypeInv'
  OBVIOUS
<1> USE DEF readerVars, writerVars, respVars, reqVars, endVars
<1>1. doc \in Docs /\ Len(doc) \in Nat /\ Positions = 1..Len(doc)
  BY DocIsSeq DEF TypeInv
<1>2. UNCHANGED doc => Ids' = Ids
  BY DEF Ids, Positions
<1>3. CASE TakeEvent
  <2>1. evq \in Seq(0..Len(doc)) /\ evq # <<>> /\ evq' = Tail(evq)
        /\ Len(evq) <= EventCap /\ UNCHANGED <<doc, mode, client>>
    BY <1>3 DEF TakeEvent, TypeInv, EventQueueTypes
  <2>2. Head(evq) \in 0..Len(doc) /\ evq' \in Seq(0..Len(doc))
        /\ Len(evq') = Len(evq) - 1 /\ Len(evq) \in Nat
    BY <2>1, TailKeeps
  <2>3. Len(evq') <= EventCap
    BY <2>1, <2>2, SizesAssumption
  <2>4. EventQueueTypes'
    BY <2>1, <2>2, <2>3 DEF EventQueueTypes
  <2>5. WriterTypes'
    <3>1. CASE Head(evq) = END
      BY <1>2, <1>3, <3>1 DEF TakeEvent, TypeInv, WriterTypes
    <3>2. CASE Head(evq) # END
      <4>1. Head(evq) \in 1..Len(doc) /\ StartEvent(Head(evq))
        BY <1>1, <1>3, <2>2, <3>2 DEF TakeEvent, END
      <4>2. /\ wev' \in 1..Len(doc) /\ wseg' \in 0..Len(doc)
            /\ look' \in [Ids -> 0..Len(doc)] /\ wpc' \in {"find", "handle"}
        BY <1>1, <4>1, StartEventTypes DEF TypeInv
      <4>3. wev' \in 0..Len(doc) /\ wev' # 0
        BY <1>1, <4>2
      <4>4. eos' \in BOOLEAN
        BY <1>3 DEF TakeEvent, TypeInv, WriterTypes
      <4>5. QED
        BY <1>2, <2>1, <4>2, <4>3, <4>4 DEF WriterTypes
    <3>3. QED
      BY <3>1, <3>2
  <2>6. QED
    BY <1>3, <2>4, <2>5, Frame DEF TakeEvent, TypeInv
<1>4. CASE NextOfPass2
  <2>1. WriterTypes'
    <3>1. CASE wev = Len(doc)
      BY <1>2, <1>4, <3>1 DEF NextOfPass2, TypeInv, WriterTypes
    <3>2. CASE wev # Len(doc)
      <4>1. wev + 1 \in 1..Len(doc) /\ StartEvent(wev + 1)
        BY <1>1, <1>4, <3>2 DEF NextOfPass2, TypeInv, WriterTypes
      <4>2. /\ wev' \in 1..Len(doc) /\ wseg' \in 0..Len(doc)
            /\ look' \in [Ids -> 0..Len(doc)] /\ wpc' \in {"find", "handle"}
        BY <1>1, <4>1, StartEventTypes DEF TypeInv
      <4>3. wev' \in 0..Len(doc) /\ wev' # 0
        BY <1>1, <4>2
      <4>4. eos' \in BOOLEAN /\ UNCHANGED doc
        BY <1>4 DEF NextOfPass2, TypeInv, WriterTypes
      <4>5. QED
        BY <1>2, <4>2, <4>3, <4>4 DEF WriterTypes
    <3>3. QED
      BY <3>1, <3>2
  <2>2. QED
    BY <1>4, <2>1, Frame DEF NextOfPass2, TypeInv
<1>5. CASE PollTranslation
  <2>1. trq \in Seq(0..Len(doc)) /\ trq # <<>> /\ trq' = Tail(trq)
        /\ UNCHANGED doc
    BY <1>5 DEF PollTranslation, TypeInv, EntryQueueTypes
  <2>2. Head(trq) \in 0..Len(doc) /\ trq' \in Seq(0..Len(doc))
    BY <2>1, TailKeeps
  <2>3. EntryQueueTypes'
    BY <2>1, <2>2 DEF EntryQueueTypes
  <2>4. WriterTypes'
    <3>1. CASE Head(trq) = END
      BY <1>2, <1>5, <3>1 DEF PollTranslation, TypeInv, WriterTypes
    <3>2. CASE Head(trq) # END
      <4>1. Head(trq) \in 1..Len(doc)
        BY <1>1, <2>2, <3>2 DEF END
      <4>2. BlockId(Head(trq)) \in Ids /\ Segments(Head(trq)) \in 0..Len(doc)
        BY <1>1, <4>1, EntryTypes
      <4>3. wseg' \in 0..Len(doc) /\ wpc' \in {"find", "handle"}
        BY <1>5, <3>2, <4>2 DEF PollTranslation, TypeInv, WriterTypes
      <4>4. look' \in [Ids -> 0..Len(doc)]
        BY <1>5, <3>2, <4>2 DEF PollTranslation, Keep, TypeInv, WriterTypes
      <4>5. wev' = wev /\ wev # 0 /\ wev \in 0..Len(doc)
        BY <1>5 DEF PollTranslation, TypeInv, WriterTypes
      <4>6. eos' \in BOOLEAN
        BY <1>5, <3>2 DEF PollTranslation, TypeInv, WriterTypes
      <4>7. QED
        BY <1>2, <2>1, <4>3, <4>4, <4>5, <4>6 DEF WriterTypes
    <3>3. QED
      BY <3>1, <3>2
  <2>5. QED
    BY <1>5, <2>3, <2>4, Frame DEF PollTranslation, TypeInv
<1>6. CASE WriterSeesInterrupt
  <2>1. WriterTypes'
    BY <1>2, <1>6 DEF WriterSeesInterrupt, TypeInv, WriterTypes
  <2>2. QED
    BY <1>6, <2>1, Frame DEF WriterSeesInterrupt, TypeInv
<1>7. CASE HandleEvent
  <2>1. wev \in 1..Len(doc) /\ wseg \in 0..Len(doc)
    BY <1>1, <1>7 DEF HandleEvent, TypeInv, WriterTypes
  <2>2. WriterTypes'
    BY <1>2, <1>7 DEF HandleEvent, TypeInv, WriterTypes
  <2>3. out' \in Seq([ev : 1..Len(doc), seg : 0..Len(doc)])
    BY <1>7, <2>1, Appends DEF HandleEvent, TypeInv, OutputTypes
  <2>4. OutputTypes'
    BY <1>7, <2>3 DEF HandleEvent, TypeInv, OutputTypes
  <2>5. QED
    BY <1>7, <2>2, <2>4, Frame DEF HandleEvent, TypeInv
<1>8. CASE Pass2Fails
  <2>1. WriterTypes'
    BY <1>2, <1>8 DEF Pass2Fails, TypeInv, WriterTypes
  <2>2. QED
    BY <1>8, <2>1, Frame DEF Pass2Fails, TypeInv
<1>9. QED
  BY <1>3, <1>4, <1>5, <1>6, <1>7, <1>8 DEF Writer

(***************************************************************************)
(* The initial states are typed.                                           *)
(***************************************************************************)
LEMMA InitTyped == Init => TypeInv
<1> SUFFICES ASSUME Init PROVE TypeInv
  OBVIOUS
<1>1. doc \in Docs /\ Len(doc) \in Nat
  BY DocIsSeq DEF Init
<1>2. look \in [Ids -> 0..Len(doc)]
  BY <1>1 DEF Init
<1>3. WriterTypes
  <2>1. wpc = "off" /\ wev = 0 /\ wseg = 0 /\ eos = FALSE
    BY DEF Init
  <2>2. wev \in 0..Len(doc) /\ wseg \in 0..Len(doc)
    BY <1>1, <2>1
  <2>3. QED
    BY <1>2, <2>1, <2>2 DEF WriterTypes
<1>4. EventQueueTypes
  BY SizesAssumption DEF Init, EventQueueTypes
<1>5. ReaderTypes /\ EntryQueueTypes
  BY <1>1 DEF Init, ReaderTypes, EntryQueueTypes
<1>6. OutputTypes /\ ResponseTypes
  BY EmptyTyped DEF Init, OutputTypes, ResponseTypes
<1>7. RequestTypes /\ EndTypes
  BY DEF Init, RequestTypes, EndTypes
<1>8. QED
  BY <1>3, <1>4, <1>5, <1>6, <1>7 DEF Init, TypeInv

(***************************************************************************)
(* Every step keeps the types.                                             *)
(***************************************************************************)
LEMMA NextTyped == TypeInv /\ [Next]_vars => TypeInv'
<1> SUFFICES ASSUME TypeInv, [Next]_vars PROVE TypeInv'
  OBVIOUS
<1> USE DEF readerVars, writerVars, respVars, reqVars, endVars
<1>1. doc \in Docs /\ Len(doc) \in Nat /\ Positions = 1..Len(doc)
  BY DocIsSeq DEF TypeInv
<1>2. UNCHANGED doc => Ids' = Ids
  BY DEF Ids, Positions
<1>3. CASE StuckTimeout
  <2>1. WriterTypes'
    BY <1>2, <1>3 DEF StuckTimeout, TypeInv, WriterTypes
  <2>2. QED
    BY <1>3, <2>1, Frame DEF StuckTimeout, TypeInv
<1>4. ASSUME NEW p \in Positions, OnContentBlock(p) PROVE TypeInv'
  <2>1. p \in 1..Len(doc) /\ p \in 0..Len(doc)
    BY <1>1
  <2>2. EntryQueueTypes'
    BY <1>4, <2>1, Concats DEF OnContentBlock, Entry, TypeInv, EntryQueueTypes
  <2>3. RequestTypes'
    BY <1>4, <2>1 DEF OnContentBlock, TypeInv, RequestTypes
  <2>4. QED
    BY <1>4, <2>2, <2>3, Frame DEF OnContentBlock, TypeInv
<1>5. ASSUME OnCompleted \/ OnError PROVE TypeInv'
  <2>1. END \in 0..Len(doc)
    BY <1>1 DEF END
  <2>2. EntryQueueTypes'
    <3>1. trq \in Seq(0..Len(doc))
      BY DEF TypeInv, EntryQueueTypes
    <3>2. trq' \in {Append(trq, END), trq, <<END>>} /\ UNCHANGED doc
      BY <1>5 DEF OnCompleted, OnError
    <3>3. Append(trq, END) \in Seq(0..Len(doc)) /\ <<END>> \in Seq(0..Len(doc))
      BY <2>1, <3>1, Appends
    <3>4. QED
      BY <3>1, <3>2, <3>3 DEF EntryQueueTypes
  <2>3. RequestTypes'
    BY <1>5 DEF OnCompleted, OnError, TypeInv, RequestTypes
  <2>4. QED
    BY <1>5, <2>2, <2>3, Frame DEF OnCompleted, OnError, TypeInv
<1>6. CASE Shutdown
  <2>1. EndTypes'
    BY <1>6 DEF Shutdown, TypeInv, EndTypes
  <2>2. QED
    BY <1>6, <2>1, Frame DEF Shutdown, TypeInv
<1>7. CASE UNCHANGED vars
  BY <1>7, Frame DEF vars, TypeInv
<1>8. QED
  BY <1>3, <1>4, <1>5, <1>6, <1>7, ReaderTyped, WriterTyped DEF Next, Requests

(***************************************************************************)
(* Every variable keeps its type, and what each queue, batch and lookahead *)
(* holds is a position of the document, whatever the interleaving.         *)
(***************************************************************************)
THEOREM TypeCorrect == Spec => []TypeOK
<1>1. TypeInv => TypeOK
  BY DEF TypeInv, TypeOK, ReaderTypes, EventQueueTypes, WriterTypes,
         EntryQueueTypes, OutputTypes, ResponseTypes, RequestTypes, EndTypes
<1>2. QED
  BY InitTyped, NextTyped, <1>1, PTL DEF Spec

-----------------------------------------------------------------------------
(* The reader and the writer do not wait for each other.                     *)

\* The pipeline thread still reads and hands over events.
Filling == rpc \in {"open", "read", "convert", "put"}

\* How many events are converted, and how many are in or past the event queue.
NConverted == IF rpc = "convert" THEN rpos - 1 ELSE rpos
NPut == IF rpc \in {"convert", "put"} THEN rpos - 1 ELSE rpos

\* The unsent blocks are among the last converted, fewer than a batch.
BatchIsRecent ==
  Filling =>
    /\ Len(batch) < BatchSize
    /\ \A i \in DOMAIN batch : batch[i] >= NConverted - Len(batch) + i

\* Only the last events put are still queued, and the writer's is an older one.
QueueIsRecent ==
  Filling /\ mode = "single" =>
    /\ \A i \in DOMAIN evq : evq[i] <= NPut - Len(evq) + i
    /\ wpc \in {"find", "handle"} => wev <= NPut - Len(evq)

PutIsSingle == rpc = "put" => mode = "single"

QueueInv == QueueIsRecent /\ PutIsSingle

AllSent == \A d \in Docs : \A p \in DOMAIN d : d[p].kind \in SentKinds

(***************************************************************************)
(* Taking the head of a sequence bounded from above along its end leaves   *)
(* the tail bounded the same way, and the head by the length that is left. *)
(***************************************************************************)
LEMMA TailBound ==
  ASSUME NEW q \in Seq(Int), q # <<>>, NEW n \in Int,
         \A i \in DOMAIN q : q[i] <= n - Len(q) + i
  PROVE  /\ Head(q) <= n - Len(Tail(q))
         /\ \A i \in DOMAIN Tail(q) : Tail(q)[i] <= n - Len(Tail(q)) + i
<1>1. Len(q) \in Nat /\ Len(q) > 0 /\ Len(Tail(q)) = Len(q) - 1
  OBVIOUS
<1>2. 1 \in DOMAIN q /\ Head(q) = q[1] /\ q[1] \in Int
  BY <1>1
<1>3. Head(q) <= n - Len(Tail(q))
  BY <1>1, <1>2
<1>4. ASSUME NEW i \in DOMAIN Tail(q) PROVE Tail(q)[i] <= n - Len(Tail(q)) + i
  <2>1. i \in 1..Len(q) - 1 /\ i + 1 \in DOMAIN q /\ Tail(q)[i] = q[i + 1]
    BY <1>1, <1>4
  <2>2. q[i + 1] \in Int /\ q[i + 1] <= n - Len(q) + (i + 1)
    BY <2>1
  <2>3. QED
    BY <1>1, <2>1, <2>2
<1>5. QED
  BY <1>3, <1>4

(***************************************************************************)
(* Putting the event read last keeps the queue bounded.                    *)
(***************************************************************************)
LEMMA AppendBound ==
  ASSUME NEW q \in Seq(Int), NEW n \in Int,
         \A i \in DOMAIN q : q[i] <= (n - 1) - Len(q) + i
  PROVE  \A i \in DOMAIN Append(q, n) :
           Append(q, n)[i] <= n - Len(Append(q, n)) + i
<1>1. Len(q) \in Nat /\ Len(Append(q, n)) = Len(q) + 1
  OBVIOUS
<1> SUFFICES ASSUME NEW i \in DOMAIN Append(q, n)
             PROVE  Append(q, n)[i] <= n - Len(Append(q, n)) + i
  OBVIOUS
<1>2. i \in 1..Len(q) + 1
  BY <1>1
<1>3. CASE i = Len(q) + 1
  <2>1. Append(q, n)[i] = n
    BY <1>3
  <2>2. QED
    BY <1>1, <1>3, <2>1
<1>4. CASE i # Len(q) + 1
  <2>1. i \in DOMAIN q /\ Append(q, n)[i] = q[i] /\ q[i] \in Int /\ i \in Int
    BY <1>1, <1>2, <1>4
  <2>2. QED
    BY <1>1, <2>1
<1>5. QED
  BY <1>3, <1>4

(***************************************************************************)
(* A batch that gets the event converted last stays recent.                *)
(***************************************************************************)
LEMMA BatchBound ==
  ASSUME NEW q \in Seq(Int), NEW n \in Int,
         \A i \in DOMAIN q : q[i] >= (n - 1) - Len(q) + i
  PROVE  \A i \in DOMAIN Append(q, n) :
           Append(q, n)[i] >= n - Len(Append(q, n)) + i
<1>1. Len(q) \in Nat /\ Len(Append(q, n)) = Len(q) + 1
  OBVIOUS
<1> SUFFICES ASSUME NEW i \in DOMAIN Append(q, n)
             PROVE  Append(q, n)[i] >= n - Len(Append(q, n)) + i
  OBVIOUS
<1>2. i \in 1..Len(q) + 1
  BY <1>1
<1>3. CASE i = Len(q) + 1
  <2>1. Append(q, n)[i] = n
    BY <1>3
  <2>2. QED
    BY <1>1, <1>3, <2>1
<1>4. CASE i # Len(q) + 1
  <2>1. i \in DOMAIN q /\ Append(q, n)[i] = q[i] /\ q[i] \in Int /\ i \in Int
    BY <1>1, <1>2, <1>4
  <2>2. QED
    BY <1>1, <2>1
<1>5. QED
  BY <1>3, <1>4

(***************************************************************************)
(* The types the arithmetic below needs.                                   *)
(***************************************************************************)
LEMMA Numbers ==
  ASSUME TypeInv
  PROVE  /\ rpos \in Int /\ wev \in Int
         /\ batch \in Seq(Int) /\ Len(batch) \in Nat
         /\ evq \in Seq(Int) /\ Len(evq) \in Nat
         /\ BatchSize \in Int /\ BatchSize > 0 /\ EventCap \in Int
<1>1. Len(doc) \in Nat
  BY DocIsSeq DEF TypeInv
<1>2. rpos \in Int /\ wev \in Int
  BY <1>1 DEF TypeInv, ReaderTypes, WriterTypes
<1>3. batch \in Seq(Int) /\ Len(batch) \in Nat
  BY <1>1 DEF TypeInv, ReaderTypes
<1>4. evq \in Seq(Int) /\ Len(evq) \in Nat
  BY <1>1 DEF TypeInv, EventQueueTypes
<1>5. QED
  BY <1>2, <1>3, <1>4, SizesAssumption

(***************************************************************************)
(* What the pipeline thread does once it stops handing over events.        *)
(***************************************************************************)
LEMMA StopsFilling ==
  ASSUME TypeInv, Reader, ~(Open \/ NextEvent \/ ConvertEvent \/ PutEvent)
  PROVE  ~Filling'
<1>1. CASE Flush
  BY <1>1, ShapeAssumption DEF Flush, SendOr, Filling, TypeInv
<1>2. CASE ReadFails \/ PutEnd \/ StartPass2 \/ JoinWriter \/ ReaderInterrupted
  BY <1>2 DEF ReadFails, PutEnd, StartPass2, JoinWriter, AfterJoin, ReaderInterrupted,
             Filling
<1>3. CASE CloseWriter \/ SendReadDone \/ Catch \/ ReleaseSlot \/ SendComplete
  BY <1>3 DEF CloseWriter, SendReadDone, Catch, ReleaseSlot, SendComplete, Filling
<1>4. QED
  BY <1>1, <1>2, <1>3 DEF Reader

(***************************************************************************)
(* After a conversion the pipeline thread puts the event, reads on, or     *)
(* gives up.                                                               *)
(***************************************************************************)
LEMMA AfterConvert ==
  ASSUME ConvertEvent
  PROVE  rpc' \in {"catch", IF mode = "single" THEN "put" ELSE "read"}
<1>1. PICK c : SendOr(c, IF mode = "single" THEN "put" ELSE "read")
  BY DEF ConvertEvent
<1>2. QED
  BY <1>1 DEF SendOr

(***************************************************************************)
(* No step of the pipeline thread lets an event into the queue before its  *)
(* time.                                                                   *)
(***************************************************************************)
LEMMA ReaderQueue ==
  ASSUME TypeInv, QueueInv, Reader PROVE QueueInv'
<1> USE DEF readerVars, writerVars, respVars, reqVars, endVars
<1>1. CASE Open
  <2>1. rpc = "open" /\ rpc' \in {"read", "catch"}
        /\ UNCHANGED <<mode, rpos, evq, wev>> /\ (wpc' = "poll" \/ wpc' = wpc)
    BY <1>1 DEF Open
  <2>2. QED
    BY <2>1 DEF QueueInv, QueueIsRecent, PutIsSingle, Filling, NPut
<1>2. CASE NextEvent
  <2>1. rpc = "read" /\ rpc' = "convert" /\ rpos' = rpos + 1
        /\ UNCHANGED <<mode, evq, wpc, wev>>
    BY <1>2 DEF NextEvent
  <2>2. NPut' = NPut /\ Filling
    BY <2>1, Numbers DEF NPut, Filling
  <2>3. QED
    BY <2>1, <2>2 DEF QueueInv, QueueIsRecent, PutIsSingle
<1>3. CASE ConvertEvent
  <2>1. rpc = "convert" /\ UNCHANGED <<mode, rpos, evq, wpc, wev>>
    BY <1>3 DEF ConvertEvent
  <2>2. Filling /\ (mode = "single" /\ Filling' => NPut' = NPut)
    BY <1>3, <2>1, AfterConvert DEF Filling, NPut
  <2>3. QueueIsRecent'
    BY <2>1, <2>2 DEF QueueInv, QueueIsRecent
  <2>4. PutIsSingle'
    BY <1>3, <2>1, AfterConvert DEF PutIsSingle
  <2>5. QED
    BY <2>3, <2>4 DEF QueueInv
<1>4. CASE PutEvent
  <2>1. rpc = "put" /\ rpc' = "read" /\ evq' = Append(evq, rpos)
        /\ UNCHANGED <<mode, rpos, wpc, wev>>
    BY <1>4 DEF PutEvent
  <2>2. /\ NPut = rpos - 1 /\ NPut' = rpos /\ Filling /\ mode = "single"
    BY <2>1 DEF NPut, Filling, QueueInv, PutIsSingle
  <2>3. \A i \in DOMAIN evq : evq[i] <= (rpos - 1) - Len(evq) + i
    BY <2>2 DEF QueueInv, QueueIsRecent
  <2>4. \A i \in DOMAIN evq' : evq'[i] <= NPut' - Len(evq') + i
    BY <2>1, <2>2, <2>3, AppendBound, Numbers
  <2>5. wpc' \in {"find", "handle"} => wev' <= NPut' - Len(evq')
    <3>1. Len(evq') = Len(evq) + 1
      BY <2>1, Numbers
    <3>2. wpc \in {"find", "handle"} => wev <= NPut - Len(evq)
      BY <2>2 DEF QueueInv, QueueIsRecent
    <3>3. QED
      BY <2>1, <2>2, <3>1, <3>2, Numbers
  <2>6. QED
    BY <2>1, <2>4, <2>5 DEF QueueInv, QueueIsRecent, PutIsSingle
<1>5. CASE ~(Open \/ NextEvent \/ ConvertEvent \/ PutEvent)
  BY <1>5, StopsFilling DEF QueueInv, QueueIsRecent, PutIsSingle, Filling
<1>6. QED
  BY <1>1, <1>2, <1>3, <1>4, <1>5

(***************************************************************************)
(* Where every part is sent, no step of the pipeline thread leaves an old  *)
(* block in the batch.                                                     *)
(***************************************************************************)
LEMMA ReaderBatch ==
  ASSUME TypeInv, BatchIsRecent, Reader, AllSent PROVE BatchIsRecent'
<1> USE DEF readerVars, writerVars, respVars, reqVars, endVars
<1>1. CASE Open
  <2>1. rpc = "open" /\ rpc' \in {"read", "catch"} /\ UNCHANGED <<rpos, batch>>
    BY <1>1 DEF Open
  <2>2. QED
    BY <2>1 DEF BatchIsRecent, Filling, NConverted
<1>2. CASE NextEvent
  <2>1. rpc = "read" /\ rpc' = "convert" /\ rpos' = rpos + 1 /\ UNCHANGED batch
    BY <1>2 DEF NextEvent
  <2>2. NConverted' = NConverted /\ Filling
    BY <2>1, Numbers DEF NConverted, Filling
  <2>3. QED
    BY <2>1, <2>2 DEF BatchIsRecent
<1>3. CASE ConvertEvent
  <2> DEFINE b == Append(batch, rpos)
  <2>1. Wanted(rpos)
    <3>1. doc \in Docs /\ Len(doc) \in Nat /\ Positions = 1..Len(doc)
      BY DocIsSeq DEF TypeInv
    <3>2. rpos \in DOMAIN doc
      BY <1>3, <3>1 DEF ConvertEvent, TypeInv, ReaderTypes, Positions
    <3>3. QED
      BY <3>1, <3>2 DEF AllSent, Wanted
  <2>2. rpc = "convert" /\ UNCHANGED rpos
        /\ batch' = IF Full(b) THEN <<>> ELSE b
    BY <1>3, <2>1 DEF ConvertEvent
  <2>3. /\ Filling /\ NConverted = rpos - 1
        /\ Filling' => NConverted' = rpos
    BY <1>3, <2>2, AfterConvert DEF Filling, NConverted
  <2>4. \A i \in DOMAIN b : b[i] >= rpos - Len(b) + i
    BY <2>3, BatchBound, Numbers DEF BatchIsRecent
  <2>5. CASE Full(b)
    <3>1. batch' = <<>> /\ Len(batch') = 0 /\ DOMAIN batch' = {}
      BY <2>2, <2>5
    <3>2. QED
      BY <3>1, Numbers DEF BatchIsRecent
  <2>6. CASE ~Full(b)
    <3>1. batch' = b /\ Len(b) < BatchSize
      BY <2>2, <2>6, Numbers DEF Full
    <3> HIDE DEF b
    <3>2. QED
      BY <2>3, <2>4, <3>1 DEF BatchIsRecent
  <2>7. QED
    BY <2>5, <2>6
<1>4. CASE PutEvent
  <2>1. rpc = "put" /\ rpc' = "read" /\ UNCHANGED <<rpos, batch>>
    BY <1>4 DEF PutEvent
  <2>2. QED
    BY <2>1 DEF BatchIsRecent, Filling, NConverted
<1>5. CASE ~(Open \/ NextEvent \/ ConvertEvent \/ PutEvent)
  BY <1>5, StopsFilling DEF BatchIsRecent
<1>6. QED
  BY <1>1, <1>2, <1>3, <1>4, <1>5

(***************************************************************************)
(* No step of the writer disturbs the queue or the batch.                  *)
(***************************************************************************)
LEMMA WriterQueue ==
  ASSUME TypeInv, QueueInv, Writer
  PROVE  QueueInv' /\ UNCHANGED <<rpc, rpos, batch>>
<1> USE DEF readerVars, writerVars, respVars, reqVars, endVars
<1>1. UNCHANGED <<mode, rpc, rpos, batch>>
  BY DEF Writer, TakeEvent, NextOfPass2, PollTranslation, WriterSeesInterrupt,
         HandleEvent, Pass2Fails
<1>2. PutIsSingle' /\ Filling' = Filling /\ NPut' = NPut
  BY <1>1 DEF QueueInv, PutIsSingle, Filling, NPut
<1>3. QueueIsRecent'
  <2> SUFFICES ASSUME Filling, mode = "single" PROVE
        /\ \A i \in DOMAIN evq' : evq'[i] <= NPut - Len(evq') + i
        /\ wpc' \in {"find", "handle"} => wev' <= NPut - Len(evq')
    BY <1>1, <1>2 DEF QueueIsRecent
  <2>1. /\ \A i \in DOMAIN evq : evq[i] <= NPut - Len(evq) + i
        /\ wpc \in {"find", "handle"} => wev <= NPut - Len(evq)
    BY DEF QueueInv, QueueIsRecent
  <2>2. CASE TakeEvent
    <3>1. evq \in Seq(Int) /\ evq # <<>> /\ NPut \in Int /\ evq' = Tail(evq)
      BY <2>2, Numbers DEF TakeEvent, NPut
    <3>2. /\ Head(evq) <= NPut - Len(evq')
          /\ \A i \in DOMAIN evq' : evq'[i] <= NPut - Len(evq') + i
      BY <2>1, <3>1, TailBound
    <3>3. wpc' \in {"find", "handle"} => wev' = Head(evq)
      BY <2>2 DEF TakeEvent, StartEvent
    <3>4. QED
      BY <3>2, <3>3
  <2>3. CASE PollTranslation
    BY <2>1, <2>3 DEF PollTranslation
  <2>4. CASE WriterSeesInterrupt \/ HandleEvent
    BY <2>1, <2>4 DEF WriterSeesInterrupt, HandleEvent
  <2>5. QED
    BY <2>2, <2>3, <2>4 DEF Writer, NextOfPass2, Pass2Fails
<1>4. QED
  BY <1>1, <1>2, <1>3 DEF QueueInv

(***************************************************************************)
(* The event queue as an inductive invariant of its own.                   *)
(***************************************************************************)
LEMMA InitQueue == Init => QueueInv
  BY DEF Init, QueueInv, QueueIsRecent, PutIsSingle

LEMMA OthersKeep ==
  ASSUME [Next]_vars, ~Reader, ~Writer
  PROVE  /\ UNCHANGED <<mode, rpc, rpos, batch, evq, wev>>
         /\ wpc' \in {"find", "handle"} => wpc' = wpc
BY DEF Next, StuckTimeout, Requests, OnContentBlock, OnCompleted, OnError,
       Shutdown, vars, readerVars, writerVars

LEMMA NextQueue == TypeInv /\ QueueInv /\ [Next]_vars => QueueInv'
<1> SUFFICES ASSUME TypeInv, QueueInv, [Next]_vars, ~Reader, ~Writer
             PROVE  QueueInv'
  BY ReaderQueue, WriterQueue
<1>1. QED
  BY OthersKeep DEF QueueInv, QueueIsRecent, PutIsSingle, Filling, NPut

(***************************************************************************)
(* The reader converts an event before it hands it to the writer: the two  *)
(* threads are never at work on the same event.                            *)
(***************************************************************************)
THEOREM EventsAreNotShared == Spec => []NoSharedIteration
<1>1. TypeInv /\ QueueInv => NoSharedIteration
  <2> SUFFICES ASSUME TypeInv, QueueInv, mode = "single",
                      wpc \in {"find", "handle"}, rpc = "convert"
               PROVE  wev # rpos
    BY DEF NoSharedIteration
  <2>1. NPut = rpos - 1 /\ wev <= NPut - Len(evq)
    BY DEF NPut, Filling, QueueInv, QueueIsRecent
  <2>2. QED
    BY <2>1, Numbers
<1>2. QED
  BY InitTyped, NextTyped, InitQueue, NextQueue, <1>1, PTL DEF Spec

(***************************************************************************)
(* When every part is sent and the batch is at most two longer than the    *)
(* event queue, the reader never blocks on a full queue while the writer   *)
(* waits for a block that is still in the batch: what the comment at       *)
(* EVENT_QUEUE_CAPACITY asks for, with the exact bound.                    *)
(***************************************************************************)
THEOREM UnsentNeverStarves ==
  ASSUME AllSent, BatchSize <= EventCap + 2
  PROVE  Spec => []NoUnsentStarvation
<1>1. Init => BatchIsRecent
  BY SizesAssumption DEF Init, BatchIsRecent
<1>2. TypeInv /\ QueueInv /\ BatchIsRecent /\ [Next]_vars => BatchIsRecent'
  <2> SUFFICES ASSUME TypeInv, QueueInv, BatchIsRecent, [Next]_vars, ~Reader
               PROVE  BatchIsRecent'
    BY ReaderBatch
  <2>1. UNCHANGED <<rpc, rpos, batch>>
    BY WriterQueue, OthersKeep
  <2>2. QED
    BY <2>1 DEF BatchIsRecent, Filling, NConverted
<1>3. TypeInv /\ QueueInv /\ BatchIsRecent => NoUnsentStarvation
  <2> SUFFICES ASSUME TypeInv, QueueInv, BatchIsRecent,
                      rpc = "put", ~HasRoom, wpc = "find",
                      NEW i \in DOMAIN batch, batch[i] = wev
               PROVE  FALSE
    BY DEF NoUnsentStarvation
  <2>1. Filling /\ mode = "single" /\ NPut = rpos - 1 /\ NConverted = rpos
    BY DEF Filling, QueueInv, PutIsSingle, NPut, NConverted
  <2>2. Len(batch) < BatchSize /\ batch[i] >= rpos - Len(batch) + i
    BY <2>1 DEF BatchIsRecent
  <2>3. wev <= rpos - 1 - Len(evq)
    BY <2>1 DEF QueueInv, QueueIsRecent
  <2>4. Len(evq) >= EventCap /\ i \in Int /\ i >= 1
    BY Numbers DEF HasRoom
  <2>5. QED
    BY <2>2, <2>3, <2>4, Numbers
<1>4. QED
  BY InitTyped, NextTyped, InitQueue, NextQueue, <1>1, <1>2, <1>3, PTL
    DEF Spec
=============================================================================
