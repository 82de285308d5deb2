------------------------ MODULE PipelineOutputProofs ------------------------
(* Proofs about what ProcessPipeline writes, when it frees its slot, that it *)
(* implements DocumentCycle - for all documents if the clients answer in     *)
(* order, else for those whose blocks have ids of their own - and that it is *)
(* the call BridgeServer takes it for.                                       *)
EXTENDS ProcessPipelineProofs

Stopped == {"off", "done", "failed"}
Working == {"find", "handle"}

-----------------------------------------------------------------------------
(* The invariants.                                                           *)

\* Which writer runs next to which part of the pipeline thread.
ModeInv ==
  /\ rpc = "open" => wpc = "off"
  /\ mode = "readonly" => wpc = "off"
  /\ mode = "twopass" /\ rpc \in {"read", "convert", "pass2"} => wpc = "off"
  /\ rpc = "pass2" => mode = "twopass"
  /\ rpc \in {"put", "putEnd"} => mode = "single"
  /\ rpc = "join" => mode # "readonly"

\* Past the join there is no writer at work, unless the pipeline thread gave up.
IdleInv ==
  /\ ~cancelled /\ intr = {}
  /\ rpc \in {"close", "readDone", "catch", "release", "complete", "done"} =>
       wpc \in Stopped
  /\ slot = "free" => rpc \in {"complete", "done"}

\* The event queue continues where the writer is, and ends with the document.
Putting == Filling \/ rpc = "putEnd"
EventOrder ==
  mode = "single" =>
    /\ Putting => wev + Len(evq) = NPut /\ \A i \in DOMAIN evq : evq[i] = wev + i
    /\ rpc = "putEnd" => rpos = Len(doc)
    /\ wpc # "done" =>
         \A i \in DOMAIN evq :
           evq[i] = wev + i \/ (evq[i] = END /\ wev + i = Len(doc) + 1)

\* The output is what the writer has started, up to the event at hand.
OutputOrder ==
  /\ wpc = "off" => wev = 0 /\ out = <<>>
  /\ wpc = "poll" => Len(out) = wev
  /\ wpc \in Working => Len(out) + 1 = wev
  /\ wpc = "find" => IsTU(wev)
  /\ wpc = "done" => Len(out) = Len(doc)

OrderInv == EventOrder /\ OutputOrder

\* The lookahead and the writer hold a block's own translation, or none.
OwnSegments ==
  /\ \A p \in Positions : IsTU(p) => look[BlockId(p)] \in {0, Segments(p)}
  /\ wpc \in Working => wseg \in {0, Segments(wev)}
  /\ \A i \in DOMAIN out : out[i].ev = i /\ out[i].seg \in {0, i}

\* No answer to a block the writer still has to write is lost, but to a cancel.
Reached(p) == p < wev \/ (p = wev /\ wpc # "find")
Served ==
  /\ \A p \in echoed :
       Segments(p) # 0 =>
         p \in Range(trq) \/ look[BlockId(p)] = p \/ Reached(p) \/ cancelled
  /\ wpc = "find" => look[BlockId(wev)] = 0

\* Two blocks of a document have different ids, and none has the id the model
\* gives to events that are no blocks.
DistinctIds ==
  \A d \in Docs : \A p, q \in DOMAIN d :
    d[p].kind = "tu" /\ d[q].kind = "tu" /\ d[p].id = d[q].id => p = q
NamedBlocks ==
  \A d \in Docs : \A p \in DOMAIN d : d[p].kind = "tu" => d[p].id # NoId

\* Every client answers the blocks in the order of the document.
InOrder == "reorder" \notin Clients /\ NamedBlocks

\* Every block has a translation to come back with.
AllTranslatable ==
  \/ Clients \subseteq {"writer"}
  \/ \A d \in Docs : \A p \in DOMAIN d : d[p].kind = "tu" => d[p].translatable

\* A stream that ended well has gone the whole way.
DoneInv ==
  /\ rpc \in {"close", "readDone"} \/ verdict = "ok" =>
       IF mode = "readonly" THEN wpc = "off" ELSE wpc = "done"
  /\ readDone => verdict = "ok"
  /\ verdict = "ok" => rpc \in {"release", "complete", "done"}
  /\ complete = "ok" => verdict = "ok" /\ rpc = "done" /\ ~cancelled

\* The end of the requests comes after every entry, and not before its time.
EndInv ==
  /\ intr = {}
  /\ ~cancelled =>
       /\ ~eos
       /\ \A i \in DOMAIN trq : trq[i] = END => i = Len(trq) /\ halfClosed
       /\ halfClosed /\ mode # "readonly" =>
            IF client = "writer" THEN {p \in Positions : IsTU(p)} \subseteq echoed
                                 ELSE readDone

\* Each event is written with its own translation.
Translated ==
  ~cancelled =>
    /\ \A i \in DOMAIN out : out[i].seg = Segments(i)
    /\ wpc = "handle" => wseg = Segments(wev)

\* The client's parts, sent or still in the batch, are those of the events
\* converted so far; past the last flush none is left in the batch.
Converted == IF rpc = "convert" THEN rpos - 1 ELSE rpos
SentInv ==
  /\ rpc \in {"open", "read", "convert", "put"} =>
       Cycle!Lists(sent \o batch, Converted) /\ Len(sent \o batch) <= Converted
  /\ rpc \in {"putEnd", "pass2", "join", "close", "readDone"} \/ verdict = "ok" =>
       Cycle!Lists(sent, Len(doc))
  /\ rpc \in {"release", "complete", "done"} => verdict # "none"

\* Only parts are sent, and none before the ones of earlier events.
SentFirst ==
  /\ Range(sent) \subseteq Cycle!Parts
  /\ \A q \in Range(sent), p \in Cycle!Parts : p < q => p \in Range(sent)

\* The end of the answers is in the queue until the writer has met it.
StreamEnd ==
  /\ wpc = "find" => ~eos
  /\ cancelled \/ halfClosed => eos \/ END \in Range(trq)
  /\ END \in Range(trq) => cancelled \/ halfClosed

\* The blocks the client answers, and a queue in the order of the document.
Asked == IF client = "writer" THEN {p \in Positions : IsTU(p)} ELSE Cycle!Parts
Ascending(q) ==
  \A i, j \in DOMAIN q : i < j => q[i] # END /\ (q[j] = END \/ q[i] < q[j])

\* A client that answers in order has no answer overtake another: the writer has
\* taken the answers to just the blocks it has reached, and the lookahead stays
\* empty.
Ordered ==
  /\ echoed \subseteq Asked
  /\ \A p \in echoed, q \in Asked : q < p => q \in echoed
  /\ Ascending(trq) /\ Range(trq) \subseteq echoed \cup {END}
  /\ \A id \in Ids : look[id] = 0
  /\ ~eos /\ wpc # "failed" =>
       \A p \in Positions : IsTU(p) /\ Reached(p) => p \in echoed /\ p \notin Range(trq)
  /\ \A p \in echoed :
       IsTU(p) => p \in Range(trq) \/ Reached(p) \/ (cancelled /\ Range(trq) \subseteq {END})

\* What was answered was sent, wherever the answer is by now.
HeldInv ==
  /\ echoed \subseteq Range(sent)
  /\ Range(trq) \subseteq Range(sent) \cup {END}
  /\ \A id \in Ids : look[id] \in Range(sent) \cup {0}
  /\ wseg \in Range(sent) \cup {0}

-----------------------------------------------------------------------------
(* What the steps of the actors leave alone.                                 *)

(***************************************************************************)
(* The pipeline thread touches the writer only to start it.                *)
(***************************************************************************)
LEMMA ReaderKeeps ==
  ASSUME Reader
  PROVE  /\ UNCHANGED <<doc, mode, client, wev, wseg, look, eos, trq, out,
                        echoed, halfClosed, cancelled, intr>>
         /\ wpc' = wpc \/ (wpc' = "poll" /\ rpc \in {"open", "pass2"})
BY DEF Reader, Open, NextEvent, ConvertEvent, ReadFails, PutEvent, Flush, PutEnd,
       StartPass2, JoinWriter, ReaderInterrupted, CloseWriter, SendReadDone,
       Catch, ReleaseSlot, SendComplete, writerVars, respVars, reqVars, endVars

(***************************************************************************)
(* The writer touches nothing of the other actors but their queues, and    *)
(* does nothing once it has stopped.                                       *)
(***************************************************************************)
LEMMA WriterKeeps ==
  ASSUME Writer
  PROVE  /\ UNCHANGED <<doc, mode, client, rpc, rpos, batch, sent, readDone,
                        complete, echoed, halfClosed, cancelled, verdict, slot, intr>>
         /\ wpc \notin Stopped /\ wpc' # "off"
BY DEF Writer, TakeEvent, NextOfPass2, PollTranslation, WriterSeesInterrupt,
       HandleEvent, Pass2Fails, StartEvent, Stopped, readerVars, writerVars,
       respVars, reqVars, endVars

(***************************************************************************)
(* Timeouts, requests, cancellation and shutdown end the writer, or let it *)
(* be.                                                                     *)
(***************************************************************************)
LEMMA OthersLeave ==
  ASSUME [Next]_vars, ~Reader, ~Writer
  PROVE  /\ UNCHANGED <<doc, mode, client, rpc, rpos, batch, evq, wev, wseg, look, eos,
                        out, sent, readDone, complete, verdict, slot>>
         /\ wpc' = wpc \/ (wpc' = "failed" /\ wpc \in {"find", "poll"})
BY DEF Next, StuckTimeout, NoTranslation, NoEvent, Requests, OnContentBlock,
       OnCompleted, OnError, Shutdown, vars, readerVars, writerVars, respVars,
       reqVars, endVars

(***************************************************************************)
(* The shapes of the pipeline fix which writer there can be.               *)
(***************************************************************************)
LEMMA InitMode == Init => ModeInv
  BY DEF Init, ModeInv

LEMMA NextMode == TypeInv /\ ModeInv /\ [Next]_vars => ModeInv'
<1> SUFFICES ASSUME TypeInv, ModeInv, [Next]_vars PROVE ModeInv'
  OBVIOUS
<1> USE DEF readerVars, writerVars, respVars, reqVars, endVars
<1>0. mode \in {"readonly", "single", "twopass"}
  BY ShapeAssumption DEF TypeInv
<1>1. CASE Open
  BY <1>0, <1>1 DEF Open, ModeInv
<1>2. CASE NextEvent \/ ReadFails \/ PutEvent
  BY <1>2 DEF NextEvent, ReadFails, PutEvent, ModeInv
<1>3. CASE ConvertEvent
  BY <1>0, <1>3, AfterConvert DEF ConvertEvent, ModeInv
<1>4. CASE Flush
  BY <1>0, <1>4 DEF Flush, SendOr, ModeInv
<1>5. CASE PutEnd \/ StartPass2 \/ JoinWriter \/ ReaderInterrupted
  BY <1>5 DEF PutEnd, StartPass2, JoinWriter, AfterJoin, ReaderInterrupted, ModeInv
<1>6. CASE CloseWriter \/ SendReadDone \/ Catch \/ ReleaseSlot \/ SendComplete
  BY <1>6 DEF CloseWriter, SendReadDone, Catch, ReleaseSlot, SendComplete, ModeInv
<1>7. CASE Writer
  BY <1>7, WriterKeeps DEF ModeInv, Stopped
<1>8. CASE ~Reader /\ ~Writer
  BY <1>8, OthersLeave DEF ModeInv
<1>9. QED
  BY <1>1, <1>2, <1>3, <1>4, <1>5, <1>6, <1>7, <1>8 DEF Reader

-----------------------------------------------------------------------------
(* The slot is free only when nothing works for the stream.                  *)

LEMMA InitIdle == Init => IdleInv
  BY DEF Init, IdleInv

LEMMA NextIdle ==
  ASSUME Faults \subseteq {"writerFails", "slow"}
  PROVE  TypeInv /\ ModeInv /\ IdleInv /\ [Next]_vars => IdleInv'
<1> SUFFICES ASSUME TypeInv, ModeInv, IdleInv, [Next]_vars PROVE IdleInv'
  OBVIOUS
<1> USE DEF readerVars, writerVars, respVars, reqVars, endVars
<1>0. /\ mode \in {"readonly", "single", "twopass"}
      /\ ~cancelled /\ intr = {}
      /\ "filterFails" \notin Faults /\ "cancel" \notin Faults /\ "shutdown" \notin Faults
  BY ShapeAssumption DEF TypeInv, IdleInv
<1>1. CASE Open
  <2>1. rpc = "open" /\ rpc' = "read" /\ UNCHANGED <<cancelled, intr, slot>>
    BY <1>0, <1>1 DEF Open
  <2>2. QED
    BY <2>1 DEF IdleInv
<1>2. CASE NextEvent \/ ReadFails \/ PutEvent
  BY <1>0, <1>2 DEF NextEvent, ReadFails, PutEvent, IdleInv
<1>3. CASE ConvertEvent
  <2>1. rpc' \in {"put", "read"}
    BY <1>0, <1>3 DEF ConvertEvent, SendOr
  <2>2. QED
    BY <1>3, <2>1 DEF ConvertEvent, IdleInv
<1>4. CASE Flush
  <2>1. rpc' \in {"putEnd", "pass2"} \/ (mode = "readonly" /\ rpc' = "close")
    BY <1>0, <1>4 DEF Flush, SendOr
  <2>2. QED
    BY <1>4, <2>1 DEF Flush, IdleInv, ModeInv, Stopped
<1>5. CASE PutEnd \/ StartPass2 \/ JoinWriter \/ ReaderInterrupted
  BY <1>0, <1>5 DEF PutEnd, StartPass2, JoinWriter, Joined, AfterJoin, ReaderInterrupted,
                    IdleInv, Stopped
<1>6. CASE CloseWriter \/ SendReadDone \/ Catch \/ ReleaseSlot \/ SendComplete
  BY <1>6 DEF CloseWriter, SendReadDone, Catch, ReleaseSlot, SendComplete, IdleInv
<1>7. CASE Writer
  BY <1>7, WriterKeeps DEF IdleInv
<1>8. CASE ~Reader /\ ~Writer
  <2>1. ~cancelled' /\ intr' = {}
    BY <1>0, <1>8 DEF Next, StuckTimeout, Requests, OnContentBlock, OnCompleted,
                      OnError, Shutdown, vars
  <2>2. QED
    BY <1>8, <2>1, OthersLeave DEF IdleInv, Stopped
<1>9. QED
  BY <1>1, <1>2, <1>3, <1>4, <1>5, <1>6, <1>7, <1>8 DEF Reader

(***************************************************************************)
(* As long as the filter does not throw, the call is not cancelled and the *)
(* server not shut down, the pipeline permit goes back only after the      *)
(* writer thread has ended, whatever the writer or a timeout does.         *)
(***************************************************************************)
THEOREM SlotOutlivesWork ==
  ASSUME Faults \subseteq {"writerFails", "slow"}
  PROVE  Spec => []FreeSlotIsIdle
<1>1. IdleInv => FreeSlotIsIdle
  BY DEF IdleInv, FreeSlotIsIdle, Stopped
<1>2. QED
  BY InitTyped, NextTyped, InitMode, NextMode, InitIdle, NextIdle, <1>1, PTL DEF Spec

-----------------------------------------------------------------------------
(* Every event is written once and in order.                                 *)

(***************************************************************************)
(* A queue that continues where the writer is still does after a put, and  *)
(* after a take, by then one event further.                                *)
(***************************************************************************)
LEMMA ElementOfTail ==
  ASSUME NEW q \in Seq(Int), q # <<>>, NEW i \in DOMAIN Tail(q)
  PROVE  i \in Int /\ i + 1 \in DOMAIN q /\ Tail(q)[i] = q[i + 1]
OBVIOUS

LEMMA ElementOfAppend ==
  ASSUME NEW q \in Seq(Int), NEW n \in Int, NEW i \in DOMAIN Append(q, n)
  PROVE  /\ i \in Int /\ Len(q) \in Int
         /\ \/ i \in DOMAIN q /\ Append(q, n)[i] = q[i]
            \/ i = Len(q) + 1 /\ Append(q, n)[i] = n
<1>1. Len(q) \in Nat /\ i \in 1..Len(q) + 1
  OBVIOUS
<1>2. CASE i = Len(q) + 1
  BY <1>1, <1>2
<1>3. CASE i # Len(q) + 1
  <2>1. i \in Int /\ Len(q) \in Int /\ i \in DOMAIN q
    BY <1>1, <1>3
  <2>2. Append(q, n)[i] = q[i]
    BY <1>1, <1>3, <2>1
  <2>3. QED
    BY <2>1, <2>2
<1>4. QED
  BY <1>2, <1>3

(***************************************************************************)
(* The event the writer takes from the queue is the one after its last; at *)
(* the end of the queue there is none left.                                *)
(***************************************************************************)
LEMMA TakenIsNext ==
  ASSUME TypeInv, EventOrder, TakeEvent
  PROVE  IF Head(evq) = END THEN wev = Len(doc) ELSE Head(evq) = wev + 1
<1>1. evq \in Seq(Int) /\ evq # <<>> /\ wev \in Int /\ Len(doc) \in Nat
  BY Numbers, DocIsSeq DEF TypeInv, TakeEvent
<1>2. 1 \in DOMAIN evq /\ Head(evq) = evq[1]
  BY <1>1
<1>3. evq[1] = wev + 1 \/ (evq[1] = END /\ wev + 1 = Len(doc) + 1)
  BY <1>2 DEF EventOrder, TakeEvent
<1>4. wev >= 0
  BY <1>1 DEF TypeInv, WriterTypes
<1>5. QED
  BY <1>1, <1>2, <1>3, <1>4 DEF END

LEMMA InitOrder == Init => OrderInv
  BY DEF Init, OrderInv, EventOrder, OutputOrder, Putting, Filling, NPut, Working

(***************************************************************************)
(* The pipeline thread puts the events in the order of the document.       *)
(***************************************************************************)
LEMMA ReaderOrder ==
  ASSUME TypeInv, ModeInv, OrderInv, Reader PROVE OrderInv'
<1> USE DEF readerVars, writerVars, respVars, reqVars, endVars
<1>1. OutputOrder'
  <2>1. wpc' = "poll" /\ wpc # "poll" => wpc = "off"
    <3>1. rpc = "pass2" => mode = "twopass"
      BY DEF ModeInv
    <3>2. QED
      BY <3>1, ReaderKeeps DEF ModeInv
  <2>2. doc' = doc /\ wev' = wev /\ out' = out /\ (wpc' = wpc \/ wpc' = "poll")
    BY ReaderKeeps
  <2>3. Len(out) \in Nat /\ (out = <<>> => Len(out) = 0)
    BY DEF TypeInv, OutputTypes
  <2>4. QED
    BY <2>1, <2>2, <2>3 DEF OrderInv, OutputOrder, Working, IsTU
<1>2. EventOrder'
  <2> SUFFICES ASSUME mode = "single" PROVE EventOrder'
    BY ReaderKeeps DEF EventOrder
  <2>1. /\ UNCHANGED <<doc, mode, wev>>
        /\ wpc' # "done" => wpc # "done"
    BY ReaderKeeps DEF ModeInv
  <2>2. CASE Open \/ NextEvent \/ ReadFails
    <3>1. UNCHANGED evq /\ rpc' \in {"read", "convert", "catch"}
          /\ rpc \in {"open", "read"} /\ (rpc' = "convert" => rpos' = rpos + 1)
          /\ (rpc' = "read" => rpos' = rpos)
      BY <2>2 DEF Open, NextEvent, ReadFails
    <3>2. Putting' => NPut' = NPut
      BY <3>1, Numbers DEF Putting, Filling, NPut
    <3>3. QED
      BY <2>1, <3>1, <3>2 DEF OrderInv, EventOrder, Putting, Filling
  <2>3. CASE ConvertEvent
    <3>1. UNCHANGED <<evq, rpos>> /\ rpc = "convert" /\ rpc' \in {"put", "catch"}
      BY <2>3, AfterConvert DEF ConvertEvent
    <3>2. QED
      BY <2>1, <3>1 DEF OrderInv, EventOrder, Putting, Filling, NPut
  <2>4. CASE PutEvent
    <3>1. evq' = Append(evq, rpos) /\ rpc = "put" /\ rpc' = "read" /\ rpos' = rpos
      BY <2>4 DEF PutEvent
    <3>2. /\ wev + Len(evq) = rpos - 1
          /\ \A i \in DOMAIN evq : evq[i] = wev + i
      BY <3>1 DEF OrderInv, EventOrder, Putting, Filling, NPut
    <3>3. Len(evq') = Len(evq) + 1
      BY <3>1, Numbers
    <3>4. \A i \in DOMAIN evq' : evq'[i] = wev + i
      <4> SUFFICES ASSUME NEW i \in DOMAIN evq' PROVE evq'[i] = wev + i
        OBVIOUS
      <4>1. \/ i \in DOMAIN evq /\ evq'[i] = evq[i]
            \/ i = Len(evq) + 1 /\ evq'[i] = rpos
        BY <3>1, Numbers, ElementOfAppend
      <4>2. QED
        BY <3>2, <4>1, Numbers
    <3>5. NPut' = rpos /\ ~(rpc' = "putEnd")
      BY <3>1 DEF NPut
    <3>6. wev + Len(evq') = rpos
      BY <3>2, <3>3, Numbers
    <3>7. QED
      BY <2>1, <3>4, <3>5, <3>6 DEF EventOrder
  <2>5. CASE Flush
    <3>1. UNCHANGED <<evq, rpos>> /\ rpc = "read" /\ rpos = Len(doc)
          /\ rpc' \in {"putEnd", "catch"}
      BY <2>5 DEF Flush, SendOr
    <3>2. QED
      BY <2>1, <3>1 DEF OrderInv, EventOrder, Putting, Filling, NPut
  <2>6. CASE PutEnd
    <3>1. evq' = Append(evq, END) /\ rpc = "putEnd" /\ rpc' = "join"
      BY <2>6 DEF PutEnd
    <3>2. /\ wev + Len(evq) = Len(doc)
          /\ \A i \in DOMAIN evq : evq[i] = wev + i
      BY <3>1 DEF OrderInv, EventOrder, Putting, Filling, NPut
    <3>3. ASSUME NEW i \in DOMAIN evq'
          PROVE  evq'[i] = wev + i \/ (evq'[i] = END /\ wev + i = Len(doc) + 1)
      <4>1. \/ i \in DOMAIN evq /\ evq'[i] = evq[i]
            \/ i = Len(evq) + 1 /\ evq'[i] = END
        BY <3>1, Numbers, ElementOfAppend DEF END
      <4>2. QED
        BY <3>2, <4>1, Numbers
    <3>4. ~Putting' /\ rpc' # "putEnd"
      BY <3>1 DEF Putting, Filling
    <3>5. QED
      BY <2>1, <3>3, <3>4 DEF EventOrder
  <2>7. CASE ~(Open \/ NextEvent \/ ReadFails \/ ConvertEvent \/ PutEvent
                \/ Flush \/ PutEnd)
    <3>1. UNCHANGED evq /\ rpc' \notin {"open", "read", "convert", "put", "putEnd"}
      BY <2>7 DEF Reader, StartPass2, JoinWriter, AfterJoin, ReaderInterrupted,
                  CloseWriter, SendReadDone, Catch, ReleaseSlot, SendComplete
    <3>2. QED
      BY <2>1, <3>1 DEF OrderInv, EventOrder, Putting, Filling
  <2>8. QED
    BY <2>2, <2>3, <2>4, <2>5, <2>6, <2>7
<1>3. QED
  BY <1>1, <1>2 DEF OrderInv

(***************************************************************************)
(* The writer takes them in that order, and hands on what it has taken.    *)
(***************************************************************************)
LEMMA WriterOrder ==
  ASSUME TypeInv, ModeInv, OrderInv, Writer PROVE OrderInv'
<1> USE DEF readerVars, writerVars, respVars, reqVars, endVars
<1>1. /\ UNCHANGED <<doc, mode, rpc, rpos>> /\ wpc \notin Stopped
      /\ Putting' = Putting /\ NPut' = NPut
  BY WriterKeeps DEF Putting, Filling, NPut
<1>2. Len(out) \in Nat /\ wev \in Int /\ Len(doc) \in Nat
  BY Numbers, DocIsSeq DEF TypeInv, OutputTypes
<1>3. ASSUME NEW p, StartEvent(p), p = wev + 1, wpc = "poll", UNCHANGED out
      PROVE  OutputOrder'
  <2>1. wev' = p /\ wpc' \in Working /\ (wpc' = "find" => IsTU(p))
    BY <1>3 DEF StartEvent, Working
  <2>2. Len(out) = wev
    BY <1>3 DEF OrderInv, OutputOrder
  <2>3. QED
    BY <1>1, <1>2, <1>3, <2>1, <2>2 DEF OutputOrder, Working, IsTU
<1>4. CASE TakeEvent
  <2>1. evq \in Seq(Int) /\ evq # <<>> /\ evq' = Tail(evq) /\ Len(evq) \in Nat
        /\ Len(evq') = Len(evq) - 1 /\ mode = "single" /\ wpc = "poll"
    BY <1>4, Numbers DEF TakeEvent
  <2>2. \A i \in DOMAIN evq' : i \in Int /\ i + 1 \in DOMAIN evq /\ evq'[i] = evq[i + 1]
    BY <2>1, ElementOfTail
  <2>3. 1 \in DOMAIN evq /\ Head(evq) = evq[1]
    BY <2>1
  <2>4. CASE Head(evq) = END
    <3>1. wpc' = "done" /\ UNCHANGED <<wev, out>> /\ wev = Len(doc)
      BY <1>4, <2>4, TakenIsNext DEF TakeEvent, OrderInv
    <3>2. ~Putting
      BY <1>2, <2>1, <2>3, <2>4, <3>1 DEF OrderInv, EventOrder, END
    <3>3. QED
      BY <1>1, <2>1, <3>1, <3>2 DEF OrderInv, EventOrder, OutputOrder, Putting, Working
  <2>5. CASE Head(evq) # END
    <3>1. StartEvent(Head(evq)) /\ Head(evq) = wev + 1 /\ UNCHANGED out
      BY <1>4, <2>5, TakenIsNext DEF TakeEvent, OrderInv
    <3>2. wev' = wev + 1
      BY <3>1 DEF StartEvent
    <3>3. EventOrder'
      <4>1. Putting => \A i \in DOMAIN evq' : evq'[i] = wev' + i
        BY <1>2, <2>1, <2>2, <3>2 DEF OrderInv, EventOrder
      <4>2. Putting => wev' + Len(evq') = NPut
        BY <1>2, <2>1, <3>2 DEF OrderInv, EventOrder
      <4>3. \A i \in DOMAIN evq' :
              evq'[i] = wev' + i \/ (evq'[i] = END /\ wev' + i = Len(doc) + 1)
        <5> SUFFICES ASSUME NEW i \in DOMAIN evq'
                     PROVE  evq'[i] = wev' + i \/ (evq'[i] = END /\ wev' + i = Len(doc) + 1)
          OBVIOUS
        <5>1. i \in Int /\ i + 1 \in DOMAIN evq /\ evq'[i] = evq[i + 1]
          BY <2>2
        <5>2. evq[i + 1] = wev + (i + 1)
                \/ (evq[i + 1] = END /\ wev + (i + 1) = Len(doc) + 1)
          BY <2>1, <5>1 DEF OrderInv, EventOrder
        <5>3. QED
          BY <1>2, <3>2, <5>1, <5>2
      <4>4. QED
        BY <1>1, <4>1, <4>2, <4>3 DEF OrderInv, EventOrder
    <3>4. QED
      BY <1>3, <2>1, <3>1, <3>3 DEF OrderInv
  <2>6. QED
    BY <2>4, <2>5
<1>5. CASE NextOfPass2
  <2>1. mode = "twopass" /\ wpc = "poll" /\ UNCHANGED out
    BY <1>5 DEF NextOfPass2
  <2>2. EventOrder'
    BY <1>1, <2>1 DEF EventOrder
  <2>3. CASE wev = Len(doc)
    BY <1>1, <1>5, <2>1, <2>2, <2>3 DEF NextOfPass2, OrderInv, OutputOrder, Working
  <2>4. CASE wev # Len(doc)
    BY <1>3, <1>5, <2>1, <2>2, <2>4 DEF NextOfPass2, OrderInv
  <2>5. QED
    BY <2>3, <2>4
<1>6. CASE HandleEvent
  <2>1. UNCHANGED <<evq, wev>> /\ wpc = "handle" /\ wpc' \in {"poll", "failed"}
        /\ (wpc' = "poll" => out' = Append(out, [ev |-> wev, seg |-> wseg]))
    BY <1>6 DEF HandleEvent
  <2>2. out \in Seq([ev : 1..Len(doc), seg : 0..Len(doc)])
    BY DEF TypeInv, OutputTypes
  <2>3. wpc' = "poll" => Len(out') = Len(out) + 1
    BY <2>1, <2>2
  <2>4. EventOrder'
    BY <1>1, <2>1 DEF OrderInv, EventOrder
  <2>5. QED
    BY <1>2, <2>1, <2>3, <2>4 DEF OrderInv, OutputOrder, Working
<1>7. CASE PollTranslation \/ WriterSeesInterrupt \/ Pass2Fails
  <2>1. UNCHANGED <<evq, wev, out>> /\ wpc' # "off" /\ wpc' # "done" /\ wpc' # "poll"
        /\ (wpc' = "find" => wpc = "find") /\ (wpc' = "handle" => wpc \in Working)
    BY <1>7 DEF PollTranslation, WriterSeesInterrupt, Pass2Fails, Working
  <2>2. EventOrder'
    BY <1>1, <2>1 DEF OrderInv, EventOrder, Stopped
  <2>3. QED
    BY <1>1, <2>1, <2>2 DEF OrderInv, OutputOrder, Working, IsTU
<1>8. QED
  BY <1>4, <1>5, <1>6, <1>7 DEF Writer

LEMMA NextOrder == TypeInv /\ ModeInv /\ OrderInv /\ [Next]_vars => OrderInv'
<1> SUFFICES ASSUME TypeInv, OrderInv, [Next]_vars, ~Reader, ~Writer PROVE OrderInv'
  BY ReaderOrder, WriterOrder
<1>1. QED
  BY OthersLeave DEF OrderInv, EventOrder, OutputOrder, Putting, Filling, NPut,
                     Working, IsTU

-----------------------------------------------------------------------------
(* A stream that ended well has gone the whole way.                          *)

LEMMA InitDone == Init => DoneInv
  BY DEF Init, DoneInv

LEMMA NextDone == TypeInv /\ ModeInv /\ DoneInv /\ [Next]_vars => DoneInv'
<1> SUFFICES ASSUME TypeInv, ModeInv, DoneInv, [Next]_vars PROVE DoneInv'
  OBVIOUS
<1> USE DEF readerVars, writerVars, respVars, reqVars, endVars
<1>0. mode \in {"readonly", "single", "twopass"}
  BY ShapeAssumption DEF TypeInv
<1>1. CASE Open
  <2>1. rpc = "open" /\ rpc' \in {"read", "catch"}
        /\ UNCHANGED <<readDone, verdict, complete>>
    BY <1>1 DEF Open
  <2>2. QED
    BY <2>1 DEF DoneInv
<1>2. CASE NextEvent \/ ReadFails \/ PutEvent \/ PutEnd \/ ReaderInterrupted
  BY <1>2 DEF NextEvent, ReadFails, PutEvent, PutEnd, ReaderInterrupted, DoneInv
<1>3. CASE ConvertEvent
  <2>1. rpc = "convert" /\ rpc' \in {"put", "read", "catch"}
        /\ UNCHANGED <<readDone, verdict, complete>>
    BY <1>3, AfterConvert DEF ConvertEvent
  <2>2. QED
    BY <2>1 DEF DoneInv
<1>4. CASE Flush
  <2>1. /\ rpc = "read" /\ UNCHANGED <<mode, wpc, readDone, verdict, complete>>
        /\ rpc' \in {"putEnd", "pass2", "catch"} \/ (mode = "readonly" /\ rpc' = "close")
    BY <1>0, <1>4 DEF Flush, SendOr
  <2>2. QED
    BY <2>1 DEF DoneInv, ModeInv
<1>5. CASE StartPass2
  BY <1>5 DEF StartPass2, DoneInv
<1>6. CASE JoinWriter
  BY <1>6 DEF JoinWriter, Joined, AfterJoin, DoneInv, ModeInv
<1>7. CASE CloseWriter \/ SendReadDone
  BY <1>7 DEF CloseWriter, SendReadDone, DoneInv
<1>8. CASE Catch \/ ReleaseSlot \/ SendComplete
  BY <1>8 DEF Catch, ReleaseSlot, SendComplete, Answer, DoneInv
<1>9. CASE Writer
  BY <1>9, WriterKeeps DEF DoneInv, Stopped
<1>10. CASE ~Reader /\ ~Writer
  <2>1. cancelled' = cancelled \/ rpc # "done"
    BY <1>10 DEF Next, StuckTimeout, Requests, OnContentBlock, OnCompleted, OnError,
                 Shutdown, vars
  <2>2. QED
    BY <1>10, <2>1, OthersLeave DEF DoneInv
<1>11. QED
  BY <1>1, <1>2, <1>3, <1>4, <1>5, <1>6, <1>7, <1>8, <1>9, <1>10 DEF Reader

-----------------------------------------------------------------------------
(* Lists of parts.                                                           *)

LEMMA PartsAreWanted ==
  ASSUME doc \in Docs
  PROVE  /\ Len(doc) \in Nat
         /\ Cycle!Parts = {p \in 1..Len(doc) : Wanted(p)}
BY DocIsSeq DEF Cycle!Parts, Wanted, Positions

LEMMA ListedParts ==
  ASSUME NEW s, NEW n
  PROVE  Cycle!Lists(s, n) <=>
           /\ Range(s) = {p \in Cycle!Parts : p <= n}
           /\ \A i, j \in DOMAIN s : i < j => s[i] < s[j]
BY DEF Cycle!Lists, Cycle!Range, Range

(***************************************************************************)
(* A list of the parts before event n is one of the parts up to n once     *)
(* event n, if it has a part for the client, is appended.                  *)
(***************************************************************************)
LEMMA OneMore ==
  ASSUME doc \in Docs, NEW n \in 1..Len(doc), NEW s \in Seq(Int),
         Cycle!Lists(s, n - 1), Len(s) <= n - 1
  PROVE  IF Wanted(n) THEN Cycle!Lists(Append(s, n), n) /\ Len(Append(s, n)) <= n
                      ELSE Cycle!Lists(s, n) /\ Len(s) <= n
<1> DEFINE P == Cycle!Parts
<1>1. Len(doc) \in Nat /\ Len(s) \in Nat /\ P = {p \in 1..Len(doc) : Wanted(p)}
  BY PartsAreWanted
<1>2. /\ Range(s) = {p \in P : p <= n - 1}
      /\ \A i, j \in DOMAIN s : i < j => s[i] < s[j]
  BY ListedParts
<1>3. CASE ~Wanted(n)
  <2>1. {p \in P : p <= n - 1} = {p \in P : p <= n}
    BY <1>1, <1>3
  <2>2. QED
    BY <1>1, <1>2, <1>3, <2>1, ListedParts
<1>4. CASE Wanted(n)
  <2> DEFINE t == Append(s, n)
  <2>1. /\ DOMAIN s = 1..Len(s) /\ DOMAIN t = 1..Len(s) + 1 /\ Len(t) = Len(s) + 1
        /\ t[Len(s) + 1] = n /\ \A i \in DOMAIN s : t[i] = s[i]
    BY <1>1
  <2>2. Range(t) = Range(s) \cup {n}
    BY <1>1, <2>1 DEF Range
  <2>3. {p \in P : p <= n} = {p \in P : p <= n - 1} \cup {n}
    BY <1>1, <1>4
  <2>4. \A i \in DOMAIN s : s[i] \in Int /\ s[i] <= n - 1
    <3>1. \A i \in DOMAIN s : s[i] \in Range(s)
      BY DEF Range
    <3>2. QED
      BY <1>1, <1>2, <3>1
  <2>5. ASSUME NEW i \in DOMAIN t, NEW j \in DOMAIN t, i < j PROVE t[i] < t[j]
    <3>1. i \in DOMAIN s /\ t[i] = s[i] /\ i \in Int /\ j \in Int
      BY <1>1, <2>1, <2>5
    <3>2. CASE j = Len(s) + 1
      BY <2>1, <2>4, <3>1, <3>2
    <3>3. CASE j # Len(s) + 1
      BY <1>1, <1>2, <2>1, <2>5, <3>1, <3>3
    <3>4. QED
      BY <3>2, <3>3
  <2>6. Range(t) = {p \in P : p <= n}
    BY <1>2, <2>2, <2>3
  <2>7. Cycle!Lists(t, n)
    BY <2>5, <2>6, ListedParts
  <2>8. Len(t) <= n
    BY <1>1, <2>1
  <2>9. QED
    BY <1>4, <2>7, <2>8
<1>5. QED
  BY <1>3, <1>4

(***************************************************************************)
(* Sending a batch that is not empty, such that what was sent lists parts, *)
(* is a step of SendParts.                                                 *)
(***************************************************************************)
LEMMA BatchIsStep ==
  ASSUME TypeInv, NEW b \in Seq(1..Len(doc)), b # <<>>, NEW n \in 1..Len(doc),
         Cycle!Lists(sent \o b, n), Len(sent \o b) <= n,
         sent' = sent \o b, rpc # "done", rpc' # "done",
         UNCHANGED <<doc, mode, out>>
  PROVE  Cycle!SendParts
<1>1. Len(doc) \in Nat /\ DOMAIN doc = 1..Len(doc) /\ sent \in Seq(1..Len(doc))
  BY DocIsSeq DEF TypeInv, ResponseTypes, Positions
<1>2. /\ Len(b) \in Nat /\ Len(b) # 0 /\ Len(sent) \in Nat
      /\ Len(sent \o b) = Len(sent) + Len(b)
      /\ DOMAIN b = 1..Len(b) /\ b = [i \in 1..Len(b) |-> b[i]]
  BY <1>1
<1>3. Len(b) \in DOMAIN doc
  BY <1>1, <1>2
<1>4. \A i \in 1..Len(b) : b[i] \in Cycle!Parts
  <2> SUFFICES ASSUME NEW i \in 1..Len(b) PROVE b[i] \in Cycle!Parts
    OBVIOUS
  <2>1. /\ Len(sent) + i \in DOMAIN (sent \o b)
        /\ (sent \o b)[Len(sent) + i] = b[i]
    BY <1>1, <1>2
  <2>2. b[i] \in Range(sent \o b)
    BY <2>1 DEF Range
  <2>3. QED
    BY <2>2, ListedParts
<1>5. b \in [1..Len(b) -> Cycle!Parts]
  BY <1>2, <1>4
<1>6. QED
  BY <1>1, <1>3, <1>5 DEF Cycle!SendParts

-----------------------------------------------------------------------------
(* What was sent.                                                            *)

LEMMA InitSent == Init => SentInv
<1> SUFFICES ASSUME Init PROVE SentInv
  OBVIOUS
<1>1. Range(<<>>) = {} /\ <<>> \o <<>> = <<>> /\ Len(<<>>) = 0 /\ DOMAIN <<>> = {}
  BY DEF Range
<1>2. Len(doc) \in Nat /\ Cycle!Parts = {p \in 1..Len(doc) : Wanted(p)}
  BY PartsAreWanted DEF Init
<1>3. Cycle!Lists(<<>>, 0)
  BY <1>1, <1>2, ListedParts
<1>4. QED
  BY <1>1, <1>3 DEF Init, SentInv, Converted

(***************************************************************************)
(* What a conversion sends and what it keeps are the parts up to the event *)
(* converted.                                                              *)
(***************************************************************************)
LEMMA ConvertedParts ==
  ASSUME TypeInv, SentInv, ConvertEvent
  PROVE  /\ rpos \in 1..Len(doc) /\ UNCHANGED <<doc, rpos>>
         /\ \E b, c \in Seq(1..Len(doc)) :
              /\ SendOr(b, IF mode = "single" THEN "put" ELSE "read")
              /\ batch' = c /\ (b = <<>> \/ c = <<>>)
              /\ Cycle!Lists(sent \o (b \o c), rpos) /\ Len(sent \o (b \o c)) <= rpos
<1> DEFINE S == Seq(1..Len(doc))
           more == IF Wanted(rpos) THEN Append(batch, rpos) ELSE batch
           full == Wanted(rpos) /\ Full(more)
           b == IF full THEN more ELSE <<>>
           c == IF full THEN <<>> ELSE more
<1>1. Len(doc) \in Nat /\ rpos \in 1..Len(doc) /\ sent \in S /\ batch \in S
  BY DocIsSeq DEF TypeInv, ReaderTypes, ResponseTypes, ConvertEvent
<1>2. Cycle!Lists(sent \o batch, rpos - 1) /\ Len(sent \o batch) <= rpos - 1
  BY DEF ConvertEvent, SentInv, Converted
<1>3. more \in S /\ b \in S /\ c \in S /\ b \o c = more /\ (b = <<>> \/ c = <<>>)
  <2>1. more \in S
    BY <1>1, Appends
  <2>2. <<>> \in S /\ more \o <<>> = more /\ <<>> \o more = more
    BY <2>1
  <2>3. QED
    BY <2>1, <2>2
<1>4. sent \o Append(batch, rpos) = Append(sent \o batch, rpos)
      /\ sent \o batch \in Seq(Int)
  BY <1>1
<1>5. Cycle!Lists(sent \o more, rpos) /\ Len(sent \o more) <= rpos
  BY <1>1, <1>2, <1>4, OneMore DEF TypeInv
<1>6. SendOr(b, IF mode = "single" THEN "put" ELSE "read") /\ batch' = c
  BY DEF ConvertEvent
<1>7. UNCHANGED <<doc, rpos>>
  BY DEF ConvertEvent
<1>8. QED
  BY <1>1, <1>3, <1>5, <1>6, <1>7

LEMMA NextSent ==
  TypeInv /\ ModeInv /\ DoneInv /\ SentInv /\ [Next]_vars => SentInv'
<1> SUFFICES ASSUME TypeInv, ModeInv, DoneInv, SentInv, [Next]_vars PROVE SentInv'
  OBVIOUS
<1> USE DEF readerVars, writerVars, respVars, reqVars, endVars
<1>0. /\ doc' = doc /\ \A p : Wanted(p)' = Wanted(p)
      /\ \A s, n : Cycle!Lists(s, n)' <=> Cycle!Lists(s, n)
      /\ mode \in {"readonly", "single", "twopass"}
  <2>1. doc' = doc
    BY WriterKeeps, ReaderKeeps, OthersLeave
  <2>2. mode \in {"readonly", "single", "twopass"}
    BY ShapeAssumption DEF TypeInv
  <2>3. QED
    BY <2>1, <2>2 DEF Wanted, Cycle!Lists, Cycle!Parts
<1>1. CASE Open \/ NextEvent \/ ReadFails \/ PutEvent
  <2>1. /\ UNCHANGED <<sent, batch, verdict>> /\ verdict # "ok"
        /\ rpc' \in {"read", "convert", "catch"}
        /\ rpc' # "catch" =>
             rpc \in {"open", "read", "put"} /\ rpos' = IF rpc' = "convert" THEN rpos + 1 ELSE rpos
    BY <1>1 DEF Open, NextEvent, ReadFails, PutEvent, DoneInv
  <2>2. rpc' # "catch" => Converted' = Converted /\ rpc \in {"open", "read", "put"}
    BY <2>1, Numbers DEF Converted
  <2>3. rpc' # "catch" =>
          /\ Cycle!Lists(sent' \o batch', Converted')
          /\ Len(sent' \o batch') <= Converted'
    BY <1>0, <2>1, <2>2 DEF SentInv
  <2>4. QED
    BY <1>0, <2>1, <2>3 DEF SentInv
<1>2. CASE ConvertEvent
  <2>1. PICK b \in Seq(1..Len(doc)), c \in Seq(1..Len(doc)) :
          /\ SendOr(b, IF mode = "single" THEN "put" ELSE "read") /\ batch' = c
          /\ Cycle!Lists(sent \o (b \o c), rpos) /\ Len(sent \o (b \o c)) <= rpos
    BY <1>2, ConvertedParts
  <2>2. UNCHANGED <<rpos, verdict>> /\ verdict # "ok" /\ rpc' \in {"put", "read", "catch"}
    BY <1>2, AfterConvert DEF ConvertEvent, DoneInv
  <2>3. CASE rpc' = "catch"
    BY <1>0, <2>2, <2>3 DEF SentInv
  <2>4. CASE rpc' # "catch"
    <3>1. sent' = sent \o b /\ Converted' = rpos
      BY <1>2, <2>1, <2>2, <2>4 DEF SendOr, Converted
    <3>2. sent' \o batch' = sent \o (b \o c)
      BY <2>1, <3>1 DEF TypeInv, ResponseTypes
    <3>3. QED
      BY <1>0, <2>1, <2>2, <3>1, <3>2 DEF SentInv
  <2>5. QED
    BY <2>3, <2>4
<1>3. CASE Flush
  <2>1. /\ UNCHANGED <<rpos, verdict>> /\ verdict # "ok"
        /\ rpc = "read" /\ rpos = Len(doc) /\ batch' = <<>>
        /\ \/ rpc' = "catch"
           \/ rpc' \in {"putEnd", "pass2", "close"} /\ sent' = sent \o batch
    BY <1>0, <1>3 DEF Flush, SendOr, Rest, DoneInv
  <2>2. Cycle!Lists(sent \o batch, Len(doc))
    BY <2>1 DEF SentInv, Converted
  <2>3. QED
    BY <1>0, <2>1, <2>2 DEF SentInv
<1>4. CASE PutEnd \/ StartPass2 \/ JoinWriter \/ ReaderInterrupted \/ CloseWriter
  <2>1. /\ UNCHANGED <<sent, verdict>> /\ rpc \in {"put", "putEnd", "pass2", "join", "close"}
        /\ rpc' \in {"join", "close", "readDone", "catch"} /\ verdict # "ok"
        /\ rpc = "put" => rpc' = "catch"
    BY <1>4 DEF PutEnd, StartPass2, JoinWriter, AfterJoin, ReaderInterrupted, CloseWriter,
                DoneInv
  <2>2. QED
    BY <1>0, <2>1 DEF SentInv
<1>5. CASE SendReadDone \/ Catch \/ ReleaseSlot \/ SendComplete
  BY <1>0, <1>5 DEF SendReadDone, Catch, ReleaseSlot, SendComplete, SentInv, DoneInv
<1>6. CASE ~Reader
  <2>1. UNCHANGED <<rpc, rpos, batch, sent, verdict>>
    BY <1>6, WriterKeeps, OthersLeave
  <2>2. QED
    BY <1>0, <2>1 DEF SentInv, Converted
<1>7. QED
  BY <1>1, <1>2, <1>3, <1>4, <1>5, <1>6 DEF Reader

-----------------------------------------------------------------------------
(* Queues.                                                                   *)

(***************************************************************************)
(* An entry of a queue stays in it through an append, and through a take   *)
(* unless it is the head.                                                  *)
(***************************************************************************)
LEMMA StaysInTail ==
  ASSUME NEW S, NEW q \in Seq(S), NEW x \in Range(q), x # Head(q)
  PROVE  x \in Range(Tail(q))
<1>1. PICK i \in DOMAIN q : q[i] = x
  BY DEF Range
<1>2. Len(q) \in Nat /\ i \in 1..Len(q) /\ q # <<>>
  BY <1>1
<1>3. i # 1
  BY <1>1, <1>2
<1>4. i - 1 \in DOMAIN Tail(q) /\ Tail(q)[i - 1] = q[i]
  BY <1>2, <1>3
<1>5. QED
  BY <1>1, <1>4 DEF Range

LEMMA StaysInConcat ==
  ASSUME NEW S, NEW q \in Seq(S), NEW y \in S
  PROVE  /\ Range(q) \subseteq Range(Append(q, y)) /\ y \in Range(Append(q, y))
         /\ Append(q, y) = q \o <<y>>
<1>1. Len(q) \in Nat /\ DOMAIN Append(q, y) = 1..Len(q) + 1
      /\ Append(q, y)[Len(q) + 1] = y
  OBVIOUS
<1>2. y \in Range(Append(q, y))
  BY <1>1 DEF Range
<1>3. ASSUME NEW i \in DOMAIN q
      PROVE  i \in DOMAIN Append(q, y) /\ Append(q, y)[i] = q[i]
  BY <1>1
<1>4. Range(q) \subseteq Range(Append(q, y))
  BY <1>3 DEF Range
<1>5. Append(q, y) = q \o <<y>>
  OBVIOUS
<1>6. QED
  BY <1>2, <1>4, <1>5

(***************************************************************************)
(* What is sent stays sent; nothing else of the invariant is the pipeline  *)
(* thread's.                                                               *)
(***************************************************************************)
LEMMA SentGrows ==
  ASSUME TypeInv, [Next]_vars
  PROVE  Range(sent) \subseteq Range(sent') /\ Ids' = Ids
<1>1. Len(doc) \in Nat /\ sent \in Seq(1..Len(doc)) /\ batch \in Seq(1..Len(doc))
      /\ (rpc = "convert" => Append(batch, rpos) \in Seq(1..Len(doc)))
  BY DocIsSeq DEF TypeInv, ReaderTypes, ResponseTypes
<1>2. doc' = doc /\ (~Reader => sent' = sent)
  BY WriterKeeps, ReaderKeeps, OthersLeave
<1>3. ASSUME Reader, sent' # sent
      PROVE  \E b \in Seq(1..Len(doc)) : sent' = sent \o b
  <2>1. ConvertEvent \/ Flush
    BY <1>3 DEF Reader, Open, NextEvent, ReadFails, PutEvent, PutEnd, StartPass2,
                JoinWriter, ReaderInterrupted, CloseWriter, SendReadDone, Catch,
                ReleaseSlot, SendComplete, readerVars, writerVars, respVars
  <2>2. <<>> \in Seq(1..Len(doc))
    OBVIOUS
  <2>3. QED
    BY <1>1, <1>3, <2>1, <2>2 DEF ConvertEvent, Flush, SendOr, Rest
<1>4. ASSUME NEW b \in Seq(1..Len(doc)) PROVE Range(sent) \subseteq Range(sent \o b)
  <2>1. \A i \in DOMAIN sent : i \in DOMAIN (sent \o b) /\ (sent \o b)[i] = sent[i]
    BY <1>1
  <2>2. QED
    BY <2>1 DEF Range
<1>5. Ids' = Ids
  BY <1>2 DEF Ids, Positions
<1>6. QED
  BY <1>2, <1>3, <1>4, <1>5

LEMMA RangeOfTail ==
  ASSUME NEW S, NEW q \in Seq(S), q # <<>>
  PROVE  Head(q) \in Range(q) /\ Range(Tail(q)) \subseteq Range(q)
<1>1. Len(q) \in Nat /\ Len(q) # 0 /\ 1 \in DOMAIN q /\ Head(q) = q[1]
  OBVIOUS
<1>2. \A i \in DOMAIN Tail(q) : i + 1 \in DOMAIN q /\ Tail(q)[i] = q[i + 1]
  BY <1>1
<1>3. QED
  BY <1>1, <1>2 DEF Range

LEMMA RangeOfAppend ==
  ASSUME NEW S, NEW q \in Seq(S), NEW x \in S
  PROVE  Range(Append(q, x)) = Range(q) \cup {x}
<1>1. /\ DOMAIN q = 1..Len(q) /\ DOMAIN Append(q, x) = 1..Len(q) + 1 /\ Len(q) \in Nat
      /\ Append(q, x)[Len(q) + 1] = x /\ \A i \in DOMAIN q : Append(q, x)[i] = q[i]
  OBVIOUS
<1>2. QED
  BY <1>1 DEF Range

-----------------------------------------------------------------------------
(* Events, entries and their blocks.                                         *)

(***************************************************************************)
(* The segments that come back for a block, if any, are its own; and where *)
(* ids are distinct they are only its own.                                 *)
(***************************************************************************)
LEMMA SegmentsOf ==
  ASSUME NEW p
  PROVE  Segments(p) \in {0, p} /\ (Segments(p) # 0 => Segments(p) = p /\ IsTU(p))
BY DEF Segments

LEMMA IdsTellApart ==
  ASSUME DistinctIds, doc \in Docs, NEW p \in Positions, NEW q \in Positions,
         IsTU(p), IsTU(q), BlockId(p) = BlockId(q)
  PROVE  p = q
BY DEF DistinctIds, Positions, IsTU, BlockId

LEMMA NamesTellApart ==
  ASSUME DistinctIds, NamedBlocks, doc \in Docs, NEW p \in Positions,
         NEW q \in Positions, IsTU(p), BlockId(p) = BlockId(q)
  PROVE  p = q
<1>1. BlockId(p) # NoId
  BY DEF NamedBlocks, Positions, IsTU, BlockId
<1>2. IsTU(q)
  BY <1>1 DEF BlockId
<1>3. QED
  BY <1>2, IdsTellApart

(***************************************************************************)
(* The writer at the start of an event, with the event's place.            *)
(***************************************************************************)
LEMMA Starts ==
  ASSUME TypeInv, OrderInv, TakeEvent \/ NextOfPass2, wpc' # "done"
  PROVE  /\ wpc = "poll" /\ wev + 1 \in Positions /\ StartEvent(wev + 1)
         /\ UNCHANGED <<out, eos, trq>>
<1>1. Len(doc) \in Nat /\ Positions = 1..Len(doc) /\ wev \in 0..Len(doc)
  BY DocIsSeq DEF TypeInv, WriterTypes
<1>2. CASE TakeEvent
  <2>1. Head(evq) # END
    BY <1>2 DEF TakeEvent
  <2>2. Head(evq) = wev + 1
    BY <1>2, <2>1, TakenIsNext DEF OrderInv
  <2>3. evq \in Seq(0..Len(doc)) /\ evq # <<>>
    BY <1>2 DEF TakeEvent, TypeInv, EventQueueTypes
  <2>4. Head(evq) \in 0..Len(doc)
    BY <2>3, TailKeeps
  <2>5. QED
    BY <1>1, <1>2, <2>1, <2>2, <2>4 DEF TakeEvent, END
<1>3. CASE NextOfPass2
  <2>1. wev # Len(doc)
    BY <1>3 DEF NextOfPass2
  <2>2. QED
    BY <1>1, <1>3, <2>1 DEF NextOfPass2
<1>4. QED
  BY <1>2, <1>3

(***************************************************************************)
(* The entry at the head of the translation queue is for an event of the   *)
(* document.                                                               *)
(***************************************************************************)
LEMMA Polls ==
  ASSUME TypeInv, OrderInv, PollTranslation
  PROVE  /\ wpc = "find" /\ wev \in Positions /\ IsTU(wev)
         /\ Head(trq) # END => Head(trq) \in Positions
         /\ Positions = 1..Len(doc) /\ Len(doc) \in Nat
<1>1. Len(doc) \in Nat /\ Positions = 1..Len(doc)
  BY DocIsSeq DEF TypeInv
<1>2. trq \in Seq(0..Len(doc)) /\ trq # <<>>
  BY DEF PollTranslation, TypeInv, EntryQueueTypes
<1>3. Head(trq) \in 0..Len(doc)
  BY <1>2, TailKeeps
<1>4. wev \in 0..Len(doc) /\ wev # 0 /\ wpc = "find"
  BY DEF PollTranslation, TypeInv, WriterTypes
<1>5. QED
  BY <1>1, <1>3, <1>4 DEF OrderInv, OutputOrder, END

-----------------------------------------------------------------------------
(* The answers end with END, and the parts are sent in order.                *)

LEMMA InitStreamEnd == Init => StreamEnd
<1> SUFFICES ASSUME Init PROVE StreamEnd
  OBVIOUS
<1>1. Range(trq) = {}
  BY DEF Init, Range
<1>2. QED
  BY <1>1 DEF Init, StreamEnd

LEMMA NextStreamEnd == TypeInv /\ StreamEnd /\ [Next]_vars => StreamEnd'
<1> SUFFICES ASSUME TypeInv, StreamEnd, [Next]_vars PROVE StreamEnd'
  OBVIOUS
<1> USE DEF readerVars, writerVars, respVars, reqVars, endVars
<1>0. trq \in Seq(0..Len(doc)) /\ END \in 0..Len(doc) /\ Positions = 1..Len(doc)
      /\ Len(doc) \in Nat
  BY DocIsSeq DEF TypeInv, EntryQueueTypes, END
<1>1. ASSUME UNCHANGED <<eos, trq, halfClosed, cancelled>>, wpc' = "find" => ~eos
      PROVE  StreamEnd'
  BY <1>1 DEF StreamEnd
<1>2. CASE Reader
  BY <1>1, <1>2, ReaderKeeps DEF StreamEnd
<1>3. CASE TakeEvent \/ NextOfPass2
  BY <1>1, <1>3 DEF TakeEvent, NextOfPass2, StartEvent
<1>4. CASE PollTranslation
  <2>1. /\ trq # <<>> /\ trq' = Tail(trq) /\ UNCHANGED <<halfClosed, cancelled>>
        /\ IF Head(trq) = END THEN eos' /\ wpc' = "handle" ELSE eos' = eos /\ ~eos
    BY <1>4 DEF PollTranslation, StreamEnd
  <2>2. Range(trq') \subseteq Range(trq)
    BY <1>0, <2>1, RangeOfTail
  <2>3. Head(trq) # END /\ END \in Range(trq) => END \in Range(trq')
    BY <1>0, <2>1, StaysInTail
  <2>4. QED
    BY <2>1, <2>2, <2>3 DEF StreamEnd
<1>5. CASE WriterSeesInterrupt
  BY <1>5 DEF WriterSeesInterrupt, StreamEnd
<1>6. CASE HandleEvent \/ Pass2Fails
  BY <1>1, <1>6 DEF HandleEvent, Pass2Fails
<1>7. CASE \E p \in Positions : OnContentBlock(p)
  <2>1. PICK p \in Positions : OnContentBlock(p)
    BY <1>7
  <2>2. ~halfClosed /\ ~cancelled /\ trq' = trq \o <<p>>
        /\ UNCHANGED <<wpc, eos, halfClosed, cancelled>>
    BY <2>1 DEF OnContentBlock, Open2Way, Entry
  <2>3. p \in 0..Len(doc) /\ p # END
    BY <1>0 DEF END
  <2>4. Range(trq') = Range(trq) \cup {p}
    <3>1. trq' = Append(trq, p)
      BY <1>0, <2>2, <2>3, StaysInConcat
    <3>2. QED
      BY <1>0, <2>3, <3>1, RangeOfAppend
  <2>5. QED
    BY <2>2, <2>3, <2>4 DEF StreamEnd
<1>8. CASE OnCompleted
  <2>1. halfClosed' /\ trq' = Append(trq, END) /\ UNCHANGED <<wpc, eos, cancelled>>
    BY <1>8 DEF OnCompleted
  <2>2. END \in Range(trq')
    BY <1>0, <2>1, RangeOfAppend
  <2>3. QED
    BY <2>1, <2>2 DEF StreamEnd
<1>9. CASE OnError
  <2>1. /\ cancelled' /\ UNCHANGED <<wpc, eos, halfClosed>>
        /\ trq' = IF halfClosed THEN trq ELSE <<END>>
    BY <1>9 DEF OnError
  <2>2. Range(<<END>>) = {END}
    BY DEF Range
  <2>3. QED
    BY <2>1, <2>2 DEF StreamEnd
<1>10. CASE StuckTimeout \/ Shutdown \/ UNCHANGED vars
  BY <1>1, <1>10 DEF StuckTimeout, Shutdown, vars, StreamEnd
<1>11. QED
  BY <1>2, <1>3, <1>4, <1>5, <1>6, <1>7, <1>8, <1>9, <1>10 DEF Next, Writer, Requests

(***************************************************************************)
(* A list of the parts up to some event leaves out none before one it has. *)
(***************************************************************************)
LEMMA InitSentFirst == Init => SentFirst
  BY DEF Init, SentFirst, Range

LEMMA NextSentFirst ==
  TypeInv /\ ModeInv /\ SentInv /\ SentFirst /\ [Next]_vars => SentFirst'
<1> SUFFICES ASSUME TypeInv, ModeInv, SentInv, SentFirst, [Next]_vars PROVE SentFirst'
  OBVIOUS
<1> USE DEF readerVars, writerVars, respVars, reqVars, endVars
<1>1. doc' = doc /\ Cycle!Parts' = Cycle!Parts
  <2>1. doc' = doc
    BY WriterKeeps, ReaderKeeps, OthersLeave
  <2>2. QED
    BY <2>1 DEF Cycle!Parts
<1>2. CASE UNCHANGED sent
  BY <1>1, <1>2 DEF SentFirst
<1>3. /\ Len(doc) \in Nat /\ sent \in Seq(1..Len(doc)) /\ batch \in Seq(1..Len(doc))
      /\ sent \o <<>> = sent /\ Cycle!Parts \subseteq Int
  <2>1. Len(doc) \in Nat /\ sent \in Seq(1..Len(doc)) /\ batch \in Seq(1..Len(doc))
    BY DocIsSeq DEF TypeInv, ReaderTypes, ResponseTypes
  <2>2. sent \o <<>> = sent
    BY <2>1
  <2>3. QED
    BY <2>1, <2>2, PartsAreWanted DEF TypeInv
<1>4. ASSUME NEW n \in Int, Cycle!Lists(sent', n) PROVE SentFirst'
  <2>1. Range(sent') = {p \in Cycle!Parts : p <= n}
    BY <1>4, ListedParts
  <2>2. SentFirst' <=>
          /\ Range(sent') \subseteq Cycle!Parts
          /\ \A q \in Range(sent'), p \in Cycle!Parts : p < q => p \in Range(sent')
    BY <1>1 DEF SentFirst
  <2>3. ASSUME NEW q \in Range(sent'), NEW p \in Cycle!Parts, p < q
        PROVE  p \in Range(sent')
    <3>1. q \in Int /\ p \in Int /\ q <= n
      BY <1>3, <2>1
    <3>2. p <= n
      BY <2>3, <3>1
    <3>3. QED
      BY <2>1, <3>2
  <2>4. Range(sent') \subseteq Cycle!Parts
    BY <2>1
  <2>5. QED
    BY <2>2, <2>3, <2>4
<1>5. CASE ConvertEvent
  <2>1. PICK b \in Seq(1..Len(doc)), c \in Seq(1..Len(doc)) :
          /\ SendOr(b, IF mode = "single" THEN "put" ELSE "read")
          /\ b = <<>> \/ c = <<>>
          /\ Cycle!Lists(sent \o (b \o c), rpos)
    BY <1>5, ConvertedParts
  <2>2. CASE b = <<>>
    BY <1>2, <1>3, <2>1, <2>2 DEF SendOr
  <2>3. CASE c = <<>>
    <3>1. b \o c = b
      BY <2>3
    <3>2. UNCHANGED sent \/ Cycle!Lists(sent', rpos)
      BY <2>1, <3>1 DEF SendOr
    <3>3. QED
      BY <1>2, <1>4, <3>2, Numbers
  <2>4. QED
    BY <2>1, <2>2, <2>3
<1>6. CASE Flush
  <2>1. UNCHANGED sent \/ (sent' = sent \o batch /\ Cycle!Lists(sent \o batch, rpos))
    BY <1>3, <1>6 DEF Flush, SendOr, Rest, SentInv, Converted
  <2>2. QED
    BY <1>2, <1>4, <2>1, Numbers
<1>7. CASE ~(ConvertEvent \/ Flush)
  <2>1. UNCHANGED sent
    BY <1>7, WriterKeeps, OthersLeave
      DEF Reader, Open, NextEvent, ReadFails, PutEvent, PutEnd, StartPass2, JoinWriter,
          ReaderInterrupted, CloseWriter, SendReadDone, Catch, ReleaseSlot, SendComplete
  <2>2. QED
    BY <1>2, <2>1
<1>8. QED
  BY <1>5, <1>6, <1>7

-----------------------------------------------------------------------------
(* Answers in order.                                                         *)

(***************************************************************************)
(* The head of an ascending queue is below the rest, and END has no rest;  *)
(* the tail ascends, and so does the queue with a larger last entry.       *)
(***************************************************************************)
LEMMA AscendingTail ==
  ASSUME NEW q \in Seq(Int), q # <<>>, Ascending(q)
  PROVE  /\ Ascending(Tail(q))
         /\ Head(q) \notin Range(Tail(q))
         /\ \A x \in Range(q) : x = Head(q) \/ x = END \/ Head(q) < x
         /\ Head(q) = END => Range(Tail(q)) = {} /\ Range(q) = {END}
<1>1. Len(q) \in Nat /\ 1 \in DOMAIN q /\ Head(q) = q[1] /\ q[1] \in Int
      /\ DOMAIN q = 1..Len(q)
  OBVIOUS
<1>2. \A i \in DOMAIN Tail(q) : i \in Int /\ i + 1 \in DOMAIN q /\ Tail(q)[i] = q[i + 1]
                                /\ 1 < i + 1
  BY <1>1
<1>3. \A i \in DOMAIN q : 1 < i => q[1] # END /\ (q[i] = END \/ q[1] < q[i])
  BY <1>1 DEF Ascending
<1>4. Ascending(Tail(q))
  <2> SUFFICES ASSUME NEW i \in DOMAIN Tail(q), NEW j \in DOMAIN Tail(q), i < j
               PROVE  /\ Tail(q)[i] # END
                      /\ Tail(q)[j] = END \/ Tail(q)[i] < Tail(q)[j]
    BY DEF Ascending
  <2>1. i + 1 \in DOMAIN q /\ j + 1 \in DOMAIN q /\ i + 1 < j + 1
    BY <1>2
  <2>2. q[i + 1] # END /\ (q[j + 1] = END \/ q[i + 1] < q[j + 1])
    BY <2>1 DEF Ascending
  <2>3. QED
    BY <1>2, <2>2
<1>5. Head(q) \notin Range(Tail(q))
  <2> SUFFICES ASSUME NEW i \in DOMAIN Tail(q), Tail(q)[i] = q[1] PROVE FALSE
    BY <1>1 DEF Range
  <2>1. q[1] # END /\ (q[i + 1] = END \/ q[1] < q[i + 1])
    BY <1>2, <1>3
  <2>2. QED
    BY <1>1, <1>2, <2>1
<1>6. \A x \in Range(q) : x = Head(q) \/ x = END \/ Head(q) < x
  <2> SUFFICES ASSUME NEW i \in DOMAIN q PROVE i = 1 \/ q[i] = END \/ q[1] < q[i]
    BY <1>1 DEF Range
  <2>1. QED
    BY <1>1, <1>3
<1>7. Head(q) = END => Range(Tail(q)) = {} /\ Range(q) = {END}
  <2> SUFFICES ASSUME q[1] = END PROVE Range(Tail(q)) = {} /\ Range(q) = {END}
    BY <1>1
  <2>1. \A i \in DOMAIN q : i = 1
    BY <1>1, <1>3
  <2>2. DOMAIN Tail(q) = {}
    BY <1>2, <2>1
  <2>3. QED
    BY <1>1, <2>1, <2>2 DEF Range
<1>8. QED
  BY <1>4, <1>5, <1>6, <1>7

LEMMA AscendingAppend ==
  ASSUME NEW q \in Seq(Int), NEW x \in Int, Ascending(q), END \notin Range(q),
         x = END \/ \A y \in Range(q) : y < x
  PROVE  Ascending(Append(q, x))
<1>1. Len(q) \in Nat /\ DOMAIN q = 1..Len(q)
  OBVIOUS
<1> SUFFICES ASSUME NEW i \in DOMAIN Append(q, x), NEW j \in DOMAIN Append(q, x), i < j
             PROVE  /\ Append(q, x)[i] # END
                    /\ Append(q, x)[j] = END \/ Append(q, x)[i] < Append(q, x)[j]
  BY DEF Ascending
<1>2. i \in Int /\ j \in Int /\ i \in DOMAIN q /\ Append(q, x)[i] = q[i]
  BY <1>1
<1>3. q[i] \in Range(q) /\ q[i] # END
  BY <1>2 DEF Range
<1>4. CASE j \in DOMAIN q
  <2>1. Append(q, x)[j] = q[j]
    BY <1>4
  <2>2. QED
    BY <1>2, <1>3, <1>4, <2>1 DEF Ascending
<1>5. CASE j \notin DOMAIN q
  <2>1. Append(q, x)[j] = x
    BY <1>1, <1>5
  <2>2. QED
    BY <1>2, <1>3, <2>1
<1>6. QED
  BY <1>4, <1>5

(***************************************************************************)
(* The first answer to a block that the writer, looking for one, takes     *)
(* from the queue is the one it looks for; all others are to events that   *)
(* are no blocks.                                                          *)
(***************************************************************************)
LEMMA NextAnswerIsOwn ==
  ASSUME NamedBlocks, TypeInv, OrderInv, StreamEnd, Ordered, PollTranslation,
         Head(trq) # END
  PROVE  /\ Head(trq) \in echoed
         /\ IF IsTU(Head(trq)) THEN Head(trq) = wev /\ Matches(Head(trq))
                               ELSE ~Matches(Head(trq))
<1> DEFINE e == Head(trq)
<1>1. /\ wpc = "find" /\ wev \in Positions /\ IsTU(wev) /\ e \in Positions
      /\ Positions = 1..Len(doc) /\ Len(doc) \in Nat /\ doc \in Docs
  BY Polls DEF TypeInv
<1>2. trq \in Seq(0..Len(doc)) /\ trq # <<>> /\ trq \in Seq(Int)
  BY <1>1 DEF PollTranslation, TypeInv, EntryQueueTypes
<1>3. e \in Range(trq) /\ e \in echoed
  BY <1>2, RangeOfTail DEF Ordered
<1>4. CASE IsTU(e)
  <2>1. wev <= e
    <3>1. ~eos /\ e \notin {p \in Positions : IsTU(p) /\ Reached(p)}
      BY <1>1, <1>3 DEF StreamEnd, Ordered
    <3>2. QED
      BY <1>1, <1>4, <3>1 DEF Reached
  <2>2. wev \in Asked
    <3>1. client # "writer" => Wanted(wev)
      <4>1. client # "writer" => Wanted(e)
        BY <1>1, <1>3, PartsAreWanted DEF Ordered, Asked
      <4>2. QED
        BY <1>1, <1>4, <4>1 DEF Wanted, IsTU
    <3>2. QED
      BY <1>1, <3>1, PartsAreWanted DEF Asked
  <2>3. ASSUME wev < e PROVE FALSE
    <3>1. wev \in echoed
      BY <1>3, <2>2, <2>3 DEF Ordered
    <3>2. ~Reached(wev)
      BY <1>1 DEF Reached
    <3>3. wev \in Range(trq)
      BY <1>1, <1>3, <3>1, <3>2 DEF Ordered
    <3>4. QED
      BY <1>1, <1>2, <2>3, <3>3, AscendingTail DEF Ordered, END
  <2>4. e = wev
    BY <1>1, <2>1, <2>3
  <2>5. QED
    BY <1>3, <1>4, <2>4 DEF Matches
<1>5. CASE ~IsTU(e)
  <2>1. BlockId(e) = NoId /\ BlockId(wev) # NoId
    BY <1>1, <1>5 DEF BlockId, NamedBlocks, IsTU, Positions
  <2>2. QED
    BY <1>3, <1>5, <2>1 DEF Matches
<1>6. QED
  BY <1>4, <1>5

LEMMA InitOrdered == Init => Ordered
<1> SUFFICES ASSUME Init PROVE Ordered
  OBVIOUS
<1>1. Range(trq) = {} /\ Ascending(trq)
  BY DEF Init, Range, Ascending
<1>2. \A p \in Positions : p \in 1..Len(doc) /\ Len(doc) \in Nat
  BY DocIsSeq DEF Init
<1>3. \A p \in Positions : ~Reached(p) \/ p = 0
  BY <1>2 DEF Init, Reached
<1>4. QED
  BY <1>1, <1>2, <1>3 DEF Init, Ordered

LEMMA WriterOrdered ==
  ASSUME NamedBlocks, TypeInv, OrderInv, StreamEnd, Ordered, Writer
  PROVE  Ordered'
<1> USE DEF readerVars, writerVars, respVars, reqVars, endVars
<1>1. /\ UNCHANGED <<doc, client, echoed, cancelled>>
      /\ Len(doc) \in Nat /\ Positions = 1..Len(doc)
      /\ look \in [Ids -> 0..Len(doc)] /\ echoed \subseteq Positions
      /\ trq \in Seq(Int) /\ wev \in Int
      /\ \A p \in Positions : BlockId(p) \in Ids
  BY WriterKeeps, DocIsSeq, EntryTypes, Numbers
    DEF TypeInv, WriterTypes, RequestTypes, EntryQueueTypes
<1>2. /\ Asked' = Asked /\ Positions' = Positions /\ Ids' = Ids
      /\ \A p : IsTU(p)' = IsTU(p)
  BY <1>1 DEF Asked, Cycle!Parts, Positions, Ids, IsTU
<1> DEFINE Taken(p) == IsTU(p) /\ Reached(p)
           Waits(p) == p \in Range(trq) \/ Reached(p)
                         \/ (cancelled /\ Range(trq) \subseteq {END})
<1>3. ASSUME Ascending(trq'), Range(trq') \subseteq echoed \cup {END},
             \A id \in Ids : look'[id] = 0,
             ~eos' /\ wpc' # "failed" =>
               \A p \in Positions : IsTU(p) /\ Reached(p)' => p \in echoed /\ p \notin Range(trq'),
             \A p \in echoed : IsTU(p) => Waits(p)'
      PROVE  Ordered'
  BY <1>1, <1>2, <1>3 DEF Ordered
<1>4. /\ Ascending(trq) /\ Range(trq) \subseteq echoed \cup {END}
      /\ \A id \in Ids : look[id] = 0
      /\ ~eos /\ wpc # "failed" =>
           \A p \in Positions : Taken(p) => p \in echoed /\ p \notin Range(trq)
      /\ \A p \in echoed : IsTU(p) => Waits(p)
  BY DEF Ordered
<1>5. CASE TakeEvent \/ NextOfPass2
  <2>1. CASE wpc' = "done"
    <3>1. UNCHANGED <<look, trq, wev, eos>> /\ wpc = "poll"
      BY <1>5, <2>1 DEF TakeEvent, NextOfPass2, StartEvent
    <3>2. QED
      BY <1>1, <1>3, <1>4, <2>1, <3>1 DEF Reached
  <2>2. CASE wpc' # "done"
    <3> DEFINE n == wev + 1
    <3>1. wpc = "poll" /\ n \in Positions /\ StartEvent(n) /\ UNCHANGED <<trq, eos>>
      BY <1>5, <2>2, Starts
    <3>2. wev' = n /\ \A id \in Ids : look'[id] = 0
      BY <1>1, <1>4, <3>1 DEF StartEvent
    <3>3. IsTU(n) /\ ~eos => wpc' = "find"
      BY <1>1, <1>4, <3>1 DEF StartEvent, Found
    <3>4. \A p \in Positions : Reached(p) => Reached(p)'
      BY <1>1, <3>1, <3>2 DEF Reached
    <3>5. ~eos => \A p \in Positions : IsTU(p) /\ Reached(p)' => Reached(p)
      BY <1>1, <3>1, <3>2, <3>3 DEF Reached
    <3>6. QED
      BY <1>1, <1>3, <1>4, <3>1, <3>2, <3>4, <3>5
  <2>3. QED
    BY <2>1, <2>2
<1>6. CASE PollTranslation
  <2> DEFINE e == Head(trq)
  <2>1. /\ wpc = "find" /\ ~eos /\ wev \in Positions /\ IsTU(wev)
        /\ UNCHANGED wev /\ trq' = Tail(trq) /\ trq # <<>>
    BY <1>6, Polls DEF PollTranslation, StreamEnd
  <2>2. Ascending(trq') /\ e \notin Range(trq') /\ Range(trq') \subseteq Range(trq)
    BY <1>1, <1>4, <2>1, AscendingTail, RangeOfTail
  <2>3. \A p \in Range(trq) : p # e => p \in Range(trq')
    BY <1>1, <2>1, StaysInTail
  <2>4. \A p \in Positions : Reached(p) => Reached(p)'
    BY <2>1 DEF Reached
  <2>5. CASE e = END
    <3>1. UNCHANGED look /\ eos'
      BY <1>6, <2>5 DEF PollTranslation
    <3>2. \A p \in Positions : p # e
      BY <1>1, <2>5 DEF END
    <3>3. QED
      BY <1>1, <1>3, <1>4, <2>2, <2>3, <2>4, <3>1, <3>2
  <2>6. CASE e # END /\ IsTU(e)
    <3>1. e = wev /\ Matches(e) /\ e \in echoed
      BY <1>6, <2>6, NextAnswerIsOwn
    <3>2. UNCHANGED look /\ wpc' = "handle"
      BY <1>6, <2>6, <3>1 DEF PollTranslation
    <3>3. \A p \in Positions : Reached(p)' => Reached(p) \/ p = e
      BY <2>1, <3>1 DEF Reached
    <3>4. \A p \in Positions : p = e => Reached(p)'
      BY <2>1, <3>1, <3>2 DEF Reached
    <3>5. ASSUME NEW p \in Positions, IsTU(p), Reached(p)'
          PROVE  p \in echoed /\ p \notin Range(trq')
      BY <1>4, <2>1, <2>2, <3>1, <3>3, <3>5
    <3>6. ASSUME NEW p \in echoed, IsTU(p) PROVE Waits(p)'
      BY <1>1, <1>4, <2>2, <2>3, <2>4, <3>4, <3>6
    <3>7. QED
      BY <1>3, <1>4, <2>2, <3>2, <3>5, <3>6
  <2>7. CASE e # END /\ ~IsTU(e)
    <3>1. ~Matches(e) /\ e \in echoed
      BY <1>6, <2>7, NextAnswerIsOwn
    <3>2. UNCHANGED <<wpc, eos>> /\ look' = [look EXCEPT ![BlockId(e)] = Segments(e)]
      BY <1>6, <2>7, <3>1 DEF PollTranslation, Keep
    <3>3. Segments(e) = 0
      BY <2>7 DEF Segments
    <3>4. \A id \in Ids : look'[id] = 0
      BY <1>1, <1>4, <3>2, <3>3
    <3>5. \A p \in Positions : Reached(p)' <=> Reached(p)
      BY <2>1, <3>2 DEF Reached
    <3>6. ASSUME NEW p \in echoed, IsTU(p) PROVE Waits(p)'
      BY <1>1, <1>4, <2>2, <2>3, <2>7, <3>5, <3>6
    <3>7. QED
      BY <1>3, <1>4, <2>1, <2>2, <3>2, <3>4, <3>5, <3>6
  <2>8. QED
    BY <2>5, <2>6, <2>7
<1>7. CASE WriterSeesInterrupt \/ HandleEvent \/ Pass2Fails
  <2>1. /\ UNCHANGED <<wev, look, trq>> /\ wpc' # "find"
        /\ eos' \/ wpc' = "failed" \/ (eos' = eos /\ wpc = "handle")
    BY <1>7 DEF WriterSeesInterrupt, HandleEvent, Pass2Fails
  <2>2. \A p \in Positions : Reached(p) => Reached(p)'
    BY <2>1 DEF Reached
  <2>3. wpc = "handle" => \A p \in Positions : Reached(p)' => Reached(p)
    BY <2>1 DEF Reached
  <2>4. \A p \in echoed : IsTU(p) => Waits(p)'
    BY <1>1, <1>4, <2>1, <2>2
  <2>5. QED
    BY <1>3, <1>4, <2>1, <2>3, <2>4
<1>8. QED
  BY <1>5, <1>6, <1>7 DEF Writer

(***************************************************************************)
(* The client answers the least block it was asked for and has not         *)
(* answered yet, so its answers arrive in the order of the document.       *)
(***************************************************************************)
LEMMA AnswersInOrder ==
  ASSUME TypeInv, SentFirst, StreamEnd, Ordered, client # "reorder",
         NEW p \in Positions, OnContentBlock(p)
  PROVE  Ordered'
<1> USE DEF readerVars, writerVars, respVars, reqVars, endVars
<1>1. /\ Len(doc) \in Nat /\ Positions = 1..Len(doc) /\ p \in 0..Len(doc) /\ p # END
      /\ trq \in Seq(Int) /\ trq \in Seq(0..Len(doc)) /\ echoed \subseteq Positions
      /\ client \in {"echo", "writer"} /\ doc \in Docs
  BY DocIsSeq, Numbers, ShapeAssumption DEF TypeInv, EntryQueueTypes, RequestTypes, END
<1>2. /\ UNCHANGED <<doc, client, wpc, wev, look, eos, cancelled>>
      /\ ~halfClosed /\ ~cancelled
      /\ p \in Offered \ echoed /\ \A q \in Offered \ echoed : p <= q
      /\ echoed' = echoed \cup {p} /\ trq' = trq \o <<p>>
  BY DEF OnContentBlock, Open2Way, Entry
<1>3. /\ Asked' = Asked /\ Positions' = Positions /\ Ids' = Ids
      /\ \A q : IsTU(q)' = IsTU(q) /\ Reached(q)' = Reached(q)
  BY <1>2 DEF Asked, Cycle!Parts, Positions, Ids, IsTU, Reached
<1>4. trq' = Append(trq, p) /\ Range(trq') = Range(trq) \cup {p}
  <2>1. trq' = Append(trq, p)
    BY <1>1, <1>2, StaysInConcat
  <2>2. QED
    BY <1>1, <2>1, RangeOfAppend
<1>5. END \notin Range(trq) /\ Range(trq) \subseteq echoed
  BY <1>2 DEF StreamEnd, Ordered
<1>6. Offered \subseteq Asked
  BY <1>1 DEF Offered, Asked, SentFirst
<1>7. ASSUME NEW q \in Asked, q < p PROVE q \in echoed
  <2>1. q \in Positions
    BY <1>7, <1>1, PartsAreWanted DEF Asked
  <2>2. q \in Offered
    BY <1>1, <1>2, <1>7 DEF Offered, Asked, SentFirst
  <2>3. QED
    BY <1>1, <1>2, <1>7, <2>1, <2>2
<1>8. \A q \in echoed : q < p
  <2> SUFFICES ASSUME NEW q \in echoed, ~(q < p) PROVE FALSE
    OBVIOUS
  <2>1. q # p /\ q \in Int /\ p \in Int
    BY <1>1, <1>2
  <2>2. p < q /\ p \in Asked
    BY <1>2, <1>6, <2>1
  <2>3. QED
    BY <1>2, <2>2 DEF Ordered
<1>9. Ascending(trq')
  <2>1. Ascending(trq) /\ p \in Int
    BY <1>1 DEF Ordered
  <2>2. \A y \in Range(trq) : y < p
    BY <1>5, <1>8
  <2>3. Ascending(Append(trq, p))
    BY <1>1, <1>5, <2>1, <2>2, AscendingAppend
  <2>4. QED
    BY <1>4, <2>3
<1>10. \A r \in echoed', q \in Asked : q < r => q \in echoed'
  BY <1>2, <1>7 DEF Ordered
<1>11. /\ echoed' \subseteq Asked /\ Range(trq') \subseteq echoed' \cup {END}
       /\ \A id \in Ids : look'[id] = 0
  BY <1>2, <1>4, <1>5, <1>6 DEF Ordered
<1>12. ~eos' /\ wpc' # "failed" =>
         \A q \in Positions : IsTU(q) /\ Reached(q) => q \in echoed' /\ q \notin Range(trq')
  BY <1>2, <1>4 DEF Ordered
<1>13. \A q \in echoed' : IsTU(q) => q \in Range(trq') \/ Reached(q)
  BY <1>2, <1>4 DEF Ordered
<1>14. QED
  BY <1>3, <1>9, <1>10, <1>11, <1>12, <1>13 DEF Ordered

LEMMA NextOrdered ==
  ASSUME InOrder
  PROVE  TypeInv /\ ModeInv /\ OrderInv /\ SentFirst /\ StreamEnd /\ Ordered /\ [Next]_vars
           => Ordered'
<1> SUFFICES ASSUME TypeInv, ModeInv, OrderInv, SentFirst, StreamEnd, Ordered,
                    [Next]_vars, ~Writer
             PROVE  Ordered'
  BY WriterOrdered DEF InOrder
<1> USE DEF readerVars, writerVars, respVars, reqVars, endVars
<1>1. /\ UNCHANGED <<doc, client, wev, look, eos>>
      /\ wpc' = wpc \/ (wpc' = "failed" /\ wpc \in {"find", "poll"})
                    \/ (wpc = "off" /\ wpc' = "poll")
  BY ReaderKeeps, OthersLeave DEF ModeInv
<1>2. /\ Asked' = Asked /\ Positions' = Positions /\ Ids' = Ids
      /\ \A p : IsTU(p)' = IsTU(p) /\ (Reached(p) => Reached(p)')
      /\ wpc' # "failed" => \A p : Reached(p)' => Reached(p)
  BY <1>1 DEF Asked, Cycle!Parts, Positions, Ids, IsTU, Reached
<1>3. /\ Len(doc) \in Nat /\ Positions = 1..Len(doc) /\ trq \in Seq(Int) /\ END \in Int
      /\ echoed \subseteq Positions /\ client # "reorder"
  <2>1. Len(doc) \in Nat /\ Positions = 1..Len(doc) /\ trq \in Seq(0..Len(doc))
        /\ echoed \subseteq Positions
    BY DocIsSeq DEF TypeInv, RequestTypes, EntryQueueTypes
  <2>2. client # "reorder"
    BY DEF TypeInv, InOrder
  <2>3. QED
    BY <2>1, <2>2 DEF END
<1>4. CASE \E p \in Positions : OnContentBlock(p)
  BY <1>3, <1>4, AnswersInOrder
<1>5. CASE OnCompleted
  <2>1. ~halfClosed /\ ~cancelled /\ trq' = Append(trq, END) /\ UNCHANGED <<echoed, cancelled>>
    BY <1>5 DEF OnCompleted, Open2Way
  <2>2. END \notin Range(trq) /\ Range(trq') = Range(trq) \cup {END}
    BY <1>3, <2>1, RangeOfAppend DEF StreamEnd
  <2>3. Ascending(trq')
    BY <1>3, <2>1, <2>2, AscendingAppend DEF Ordered
  <2>4. \A p \in Positions : p # END
    BY <1>3 DEF END
  <2>5. QED
    BY <1>1, <1>2, <2>1, <2>2, <2>3, <2>4 DEF Ordered
<1>6. CASE OnError
  <2>1. cancelled' /\ UNCHANGED echoed /\ trq' = IF halfClosed THEN trq ELSE <<END>>
    BY <1>6 DEF OnError
  <2>2. Range(<<END>>) = {END} /\ Ascending(<<END>>)
    BY DEF Range, Ascending
  <2>3. \A p \in Positions : p # END
    BY <1>3 DEF END
  <2>4. CASE halfClosed
    BY <1>1, <1>2, <2>1, <2>4 DEF Ordered
  <2>5. CASE ~halfClosed
    <3>1. trq' = <<END>> /\ cancelled' /\ UNCHANGED echoed
      BY <2>1, <2>5
    <3>2. QED
      BY <1>1, <1>2, <2>2, <2>3, <3>1 DEF Ordered
  <2>6. QED
    BY <2>4, <2>5
<1>7. CASE UNCHANGED <<echoed, trq, cancelled>>
  BY <1>1, <1>2, <1>7 DEF Ordered
<1>8. UNCHANGED <<echoed, trq, cancelled>> \/ OnCompleted \/ OnError
        \/ \E p \in Positions : OnContentBlock(p)
  BY ReaderKeeps DEF Next, StuckTimeout, Requests, Shutdown, vars
<1>9. QED
  BY <1>4, <1>5, <1>6, <1>7, <1>8

-----------------------------------------------------------------------------
(* No block is written with the translation of another one.                  *)

\* The entry the writer takes, for the block it is handed to or kept for, carries
\* the segments of that block, or none.
HeadFits ==
  PollTranslation /\ Head(trq) # END =>
    IF Matches(Head(trq))
      THEN Segments(Head(trq)) \in {0, Segments(wev)}
      ELSE \A p \in Positions :
             IsTU(p) /\ BlockId(p) = BlockId(Head(trq)) =>
               Segments(Head(trq)) \in {0, Segments(p)}

LEMMA IdsFit ==
  ASSUME DistinctIds, TypeInv, OrderInv PROVE HeadFits
<1> SUFFICES ASSUME PollTranslation, Head(trq) # END PROVE HeadFits
  BY DEF HeadFits
<1>1. Head(trq) \in Positions /\ doc \in Docs /\ wev \in Positions /\ IsTU(wev)
  BY Polls DEF TypeInv
<1>2. ASSUME NEW p \in Positions, IsTU(p), BlockId(p) = BlockId(Head(trq))
      PROVE  Segments(Head(trq)) \in {0, Segments(p)}
  BY <1>1, <1>2, SegmentsOf, IdsTellApart
<1>3. QED
  BY <1>1, <1>2 DEF HeadFits, Matches

LEMMA OrderFits ==
  ASSUME NamedBlocks, TypeInv, OrderInv, StreamEnd, Ordered PROVE HeadFits
<1> SUFFICES ASSUME PollTranslation, Head(trq) # END PROVE HeadFits
  BY DEF HeadFits
<1>1. CASE IsTU(Head(trq))
  BY <1>1, NextAnswerIsOwn DEF HeadFits
<1>2. CASE ~IsTU(Head(trq))
  <2>1. Segments(Head(trq)) = 0
    BY <1>2 DEF Segments
  <2>2. QED
    BY <2>1 DEF HeadFits
<1>3. QED
  BY <1>1, <1>2

LEMMA InitOwn == Init => OwnSegments
<1> SUFFICES ASSUME Init PROVE OwnSegments
  OBVIOUS
<1>1. \A p \in Positions : BlockId(p) \in Ids
  BY DEF BlockId, Ids
<1>2. QED
  BY <1>1 DEF Init, OwnSegments, Working

LEMMA WriterOwn ==
  ASSUME HeadFits, TypeInv, OrderInv, OwnSegments, Writer
  PROVE  OwnSegments'
<1> USE DEF readerVars, writerVars, respVars, reqVars, endVars
<1>1. /\ UNCHANGED <<doc, client>>
      /\ doc \in Docs /\ Len(doc) \in Nat /\ Positions = 1..Len(doc)
      /\ look \in [Ids -> 0..Len(doc)]
      /\ \A p \in Positions : BlockId(p) \in Ids
  BY WriterKeeps, DocIsSeq, EntryTypes DEF TypeInv, WriterTypes
<1>2. /\ Positions' = Positions /\ \A p : Segments(p)' = Segments(p)
      /\ \A p : IsTU(p)' = IsTU(p) /\ BlockId(p)' = BlockId(p)
  BY <1>1 DEF Positions, Segments, IsTU, BlockId
<1> DEFINE LookOwn == \A p \in Positions : IsTU(p) => look[BlockId(p)] \in {0, Segments(p)}
           OutOwn == \A i \in DOMAIN out : out[i].ev = i /\ out[i].seg \in {0, i}
<1>3. LookOwn /\ OutOwn
  BY DEF OwnSegments
<1>4. CASE TakeEvent \/ NextOfPass2
  <2>1. CASE wpc' = "done"
    <3>1. UNCHANGED <<look, out>>
      BY <1>4, <2>1 DEF TakeEvent, NextOfPass2, StartEvent
    <3>2. QED
      BY <1>1, <1>2, <1>3, <2>1, <3>1 DEF OwnSegments, Working
  <2>2. CASE wpc' # "done"
    <3> DEFINE n == wev + 1
    <3>1. n \in Positions /\ StartEvent(n) /\ UNCHANGED out
      BY <1>4, <2>2, Starts
    <3>2. wev' = n /\ wseg' \in {0, Segments(n)}
      BY <1>3, <3>1 DEF StartEvent, Found
    <3>3. LookOwn'
      BY <1>1, <1>2, <1>3, <3>1 DEF StartEvent
    <3>4. QED
      BY <1>2, <1>3, <3>1, <3>2, <3>3 DEF OwnSegments
  <2>3. QED
    BY <2>1, <2>2
<1>5. CASE PollTranslation
  <2>1. /\ wpc = "find" /\ wev \in Positions /\ IsTU(wev)
        /\ Head(trq) # END => Head(trq) \in Positions
    BY <1>5, Polls
  <2>2. UNCHANGED <<wev, out>>
    BY <1>5 DEF PollTranslation
  <2>3. wseg \in {0, Segments(wev)}
    BY <2>1 DEF OwnSegments, Working
  <2>4. CASE Head(trq) = END
    <3>1. UNCHANGED <<wseg, look>>
      BY <1>5, <2>4 DEF PollTranslation
    <3>2. QED
      BY <1>1, <1>2, <1>3, <2>2, <2>3, <3>1 DEF OwnSegments
  <2>5. CASE Head(trq) # END /\ Matches(Head(trq))
    <3>1. wseg' = Segments(Head(trq)) /\ UNCHANGED look
      BY <1>5, <2>5 DEF PollTranslation
    <3>2. Segments(Head(trq)) \in {0, Segments(wev)}
      BY <1>5, <2>5 DEF HeadFits
    <3>3. QED
      BY <1>1, <1>2, <1>3, <2>2, <3>1, <3>2 DEF OwnSegments
  <2>6. CASE Head(trq) # END /\ ~Matches(Head(trq))
    <3> DEFINE e == Head(trq)
    <3>1. UNCHANGED wseg /\ look' = [look EXCEPT ![BlockId(e)] = Segments(e)]
      BY <1>5, <2>6 DEF PollTranslation, Keep
    <3>2. e \in Positions
      BY <2>1, <2>6
    <3>3. \A p \in Positions :
            IsTU(p) /\ BlockId(p) = BlockId(e) => Segments(e) \in {0, Segments(p)}
      BY <1>5, <2>6 DEF HeadFits
    <3> HIDE DEF e
    <3>4. ASSUME NEW p \in Positions, IsTU(p)
          PROVE  look'[BlockId(p)] \in {0, Segments(p)}
      <4>1. CASE BlockId(p) = BlockId(e)
        <5>1. look'[BlockId(p)] = Segments(e)
          BY <1>1, <3>1, <3>2, <4>1
        <5>2. Segments(e) \in {0, Segments(p)}
          BY <3>4, <3>3, <4>1
        <5>3. QED
          BY <5>1, <5>2
      <4>2. CASE BlockId(p) # BlockId(e)
        <5>1. look'[BlockId(p)] = look[BlockId(p)]
          BY <1>1, <3>1, <4>2
        <5>2. QED
          BY <1>3, <3>4, <5>1
      <4>3. QED
        BY <4>1, <4>2
    <3>5. LookOwn'
      BY <1>2, <3>4
    <3>6. QED
      BY <1>2, <1>3, <2>2, <2>3, <3>1, <3>5 DEF OwnSegments
  <2>7. QED
    BY <2>4, <2>5, <2>6
<1>6. CASE HandleEvent
  <2>1. UNCHANGED look /\ wpc' \notin Working /\ wpc = "handle"
        /\ (out' = out \/ out' = Append(out, [ev |-> wev, seg |-> wseg]))
    BY <1>6 DEF HandleEvent, Working
  <2>2. LookOwn'
    BY <1>1, <1>2, <1>3, <2>1
  <2>3. OutOwn'
    <3>1. CASE out' = out
      BY <1>3, <3>1
    <3>2. CASE out' = Append(out, [ev |-> wev, seg |-> wseg])
      <4>1. Len(out) + 1 = wev /\ wseg \in {0, wev}
        BY <2>1, SegmentsOf DEF OrderInv, OutputOrder, OwnSegments, Working
      <4>2. out \in Seq([ev : 1..Len(doc), seg : 0..Len(doc)])
        BY DEF TypeInv, OutputTypes
      <4>3. ASSUME NEW i \in DOMAIN out'
            PROVE  out'[i].ev = i /\ out'[i].seg \in {0, i}
        <5>1. Len(out) \in Nat /\ i \in 1..Len(out) + 1
          BY <3>2, <4>2
        <5>2. CASE i = Len(out) + 1
          <6>1. out'[i] = [ev |-> wev, seg |-> wseg]
            BY <3>2, <4>2, <5>1, <5>2
          <6>2. QED
            BY <4>1, <5>2, <6>1
        <5>3. CASE i # Len(out) + 1
          <6>1. i \in DOMAIN out
            BY <4>2, <5>1, <5>3
          <6>2. out'[i] = out[i]
            BY <3>2, <4>2, <5>1, <5>3, <6>1
          <6>3. QED
            BY <1>3, <6>1, <6>2
        <5>4. QED
          BY <5>2, <5>3
      <4>4. QED
        BY <4>3
    <3>3. QED
      BY <2>1, <3>1, <3>2
  <2>4. QED
    BY <2>1, <2>2, <2>3 DEF OwnSegments
<1>7. CASE WriterSeesInterrupt \/ Pass2Fails
  <2>1. UNCHANGED <<wev, wseg, look, out>> /\ (wpc' \in Working => wpc \in Working)
    BY <1>7 DEF WriterSeesInterrupt, Pass2Fails, Working
  <2>2. QED
    BY <1>1, <1>2, <1>3, <2>1 DEF OwnSegments
<1>8. QED
  BY <1>4, <1>5, <1>6, <1>7 DEF Writer

LEMMA NextOwn ==
  HeadFits /\ TypeInv /\ OrderInv /\ OwnSegments /\ [Next]_vars => OwnSegments'
<1> SUFFICES ASSUME TypeInv, OrderInv, OwnSegments, [Next]_vars, ~Writer
             PROVE  OwnSegments'
  BY WriterOwn
<1>1. UNCHANGED <<doc, client, wev, wseg, look, out>>
      /\ (wpc' \in Working => wpc \in Working)
  BY ReaderKeeps, OthersLeave DEF Working
<1>2. /\ Positions' = Positions /\ \A p : Segments(p)' = Segments(p)
      /\ \A p : IsTU(p)' = IsTU(p) /\ BlockId(p)' = BlockId(p)
  BY <1>1 DEF Positions, Segments, IsTU, BlockId
<1>3. QED
  BY <1>1, <1>2 DEF OwnSegments

-----------------------------------------------------------------------------
(* The two ways to keep blocks apart.                                        *)

\* What holds of all streams, and for clients that answer in order, of theirs.
BaseInv == TypeInv /\ ModeInv /\ OrderInv /\ DoneInv /\ SentInv /\ SentFirst /\ StreamEnd
OwnInv == BaseInv /\ (InOrder => Ordered) /\ OwnSegments

(***************************************************************************)
(* Either the ids tell the blocks apart, or the order of the answers does. *)
(***************************************************************************)
LEMMA InitOwnInv == Init => OwnInv
BY InitTyped, InitMode, InitOrder, InitDone, InitSent, InitSentFirst, InitStreamEnd,
   InitOrdered, InitOwn DEF OwnInv, BaseInv

LEMMA NextOwnInv ==
  ASSUME DistinctIds \/ InOrder
  PROVE  OwnInv /\ [Next]_vars => OwnInv'
<1> SUFFICES ASSUME OwnInv, [Next]_vars PROVE OwnInv'
  OBVIOUS
<1>1. BaseInv'
  BY NextTyped, NextMode, NextOrder, NextDone, NextSent, NextSentFirst, NextStreamEnd
    DEF OwnInv, BaseInv
<1>2. InOrder => Ordered'
  BY NextOrdered DEF OwnInv, BaseInv
<1>3. HeadFits
  BY IdsFit, OrderFits DEF OwnInv, BaseInv, InOrder
<1>4. OwnSegments'
  BY <1>3, NextOwn DEF OwnInv, BaseInv
<1>5. QED
  BY <1>1, <1>2, <1>4 DEF OwnInv, InOrder, NamedBlocks

LEMMA OwnInvHolds ==
  ASSUME DistinctIds \/ InOrder PROVE Spec => []OwnInv
BY InitOwnInv, NextOwnInv, PTL DEF Spec

(***************************************************************************)
(* Every event is written once and in order, and no text unit with the     *)
(* translation of another, whatever fails: where the blocks of a document  *)
(* have distinct ids, in whatever order the client answers; where the      *)
(* client answers in order, whatever ids repeat.                           *)
(***************************************************************************)
THEOREM OutputIsAligned ==
  ASSUME DistinctIds \/ InOrder PROVE Spec => []AlignedOutput
<1>1. OwnInv => AlignedOutput
  BY DEF OwnInv, OwnSegments, AlignedOutput
<1>2. QED
  BY OwnInvHolds, <1>1, PTL

-----------------------------------------------------------------------------
(* No answer is lost on its way to the writer.                               *)

LEMMA InitServed == Init => Served
  BY DEF Init, Served

LEMMA WriterServed ==
  ASSUME DistinctIds, NamedBlocks, TypeInv, OrderInv, OwnSegments, Served, Writer
  PROVE  Served'
<1> USE DEF readerVars, writerVars, respVars, reqVars, endVars
<1>1. /\ UNCHANGED <<doc, client, echoed, cancelled>>
      /\ doc \in Docs /\ Len(doc) \in Nat /\ Positions = 1..Len(doc)
      /\ look \in [Ids -> 0..Len(doc)] /\ echoed \subseteq Positions
      /\ trq \in Seq(0..Len(doc)) /\ wev \in 0..Len(doc)
      /\ \A p \in Positions : BlockId(p) \in Ids
  BY WriterKeeps, DocIsSeq, EntryTypes
    DEF TypeInv, WriterTypes, RequestTypes, EntryQueueTypes
<1>2. \A p : Segments(p)' = Segments(p) /\ BlockId(p)' = BlockId(p)
  BY <1>1 DEF Segments, IsTU, BlockId
<1> DEFINE Waits(p) ==
             p \in Range(trq) \/ look[BlockId(p)] = p \/ Reached(p) \/ cancelled
<1>3. ASSUME \A p \in echoed : Segments(p) # 0 => Waits(p)',
             wpc' = "find" => look'[BlockId(wev')] = 0
      PROVE  Served'
  <2>1. (BlockId(wev))' = BlockId(wev')
    BY <1>1 DEF BlockId, IsTU
  <2>2. QED
    BY <1>1, <1>2, <1>3, <2>1 DEF Served
<1>4. ASSUME NEW p \in echoed, Segments(p) # 0
      PROVE  /\ p \in Positions /\ IsTU(p) /\ Segments(p) = p
             /\ p \in Int /\ p # 0 /\ Waits(p)
  BY <1>1, <1>4, SegmentsOf DEF Served
<1>5. CASE TakeEvent \/ NextOfPass2
  <2>1. CASE wpc' = "done"
    <3>1. UNCHANGED <<look, trq, wev>> /\ wpc = "poll"
      BY <1>5, <2>1 DEF TakeEvent, NextOfPass2, StartEvent
    <3>2. QED
      BY <1>1, <1>2, <1>3, <1>4, <2>1, <3>1 DEF Reached
  <2>2. CASE wpc' # "done"
    <3> DEFINE n == wev + 1
    <3>1. wpc = "poll" /\ n \in Positions /\ StartEvent(n) /\ UNCHANGED trq
      BY <1>5, <2>2, Starts
    <3>2. wev' = n /\ n \in Int
      BY <1>1, <3>1 DEF StartEvent
    <3>3. wpc' = "find" => look'[BlockId(wev')] = 0
      BY <1>1, <3>1, <3>2 DEF StartEvent
    <3>4. ASSUME NEW p \in echoed, Segments(p) # 0 PROVE Waits(p)'
      <4>1. p \in Positions /\ IsTU(p) /\ p \in Int /\ p # 0 /\ Waits(p)
        BY <1>4, <3>4
      <4>2. CASE p \in Range(trq)
        BY <3>1, <4>2
      <4>3. CASE Reached(p)
        BY <1>1, <3>2, <4>1, <4>3 DEF Reached
      <4>4. CASE look[BlockId(p)] = p /\ p = n
        <5>1. wpc' = "handle"
          BY <3>1, <4>1, <4>4 DEF StartEvent, Found
        <5>2. QED
          BY <3>2, <4>4, <5>1 DEF Reached
      <4>5. CASE look[BlockId(p)] = p /\ p # n
        <5>1. IsTU(n) => BlockId(p) # BlockId(n)
          BY <1>1, <3>1, <4>1, <4>5, IdsTellApart
        <5>2. look'[BlockId(p)] = p
          BY <1>1, <3>1, <4>1, <4>5, <5>1 DEF StartEvent
        <5>3. QED
          BY <1>2, <5>2
      <4>6. CASE cancelled
        BY <1>1, <4>6
      <4>7. QED
        BY <4>1, <4>2, <4>3, <4>4, <4>5, <4>6
    <3>5. QED
      BY <1>3, <3>3, <3>4
  <2>3. QED
    BY <2>1, <2>2
<1>6. CASE PollTranslation
  <2> DEFINE e == Head(trq)
  <2>1. /\ wpc = "find" /\ wev \in Positions /\ IsTU(wev)
        /\ e # END => e \in Positions
    BY <1>6, Polls
  <2>2. UNCHANGED wev /\ trq' = Tail(trq) /\ trq # <<>>
    BY <1>6 DEF PollTranslation
  <2>3. \A p \in Range(trq) : p # e => p \in Range(trq')
    BY <1>1, <2>2, StaysInTail
  <2>4. look[BlockId(wev)] = 0
    BY <2>1 DEF Served
  <2>5. CASE e = END
    <3>1. UNCHANGED look /\ wpc' = "handle"
      BY <1>6, <2>5 DEF PollTranslation
    <3>2. ASSUME NEW p \in echoed, Segments(p) # 0 PROVE Waits(p)'
      BY <1>1, <1>2, <1>4, <2>2, <2>3, <2>5, <3>1, <3>2 DEF Reached, END
    <3>3. QED
      BY <1>3, <3>1, <3>2
  <2>6. CASE e # END /\ Matches(e)
    <3>1. UNCHANGED look /\ wpc' = "handle" /\ BlockId(e) = BlockId(wev)
      BY <1>6, <2>6 DEF PollTranslation, Matches
    <3>2. ASSUME NEW p \in echoed, Segments(p) # 0 PROVE Waits(p)'
      <4>1. p \in Positions /\ IsTU(p) /\ Waits(p)
        BY <1>4, <3>2
      <4>2. CASE p = e
        <5>1. p = wev
          BY <1>1, <2>1, <3>1, <4>1, <4>2, IdsTellApart
        <5>2. QED
          BY <2>2, <3>1, <5>1 DEF Reached
      <4>3. CASE p # e
        BY <1>1, <1>2, <2>2, <2>3, <3>1, <4>1, <4>3 DEF Reached
      <4>4. QED
        BY <4>2, <4>3
    <3>3. QED
      BY <1>3, <3>1, <3>2
  <2>7. CASE e # END /\ ~Matches(e)
    <3>1. /\ look' = [look EXCEPT ![BlockId(e)] = Segments(e)]
          /\ wpc' = wpc /\ BlockId(e) # BlockId(wev) /\ e \in Positions
      BY <1>6, <2>1, <2>7 DEF PollTranslation, Matches, Keep
    <3>2. look'[BlockId(wev')] = 0
      BY <1>1, <2>1, <2>2, <2>4, <3>1
    <3>3. ASSUME NEW p \in echoed, Segments(p) # 0 PROVE Waits(p)'
      <4>1. p \in Positions /\ IsTU(p) /\ Segments(p) = p /\ Waits(p)
        BY <1>4, <3>3
      <4>2. CASE p = e
        <5>1. look'[BlockId(p)] = p
          BY <1>1, <3>1, <4>1, <4>2
        <5>2. QED
          BY <1>2, <5>1
      <4>3. CASE p # e
        <5>1. BlockId(p) # BlockId(e)
          BY <1>1, <3>1, <4>1, <4>3, NamesTellApart
        <5>2. look'[BlockId(p)] = look[BlockId(p)]
          BY <1>1, <3>1, <4>1, <5>1
        <5>3. QED
          BY <1>1, <1>2, <2>2, <2>3, <3>1, <4>1, <4>3, <5>2 DEF Reached
      <4>4. QED
        BY <4>2, <4>3
    <3>4. QED
      BY <1>3, <3>2, <3>3
  <2>8. QED
    BY <2>5, <2>6, <2>7
<1>7. CASE WriterSeesInterrupt \/ HandleEvent \/ Pass2Fails
  <2>1. UNCHANGED <<wev, look, trq>> /\ wpc' # "find"
    BY <1>7 DEF WriterSeesInterrupt, HandleEvent, Pass2Fails
  <2>2. QED
    BY <1>1, <1>2, <1>3, <1>4, <2>1 DEF Reached
<1>8. QED
  BY <1>5, <1>6, <1>7 DEF Writer

LEMMA NextServed ==
  ASSUME DistinctIds, NamedBlocks
  PROVE  TypeInv /\ OrderInv /\ OwnSegments /\ Served /\ [Next]_vars => Served'
<1> SUFFICES ASSUME TypeInv, OrderInv, OwnSegments, Served, [Next]_vars, ~Writer
             PROVE  Served'
  BY WriterServed
<1> USE DEF readerVars, writerVars, respVars, reqVars, endVars
<1>1. UNCHANGED <<doc, client, wev, look>> /\ (wpc' = "find" => wpc = "find")
  BY ReaderKeeps, OthersLeave
<1>2. /\ \A p : Segments(p)' = Segments(p) /\ BlockId(p)' = BlockId(p)
      /\ (BlockId(wev))' = BlockId(wev)
  BY <1>1 DEF Segments, IsTU, BlockId
<1>3. CASE \E p \in Positions : OnContentBlock(p)
  <2>1. PICK p \in Positions : OnContentBlock(p)
    BY <1>3
  <2>2. p \in 0..Len(doc) /\ trq \in Seq(0..Len(doc))
    BY DocIsSeq DEF TypeInv, EntryQueueTypes
  <2>3. echoed' = echoed \cup {p} /\ trq' = trq \o <<p>> /\ UNCHANGED cancelled
    BY <2>1 DEF OnContentBlock, Entry
  <2>4. Range(trq) \subseteq Range(trq') /\ p \in Range(trq')
    BY <2>2, <2>3, StaysInConcat
  <2>5. QED
    BY <1>1, <1>2, <2>3, <2>4 DEF Served, Reached
<1>4. CASE OnCompleted
  <2>1. 0 \in 0..Len(doc) /\ trq \in Seq(0..Len(doc))
    BY DocIsSeq DEF TypeInv, EntryQueueTypes
  <2>2. UNCHANGED <<echoed, cancelled>> /\ trq' = Append(trq, 0)
    BY <1>4 DEF OnCompleted, END
  <2>3. Range(trq) \subseteq Range(trq')
    BY <2>1, <2>2, StaysInConcat
  <2>4. QED
    BY <1>1, <1>2, <2>2, <2>3 DEF Served, Reached
<1>5. CASE OnError
  <2>1. UNCHANGED echoed /\ cancelled'
    BY <1>5 DEF OnError
  <2>2. QED
    BY <1>1, <1>2, <2>1 DEF Served
<1>6. CASE UNCHANGED <<echoed, trq, cancelled>>
  BY <1>1, <1>2, <1>6 DEF Served, Reached
<1>7. \/ UNCHANGED <<echoed, trq, cancelled>>
      \/ OnCompleted \/ OnError \/ \E p \in Positions : OnContentBlock(p)
  BY ReaderKeeps DEF Next, StuckTimeout, Requests, Shutdown, vars
<1>8. QED
  BY <1>3, <1>4, <1>5, <1>6, <1>7

(***************************************************************************)
(* Answers in order need no lookahead, and so lose nothing in it.          *)
(***************************************************************************)
LEMMA OrderServes ==
  ASSUME TypeInv, OrderInv, Ordered PROVE Served
<1>1. ASSUME NEW p \in echoed, Segments(p) # 0
      PROVE  p \in Range(trq) \/ Reached(p) \/ cancelled
  <2>1. IsTU(p)
    BY <1>1 DEF Segments
  <2>2. QED
    BY <1>1, <2>1 DEF Ordered
<1>2. ASSUME wpc = "find" PROVE look[BlockId(wev)] = 0
  <2>1. BlockId(wev) \in Ids
    <3>1. wev \in Positions
      BY <1>2, DocIsSeq DEF OrderInv, OutputOrder, Working, TypeInv, WriterTypes, OutputTypes
    <3>2. QED
      BY <3>1, DocIsSeq, EntryTypes DEF TypeInv
  <2>2. QED
    BY <2>1 DEF Ordered
<1>3. QED
  BY <1>1, <1>2 DEF Served

\* An answer is told from the others by its id or by its place.
OwnAnswers == NamedBlocks /\ ("reorder" \in Clients => DistinctIds)

LEMMA ServedHolds ==
  ASSUME OwnAnswers PROVE Spec => []Served
<1>1. DistinctIds \/ InOrder
  BY DEF OwnAnswers, InOrder
<1>2. CASE DistinctIds
  <2>1. OwnInv /\ Served /\ [Next]_vars => Served'
    BY <1>2, NextServed DEF OwnAnswers, OwnInv, BaseInv
  <2>2. Spec => []OwnInv
    BY <1>1, OwnInvHolds
  <2>3. QED
    BY <2>1, <2>2, InitServed, PTL DEF Spec
<1>3. CASE InOrder
  <2>1. OwnInv => Served
    BY <1>3, OrderServes DEF OwnInv, BaseInv
  <2>2. Spec => []OwnInv
    BY <1>1, OwnInvHolds
  <2>3. QED
    BY <2>1, <2>2, PTL
<1>4. QED
  BY <1>1, <1>2, <1>3

(***************************************************************************)
(* A writer never waits on an empty queue for a block that was answered:   *)
(* an entry that came early is in the lookahead when its block is due.     *)
(* Where answers may overtake each other, it takes distinct ids and blocks *)
(* whose entry carries segments.                                           *)
(***************************************************************************)
THEOREM AnswersAreServed ==
  ASSUME OwnAnswers, "reorder" \in Clients => AllTranslatable
  PROVE  Spec => []AnsweredIsServed
<1>1. OwnInv /\ Served => AnsweredIsServed
  <2> SUFFICES ASSUME OwnInv, Served, wpc = "find", trq = <<>>, wev \in echoed
               PROVE  FALSE
    BY DEF AnsweredIsServed
  <2>1. IsTU(wev) /\ doc \in Docs /\ wev \in DOMAIN doc /\ client \in Clients
    BY DocIsSeq
      DEF OwnInv, BaseInv, OrderInv, OutputOrder, TypeInv, RequestTypes, Positions
  <2>2. wev \in Int /\ wev # 0 /\ Range(trq) = {} /\ ~Reached(wev)
    BY Numbers DEF OwnInv, BaseInv, TypeInv, WriterTypes, Range, Reached
  <2>3. ~cancelled
    BY <2>2 DEF OwnInv, BaseInv, StreamEnd
  <2>4. CASE "reorder" \in Clients
    <3>1. Segments(wev) = wev
      BY <2>1, <2>4 DEF AllTranslatable, Segments, IsTU
    <3>2. look[BlockId(wev)] = 0
      BY DEF Served
    <3>3. QED
      BY <2>2, <2>3, <3>1, <3>2 DEF Served
  <2>5. CASE "reorder" \notin Clients
    BY <2>1, <2>2, <2>3, <2>5 DEF OwnInv, Ordered, InOrder, OwnAnswers
  <2>6. QED
    BY <2>4, <2>5
<1>2. DistinctIds \/ InOrder
  BY DEF OwnAnswers, InOrder
<1>3. Spec => []OwnInv
  BY <1>2, OwnInvHolds
<1>4. QED
  BY <1>1, <1>3, ServedHolds, PTL

-----------------------------------------------------------------------------
(* Success means that the whole document was translated.                     *)

LEMMA InitEnd == Init => EndInv
  BY DEF Init, EndInv

(***************************************************************************)
(* The writer never meets the end of the translations while it still looks *)
(* for one.                                                                *)
(***************************************************************************)
LEMMA NoEarlyEnd ==
  ASSUME TypeInv, ModeInv, OrderInv, Served, DoneInv, EndInv, PollTranslation, ~cancelled
  PROVE  Head(trq) # END
<1> SUFFICES ASSUME Head(trq) = END PROVE FALSE
  OBVIOUS
<1>1. /\ wpc = "find" /\ wev \in Positions /\ IsTU(wev)
      /\ Positions = 1..Len(doc) /\ Len(doc) \in Nat
  BY Polls
<1>2. trq \in Seq(0..Len(doc)) /\ trq # <<>>
  BY DEF PollTranslation, TypeInv, EntryQueueTypes
<1>3. 1 \in DOMAIN trq /\ trq[1] = END
  BY <1>2
<1>4. Len(trq) = 1 /\ halfClosed /\ mode # "readonly"
  BY <1>1, <1>3 DEF EndInv, ModeInv
<1>5. CASE client = "writer"
  <2>1. wev \in echoed /\ Segments(wev) = wev
    BY <1>1, <1>4, <1>5 DEF EndInv, Segments
  <2>2. wev \in Int /\ wev # 0
    BY <1>1
  <2>3. wev \in Range(trq)
    BY <1>1, <2>1, <2>2 DEF Served, Reached
  <2>4. Range(trq) = {END}
    BY <1>2, <1>3, <1>4 DEF Range
  <2>5. QED
    BY <2>2, <2>3, <2>4 DEF END
<1>6. CASE client # "writer"
  BY <1>1, <1>4, <1>6 DEF EndInv, DoneInv
<1>7. QED
  BY <1>5, <1>6

LEMMA NextEnd ==
  ASSUME "shutdown" \notin Faults
  PROVE  TypeInv /\ ModeInv /\ OrderInv /\ Served /\ DoneInv /\ EndInv /\ [Next]_vars
           => EndInv'
<1>a. ASSUME EndInv, [Next]_vars PROVE intr' = {} /\ (cancelled => cancelled')
  <2>1. intr = {}
    BY <1>a DEF EndInv
  <2>2. QED
    BY <1>a, <2>1, ReaderKeeps, WriterKeeps
      DEF Next, StuckTimeout, Requests, OnContentBlock, OnCompleted, OnError, Shutdown, vars,
          reqVars, endVars
<1> SUFFICES ASSUME TypeInv, ModeInv, OrderInv, Served, DoneInv, EndInv, [Next]_vars,
                    ~cancelled, ~cancelled'
             PROVE  EndInv'
  BY <1>a DEF EndInv
<1> USE DEF readerVars, writerVars, respVars, reqVars, endVars
<1>0. /\ ~cancelled /\ intr = {} /\ intr' = {} /\ ~eos
      /\ trq \in Seq(0..Len(doc)) /\ Len(doc) \in Nat /\ Positions = 1..Len(doc)
      /\ \A i \in DOMAIN trq : trq[i] = END => i = Len(trq) /\ halfClosed
  BY <1>a, DocIsSeq DEF EndInv, TypeInv, EntryQueueTypes
<1>1. UNCHANGED doc =>
        {p \in Positions : IsTU(p)}' = {p \in Positions : IsTU(p)}
  BY DEF Positions, IsTU
<1>2. ASSUME UNCHANGED <<doc, mode, client, eos, trq, echoed, halfClosed, cancelled, intr>>,
             readDone => readDone'
      PROVE  EndInv'
  BY <1>1, <1>2 DEF EndInv
<1>3. CASE Reader
  <2>1. readDone => readDone'
    BY <1>3 DEF Reader, Open, NextEvent, ConvertEvent, ReadFails, PutEvent, Flush,
                PutEnd, StartPass2, JoinWriter, ReaderInterrupted, CloseWriter,
                SendReadDone, Catch, ReleaseSlot, SendComplete
  <2>2. QED
    BY <1>2, <1>3, <2>1, ReaderKeeps
<1>4. CASE PollTranslation
  <2>1. Head(trq) # END
    BY <1>4, NoEarlyEnd
  <2>2. trq # <<>> /\ trq' = Tail(trq) /\ UNCHANGED eos
    BY <1>4, <2>1 DEF PollTranslation
  <2>3. UNCHANGED <<doc, mode, client, readDone, echoed, halfClosed, cancelled, intr>>
    BY <1>4 DEF PollTranslation
  <2>4. ASSUME NEW i \in DOMAIN trq', trq'[i] = END
        PROVE  i = Len(trq') /\ halfClosed
    <3>1. trq \in Seq(Int) /\ Len(trq) \in Nat /\ Len(trq') = Len(trq) - 1
      BY <1>0, <2>2
    <3>2. i \in Int /\ i + 1 \in DOMAIN trq /\ trq'[i] = trq[i + 1]
      BY <2>2, <2>4, <3>1, ElementOfTail
    <3>3. QED
      BY <1>0, <2>4, <3>1, <3>2
  <2>5. QED
    BY <1>1, <2>2, <2>3, <2>4 DEF EndInv
<1>5. CASE Writer /\ ~PollTranslation
  <2>1. UNCHANGED <<eos, trq>>
    BY <1>0, <1>5 DEF Writer, TakeEvent, NextOfPass2, WriterSeesInterrupt,
                      WriterInterrupted, HandleEvent, Pass2Fails
  <2>2. QED
    BY <1>2, <1>5, <2>1, WriterKeeps
<1>6. CASE \E p \in Positions : OnContentBlock(p)
  <2>1. PICK p \in Positions : OnContentBlock(p)
    BY <1>6
  <2>2. ~halfClosed /\ trq' = trq \o <<p>> /\ echoed' = echoed \cup {p}
        /\ UNCHANGED <<doc, mode, client, eos, halfClosed, cancelled, intr, readDone>>
    BY <2>1 DEF OnContentBlock, Open2Way, Entry
  <2>3. p \in Int /\ p # END /\ trq \in Seq(Int) /\ trq' = Append(trq, p)
    BY <1>0, <2>2 DEF END
  <2>4. \A i \in DOMAIN trq' : trq'[i] # END
    BY <1>0, <2>2, <2>3, ElementOfAppend
  <2>5. QED
    BY <1>1, <2>2, <2>4 DEF EndInv
<1>7. CASE OnCompleted
  <2>1. /\ ~halfClosed /\ halfClosed' /\ trq' = Append(trq, END)
        /\ UNCHANGED <<doc, mode, client, eos, echoed, cancelled, intr, readDone>>
        /\ mode = "readonly" \/ (Offered \subseteq echoed /\ (readDone \/ client = "writer"))
    BY <1>7 DEF OnCompleted, Open2Way
  <2>2. trq \in Seq(Int) /\ END \in Int /\ Len(trq') = Len(trq) + 1
    BY <1>0, <2>1 DEF END
  <2>3. \A i \in DOMAIN trq' : trq'[i] = END => i = Len(trq')
    BY <1>0, <2>1, <2>2, ElementOfAppend
  <2>4. mode # "readonly" =>
          IF client = "writer" THEN {p \in Positions : IsTU(p)} \subseteq echoed
                               ELSE readDone
    BY <2>1 DEF Offered
  <2>5. QED
    BY <1>1, <2>1, <2>3, <2>4 DEF EndInv
<1>8. CASE ~Reader /\ ~Writer /\ ~Requests
  <2>1. UNCHANGED <<trq, echoed, halfClosed, cancelled, intr>>
    BY <1>0, <1>8 DEF Next, StuckTimeout, OnError, Shutdown, vars
  <2>2. QED
    BY <1>2, <1>8, <2>1, OthersLeave
<1>9. QED
  BY <1>3, <1>4, <1>5, <1>6, <1>7, <1>8 DEF Requests

LEMMA InitTranslated == Init => Translated
  BY DEF Init, Translated

LEMMA WriterTranslated ==
  ASSUME OwnAnswers, OwnInv, EndInv, EndInv', Translated, Writer, ~cancelled
  PROVE  Translated'
<1>0. TypeInv /\ OrderInv /\ OwnSegments /\ ~cancelled'
  BY WriterKeeps DEF OwnInv, BaseInv
<1> USE DEF readerVars, writerVars, respVars, reqVars, endVars
<1>1. UNCHANGED <<doc, client>> /\ doc \in Docs
  BY <1>0, WriterKeeps DEF TypeInv
<1>2. \A p : Segments(p)' = Segments(p)
  BY <1>1 DEF Segments, IsTU
<1>3. ~eos /\ ~eos'
  BY <1>0 DEF EndInv
<1>4. ASSUME UNCHANGED out, wpc' = "handle" => wseg' = Segments(wev') PROVE Translated'
  BY <1>1, <1>4 DEF Translated, Segments, IsTU
<1>5. CASE TakeEvent \/ NextOfPass2
  <2>1. CASE wpc' = "done"
    <3>1. UNCHANGED out
      BY <1>5 DEF TakeEvent, NextOfPass2
    <3>2. QED
      BY <1>4, <2>1, <3>1
  <2>2. CASE wpc' # "done"
    <3> DEFINE n == wev + 1
    <3>1. n \in Positions /\ StartEvent(n) /\ UNCHANGED out
      BY <1>0, <1>5, <2>2, Starts
    <3>2. wev' = n /\ wseg' = Found(n)
      BY <3>1 DEF StartEvent
    <3>3. CASE IsTU(n)
      <4>1. wpc' = "handle" => Found(n) # 0
        BY <1>3, <3>1, <3>3 DEF StartEvent
      <4>2. Found(n) \in {0, Segments(n)}
        BY <1>0, <3>1, <3>3 DEF Found, OwnSegments
      <4>3. QED
        BY <1>4, <3>1, <3>2, <4>1, <4>2
    <3>4. CASE ~IsTU(n)
      BY <1>4, <3>1, <3>2, <3>4 DEF Found, Segments
    <3>5. QED
      BY <3>3, <3>4
  <2>3. QED
    BY <2>1, <2>2
<1>6. CASE PollTranslation
  <2>1. /\ wpc = "find" /\ wev \in Positions /\ IsTU(wev)
        /\ Head(trq) # END => Head(trq) \in Positions
    BY <1>0, <1>6, Polls
  <2>2. UNCHANGED <<wev, out>> /\ Head(trq) # END
    BY <1>3, <1>6 DEF PollTranslation
  <2>3. CASE Matches(Head(trq))
    <3>1. Head(trq) = wev
      <4>1. CASE "reorder" \in Clients
        BY <1>1, <2>1, <2>2, <2>3, <4>1, NamesTellApart DEF Matches, OwnAnswers
      <4>2. CASE "reorder" \notin Clients
        BY <1>6, <2>2, <2>3, <4>2, NextAnswerIsOwn DEF OwnAnswers, OwnInv, BaseInv, InOrder
      <4>3. QED
        BY <4>1, <4>2
    <3>2. wseg' = Segments(wev)
      BY <1>6, <2>2, <2>3, <3>1 DEF PollTranslation
    <3>3. QED
      BY <1>4, <2>2, <3>2
  <2>4. CASE ~Matches(Head(trq))
    <3>1. wpc' = "find"
      BY <1>6, <2>1, <2>2, <2>4 DEF PollTranslation
    <3>2. QED
      BY <1>4, <2>2, <3>1
  <2>5. QED
    BY <2>3, <2>4
<1>7. CASE HandleEvent
  <2>1. wpc = "handle" /\ wpc' # "handle"
        /\ (out' = out \/ out' = Append(out, [ev |-> wev, seg |-> wseg]))
    BY <1>7 DEF HandleEvent
  <2>2. Len(out) + 1 = wev /\ wseg = Segments(wev)
    BY <1>0, <2>1 DEF OrderInv, OutputOrder, Translated, Working
  <2>3. out \in Seq([ev : 1..Len(doc), seg : 0..Len(doc)]) /\ Len(out) \in Nat
    BY <1>0 DEF TypeInv, OutputTypes
  <2>4. CASE out' = out
    BY <1>4, <2>1, <2>4
  <2>5. CASE out' = Append(out, [ev |-> wev, seg |-> wseg])
    <3>1. ASSUME NEW i \in DOMAIN out' PROVE out'[i].seg = Segments(i)
      <4>1. i \in 1..Len(out) + 1
        BY <2>3, <2>5
      <4>2. CASE i = Len(out) + 1
        <5>1. out'[i] = [ev |-> wev, seg |-> wseg]
          BY <2>3, <2>5, <4>1, <4>2
        <5>2. QED
          BY <2>2, <4>2, <5>1
      <4>3. CASE i # Len(out) + 1
        <5>1. i \in DOMAIN out
          BY <2>3, <4>1, <4>3
        <5>2. out'[i] = out[i]
          BY <2>3, <2>5, <4>1, <4>3, <5>1
        <5>3. QED
          BY <5>1, <5>2 DEF Translated
      <4>4. QED
        BY <4>2, <4>3
    <3>2. QED
      BY <1>2, <2>1, <3>1 DEF Translated
  <2>6. QED
    BY <2>1, <2>4, <2>5
<1>8. CASE WriterSeesInterrupt \/ Pass2Fails
  BY <1>3, <1>4, <1>8 DEF WriterSeesInterrupt, Pass2Fails
<1>9. QED
  BY <1>5, <1>6, <1>7, <1>8 DEF Writer

LEMMA NextTranslated ==
  ASSUME OwnAnswers
  PROVE  OwnInv /\ EndInv /\ EndInv' /\ Translated /\ [Next]_vars => Translated'
<1> SUFFICES ASSUME OwnInv, EndInv, EndInv', Translated, [Next]_vars, ~cancelled'
             PROVE  Translated'
  BY DEF Translated
<1>1. ~cancelled
  BY ReaderKeeps, WriterKeeps
    DEF Next, StuckTimeout, Requests, OnContentBlock, OnCompleted, OnError, Shutdown, vars,
        reqVars
<1>2. CASE Writer
  BY <1>1, <1>2, WriterTranslated
<1>3. CASE ~Writer
  <2>1. UNCHANGED <<doc, client, wev, wseg, out>> /\ (wpc' = "handle" => wpc = "handle")
    BY <1>3, ReaderKeeps, OthersLeave
  <2>2. QED
    BY <1>1, <2>1 DEF Translated, Segments, IsTU
<1>4. QED
  BY <1>2, <1>3

(***************************************************************************)
(* A Complete without an error means that every event was written, each    *)
(* block with its own translation, in every interleaving, whichever thread *)
(* fails or times out and whenever the client cancels. Where answers may   *)
(* overtake each other it takes distinct ids. A shut down may interrupt    *)
(* the writer unseen, so there must be none.                               *)
(***************************************************************************)
THEOREM SuccessMeansTranslated ==
  ASSUME OwnAnswers, "shutdown" \notin Faults
  PROVE  Spec => []SuccessIsTranslated
<1>1. OwnInv /\ Translated => SuccessIsTranslated
  BY DEF OwnInv, BaseInv, OrderInv, OutputOrder, DoneInv, Translated, SuccessIsTranslated
<1>2. Spec => []OwnInv
  BY OwnInvHolds DEF OwnAnswers, InOrder
<1>3. OwnInv /\ Served /\ EndInv /\ [Next]_vars => EndInv'
  BY NextEnd DEF OwnInv, BaseInv
<1>4. QED
  BY <1>1, <1>2, <1>3, ServedHolds, InitEnd, InitTranslated, NextTranslated, PTL DEF Spec

-----------------------------------------------------------------------------
(* ProcessPipeline implements DocumentCycle, for clients that answer what    *)
(* they were sent: all documents if they answer in order, else those whose   *)
(* blocks have ids of their own.                                             *)

Answering == "writer" \notin Clients

-----------------------------------------------------------------------------
(* What was answered.                                                        *)

LEMMA InitHeld == Init => HeldInv
  BY DEF Init, HeldInv, Range

LEMMA NextHeld ==
  ASSUME Answering
  PROVE  TypeInv /\ OrderInv /\ HeldInv /\ [Next]_vars => HeldInv'
<1> SUFFICES ASSUME TypeInv, OrderInv, HeldInv, [Next]_vars PROVE HeldInv'
  OBVIOUS
<1> USE DEF readerVars, writerVars, respVars, reqVars, endVars
<1> DEFINE Held == Range(sent)
<1>0. /\ Held \subseteq Held' /\ Ids' = Ids /\ END \in 0..Len(doc)
      /\ trq \in Seq(0..Len(doc)) /\ look \in [Ids -> 0..Len(doc)]
      /\ \A p \in 1..Len(doc) : BlockId(p) \in Ids
      /\ Positions = 1..Len(doc) /\ Len(doc) \in Nat
  BY SentGrows, DocIsSeq, EntryTypes DEF TypeInv, EntryQueueTypes, WriterTypes, END
<1>1. CASE UNCHANGED <<echoed, trq, look, wseg>>
  BY <1>0, <1>1 DEF HeldInv
<1>2. CASE TakeEvent \/ NextOfPass2
  <2>1. CASE wpc' = "done"
    BY <1>1, <1>2, <2>1 DEF TakeEvent, NextOfPass2, StartEvent
  <2>2. CASE wpc' # "done"
    <3>1. wev + 1 \in Positions /\ StartEvent(wev + 1) /\ UNCHANGED <<trq, echoed, sent>>
      BY <1>2, <2>2, Starts DEF TakeEvent, NextOfPass2
    <3>2. wseg' \in Held \cup {0}
      BY <1>0, <3>1 DEF StartEvent, Found, HeldInv
    <3>3. \A id \in Ids : look'[id] \in Held \cup {0}
      BY <1>0, <3>1 DEF StartEvent, HeldInv
    <3>4. QED
      BY <1>0, <3>1, <3>2, <3>3 DEF HeldInv
  <2>3. QED
    BY <2>1, <2>2
<1>3. CASE PollTranslation
  <2> DEFINE e == Head(trq)
  <2>1. /\ trq # <<>> /\ trq' = Tail(trq) /\ UNCHANGED <<echoed, sent>>
        /\ e \in Held \cup {END} /\ Range(trq') \subseteq Held \cup {END}
    BY <1>0, <1>3, RangeOfTail DEF PollTranslation, HeldInv
  <2>2. e # END => Segments(e) \in Held \cup {0}
    BY <2>1, SegmentsOf
  <2>3. wseg' \in Held \cup {0}
    BY <1>3, <2>2 DEF PollTranslation, HeldInv
  <2>4. \A id \in Ids : look'[id] \in Held \cup {0}
    BY <1>0, <1>3, <2>2 DEF PollTranslation, Keep, HeldInv
  <2>5. QED
    BY <1>0, <2>1, <2>3, <2>4 DEF HeldInv
<1>4. CASE OnCompleted
  <2>1. trq' = Append(trq, END) /\ UNCHANGED <<echoed, look, wseg, sent>>
    BY <1>4 DEF OnCompleted
  <2>2. Range(trq') = Range(trq) \cup {END}
    BY <1>0, <2>1, RangeOfAppend
  <2>3. QED
    BY <1>0, <2>1, <2>2 DEF HeldInv
<1>5. CASE \E p \in Positions : OnContentBlock(p)
  <2>1. PICK p \in Positions : OnContentBlock(p)
    BY <1>5
  <2>2. /\ echoed' = echoed \cup {p} /\ trq' = trq \o <<p>> /\ p \in Offered
        /\ UNCHANGED <<look, wseg, sent>>
    BY <2>1 DEF OnContentBlock, Entry
  <2>3. p \in Held
    BY <2>2 DEF Offered, Answering, TypeInv
  <2>4. p \in 0..Len(doc)
    BY <1>0
  <2>5. trq' = Append(trq, p)
    BY <1>0, <2>2, <2>4, StaysInConcat
  <2>6. Range(Append(trq, p)) = Range(trq) \cup {p}
    BY <1>0, <2>4, RangeOfAppend
  <2>7. QED
    <3>1. Range(trq') \subseteq Held' \cup {END}
      BY <1>0, <2>3, <2>5, <2>6 DEF HeldInv
    <3>2. echoed' \subseteq Held'
      BY <1>0, <2>2, <2>3 DEF HeldInv
    <3>3. QED
      BY <1>0, <2>2, <3>1, <3>2 DEF HeldInv
<1>6. CASE OnError
  <2>1. trq' \in {trq, <<END>>} /\ UNCHANGED <<echoed, look, wseg, sent>>
    BY <1>6 DEF OnError
  <2>2. Range(<<END>>) = {END}
    BY DEF Range
  <2>3. QED
    BY <1>0, <2>1, <2>2 DEF HeldInv
<1>7. QED
  <2>1. CASE Reader
    BY <1>1, <2>1, ReaderKeeps
  <2>2. CASE Writer
    BY <1>1, <1>2, <1>3, <2>2
      DEF Writer, WriterSeesInterrupt, HandleEvent, Pass2Fails
  <2>3. CASE ~Reader /\ ~Writer
    BY <1>1, <1>4, <1>5, <1>6, <2>3 DEF Next, Requests, StuckTimeout, Shutdown, vars
  <2>4. QED
    BY <2>1, <2>2, <2>3

-----------------------------------------------------------------------------
(* Every step is one of DocumentCycle, or none of its business.              *)

IInv == OwnInv /\ HeldInv

LEMMA InvariantHolds ==
  ASSUME DistinctIds \/ InOrder, Answering
  PROVE  Spec => []IInv
<1>1. OwnInv /\ HeldInv /\ [Next]_vars => HeldInv'
  BY NextHeld DEF OwnInv, BaseInv
<1>2. QED
  BY OwnInvHolds, InitHeld, <1>1, PTL DEF Spec, IInv

(***************************************************************************)
(* The pipeline thread sends parts and ends the stream.                    *)
(***************************************************************************)
LEMMA ReaderImplements ==
  ASSUME IInv, Reader
  PROVE  [Cycle!Next]_(Cycle!vars)
<1> USE DEF readerVars, writerVars, respVars, reqVars, endVars
<1>0. /\ UNCHANGED <<doc, mode, out>> /\ Len(doc) \in Nat
      /\ mode \in {"readonly", "single", "twopass"}
      /\ batch \in Seq(1..Len(doc)) /\ rpos \in 0..Len(doc)
      /\ sent \in Seq(1..Len(doc)) /\ sent \o <<>> = sent
  <2>1. sent \in Seq(1..Len(doc))
    BY DEF IInv, OwnInv, BaseInv, TypeInv, ResponseTypes
  <2>2. sent \o <<>> = sent
    BY <2>1
  <2>3. QED
    BY <2>1, <2>2, ReaderKeeps, DocIsSeq, ShapeAssumption DEF IInv, OwnInv, BaseInv, TypeInv, ReaderTypes
<1>1. CASE ConvertEvent
  <2>1. /\ rpos \in 1..Len(doc)
        /\ \E b, c \in Seq(1..Len(doc)) :
              /\ SendOr(b, IF mode = "single" THEN "put" ELSE "read")
              /\ batch' = c /\ (b = <<>> \/ c = <<>>)
              /\ Cycle!Lists(sent \o (b \o c), rpos) /\ Len(sent \o (b \o c)) <= rpos
    BY <1>1, ConvertedParts DEF IInv, OwnInv, BaseInv
  <2>2. PICK b \in Seq(1..Len(doc)), c \in Seq(1..Len(doc)) :
          /\ SendOr(b, IF mode = "single" THEN "put" ELSE "read")
          /\ b = <<>> \/ c = <<>>
          /\ Cycle!Lists(sent \o (b \o c), rpos) /\ Len(sent \o (b \o c)) <= rpos
    BY <2>1
  <2>3. rpc # "done" /\ rpc' # "done"
    BY <1>1, AfterConvert DEF ConvertEvent
  <2>4. CASE sent' = sent
    BY <1>0, <2>3, <2>4 DEF Cycle!vars
  <2>5. CASE sent' # sent
    <3>1. b # <<>> /\ sent' = sent \o b /\ b \o c = b
      <4>1. b # <<>> /\ sent' = sent \o b
        BY <1>0, <2>2, <2>5 DEF SendOr
      <4>2. b \o <<>> = b
        OBVIOUS
      <4>3. QED
        BY <2>2, <4>1, <4>2
    <3>2. Cycle!SendParts
      BY <1>0, <2>1, <2>2, <2>3, <3>1, BatchIsStep DEF IInv, OwnInv, BaseInv
    <3>3. QED
      BY <3>2 DEF Cycle!Next
  <2>6. QED
    BY <2>4, <2>5
<1>2. CASE Flush
  <2>1. /\ rpc = "read" /\ rpos = Len(doc) /\ rpc' # "done"
        /\ sent' = sent \/ (sent' = sent \o batch /\ batch # <<>>)
    BY <1>0, <1>2 DEF Flush, SendOr, Rest
  <2>2. CASE sent' = sent
    BY <1>0, <2>1, <2>2 DEF Cycle!vars
  <2>3. CASE sent' # sent
    <3>1. Cycle!Lists(sent \o batch, Len(doc)) /\ Len(sent \o batch) <= Len(doc)
      BY <2>1 DEF IInv, OwnInv, BaseInv, SentInv, Converted
    <3>2. Len(doc) \in 1..Len(doc)
      <4>1. Len(sent \o batch) \in Nat /\ Len(sent \o batch) # 0
        BY <1>0, <2>1, <2>3 DEF IInv, OwnInv, BaseInv, TypeInv, ResponseTypes
      <4>2. QED
        BY <1>0, <3>1, <4>1
    <3>3. Cycle!SendParts
      BY <1>0, <2>1, <2>3, <3>1, <3>2, BatchIsStep DEF IInv, OwnInv, BaseInv
    <3>4. QED
      BY <3>3 DEF Cycle!Next
  <2>4. QED
    BY <2>2, <2>3
<1>3. CASE SendComplete
  <2>1. rpc = "complete" /\ rpc' = "done" /\ UNCHANGED <<sent, verdict>>
    BY <1>3 DEF SendComplete
  <2>2. verdict \in {"ok", "error"}
    BY <2>1 DEF IInv, OwnInv, BaseInv, SentInv, TypeInv, EndTypes
  <2>3. CASE verdict = "error"
    BY <1>0, <2>1, <2>3 DEF Cycle!Fail, Cycle!Next
  <2>4. CASE verdict = "ok"
    <3>1. Cycle!Lists(sent, Len(doc))
      BY <2>4 DEF IInv, OwnInv, BaseInv, SentInv
    <3>2. mode # "readonly" => Len(out) = Len(doc)
      BY <2>4 DEF IInv, OwnInv, BaseInv, DoneInv, OrderInv, OutputOrder
    <3>3. QED
      BY <1>0, <2>1, <2>4, <3>1, <3>2 DEF Cycle!Succeed, Cycle!Next
  <2>5. QED
    BY <2>2, <2>3, <2>4
<1>4. CASE ~(ConvertEvent \/ Flush \/ SendComplete)
  <2>1. UNCHANGED sent /\ rpc # "done" /\ rpc' # "done"
    BY <1>4 DEF Reader, Open, NextEvent, ReadFails, PutEvent, PutEnd, StartPass2,
                JoinWriter, AfterJoin, ReaderInterrupted, CloseWriter, SendReadDone,
                Catch, ReleaseSlot
  <2>2. QED
    BY <1>0, <2>1 DEF Cycle!vars
<1>5. QED
  BY <1>1, <1>2, <1>3, <1>4

(***************************************************************************)
(* The writer writes the next event, with a translation that was asked     *)
(* for, and never once the stream has succeeded.                           *)
(***************************************************************************)
LEMMA WriterImplements ==
  ASSUME IInv, Writer
  PROVE  [Cycle!Next]_(Cycle!vars)
<1> USE DEF readerVars, writerVars, respVars, reqVars, endVars
<1>0. UNCHANGED <<doc, mode, sent, rpc, verdict>>
  BY WriterKeeps
<1>1. CASE UNCHANGED out
  BY <1>0, <1>1 DEF Cycle!vars
<1>2. CASE out' # out
  <2>1. wpc = "handle" /\ out' = Append(out, [ev |-> wev, seg |-> wseg])
    BY <1>2 DEF Writer, TakeEvent, NextOfPass2, PollTranslation, WriterSeesInterrupt,
                HandleEvent, Pass2Fails
  <2>2. mode # "readonly" /\ (rpc = "done" => verdict # "ok")
    BY <2>1 DEF IInv, OwnInv, BaseInv, ModeInv, DoneInv
  <2>3. wev = Len(out) + 1 /\ wev \in 0..Len(doc) /\ Len(out) \in Nat /\ Len(doc) \in Nat
    BY <2>1, DocIsSeq
      DEF IInv, OwnInv, BaseInv, OrderInv, OutputOrder, Working, TypeInv, WriterTypes, OutputTypes
  <2>4. wseg \in {0} \cup ({wev} \cap Range(sent))
    BY <2>1, SegmentsOf DEF IInv, OwnInv, BaseInv, OwnSegments, HeldInv, Working
  <2>5. Cycle!WriteNext
    BY <1>0, <2>1, <2>2, <2>3, <2>4 DEF Cycle!WriteNext, Cycle!Range, Range
  <2>6. QED
    BY <2>5 DEF Cycle!Next
<1>3. QED
  BY <1>1, <1>2

(***************************************************************************)
(* Reader, writer, queues, batches, timeouts, failures, cancellation and   *)
(* shutdown together keep the promise of the RPC: the parts go out once    *)
(* and in order, every event is written once, in order and with a          *)
(* translation of its own that was asked for, and success means that all   *)
(* of it has happened.                                                     *)
(***************************************************************************)
THEOREM ImplementsDocumentCycle ==
  ASSUME DistinctIds \/ InOrder, Answering
  PROVE  Spec => RefinesDocumentCycle
<1>1. Init => Cycle!Init
  BY DEF Init, Cycle!Init
<1>2. IInv /\ [Next]_vars => [Cycle!Next]_(Cycle!vars)
  <2> SUFFICES ASSUME IInv, [Next]_vars, ~Reader, ~Writer
               PROVE  [Cycle!Next]_(Cycle!vars)
    BY ReaderImplements, WriterImplements
  <2>1. QED
    BY OthersLeave DEF Cycle!vars
<1>3. QED
  BY <1>1, <1>2, InvariantHolds, PTL DEF Spec, RefinesDocumentCycle, Cycle!Spec

-----------------------------------------------------------------------------
(* The stream as the server around it sees it.                               *)

\* BridgeServer has four states of a Process call whose pipeline has started,
\* until it leaves the count.
CallState ==
  CASE rpc = "release"  -> "release"
    [] rpc = "complete" -> "complete"
    [] rpc = "done"     -> "answered"
    [] OTHER            -> "running"

\* The server with one permit, which this stream has taken.
Server == INSTANCE BridgeServer WITH
  Calls <- {"call"}, Steps <- {}, Concurrency <- 1, Lanes <- 1, IdleTimeout <- FALSE,
  UnixSocket <- TRUE, Faults <- Faults \cap {"cancel", "shutdown"},
  call <- [c \in {"call"} |-> CallState], gone <- IF cancelled THEN {"call"} ELSE {},
  step <- [t \in {} |-> "none"], permits <- IF slot = "free" THEN 1 ELSE 0, active <- 1,
  jobs <- <<>>, stale <- FALSE, timer <- "wait",
  latch <- IF intr = {} THEN "up" ELSE "rpc", pools <- (intr = {}), main <- "serving"

ServerStep ==
  \/ Server!BodyEnds("call") \/ Server!ReleasePermit("call") \/ Server!SendComplete("call")
  \/ Server!Cancel("call") \/ Server!ShutdownRPC

\* The permit is back once the pipeline thread is past its release.
SlotInv == slot = IF rpc \in {"complete", "done"} THEN "free" ELSE "held"

LEMMA InitSlot == Init => SlotInv
BY DEF Init, SlotInv

\* The body of the pipeline: every step but the last two stays in it or ends it.
LEMMA BodySteps ==
  ASSUME TypeInv, Reader
  PROVE  \/ /\ CallState = "running" /\ CallState' \in {"running", "release"}
            /\ rpc \notin {"release", "complete", "done"} /\ rpc' \notin {"complete", "done"}
            /\ UNCHANGED slot
         \/ ReleaseSlot
         \/ SendComplete
<1>1. CASE Open \/ NextEvent \/ ReadFails \/ PutEvent \/ PutEnd \/ StartPass2
  BY <1>1 DEF Open, NextEvent, ReadFails, PutEvent, PutEnd, StartPass2, CallState, endVars
<1>2. CASE ConvertEvent
  BY <1>2, AfterConvert DEF ConvertEvent, CallState, endVars
<1>3. CASE Flush
  <2>1. rpc = "read" /\ rpc' \in {"catch", "putEnd", "pass2", "close"}
    BY <1>3, ShapeAssumption DEF Flush, SendOr, TypeInv
  <2>2. QED
    BY <1>3, <2>1 DEF Flush, CallState, endVars
<1>4. CASE JoinWriter \/ ReaderInterrupted \/ CloseWriter \/ SendReadDone \/ Catch
  BY <1>4 DEF JoinWriter, AfterJoin, ReaderInterrupted, CloseWriter, SendReadDone, Catch,
              CallState, endVars
<1>5. QED
  BY <1>1, <1>2, <1>3, <1>4 DEF Reader

LEMMA NextSlot == TypeInv /\ SlotInv /\ [Next]_vars => SlotInv'
<1>1. ASSUME TypeInv, SlotInv, Reader PROVE SlotInv'
  BY <1>1, BodySteps DEF SlotInv, ReleaseSlot, SendComplete, endVars
<1>2. ASSUME SlotInv, Writer PROVE SlotInv'
  BY <1>2, WriterKeeps DEF SlotInv, endVars
<1>3. ASSUME SlotInv, [Next]_vars, ~Reader, ~Writer PROVE SlotInv'
  BY <1>3, OthersLeave DEF SlotInv
<1>4. QED
  BY <1>1, <1>2, <1>3

LEMMA StepIsServed == TypeInv /\ SlotInv /\ [Next]_vars => [ServerStep]_(Server!vars)
<1> SUFFICES ASSUME TypeInv, SlotInv, [Next]_vars PROVE [ServerStep]_(Server!vars)
  OBVIOUS
<1>0. ASSUME NEW x PROVE [[c \in {"call"} |-> CallState] EXCEPT !["call"] = x] = [c \in {"call"} |-> x]
  OBVIOUS
<1>1. CASE Reader
  <2>1. UNCHANGED <<cancelled, intr>>
    BY <1>1, ReaderKeeps
  <2>2. CASE ReleaseSlot
    <3>1. rpc = "release" /\ rpc' = "complete" /\ slot = "held" /\ slot' = "free"
      BY <2>2 DEF ReleaseSlot, SlotInv
    <3>2. CallState = "release" /\ CallState' = "complete"
      BY <3>1 DEF CallState
    <3>3. QED
      BY <1>0, <2>1, <3>1, <3>2 DEF ServerStep, Server!ReleasePermit, Server!Moves, Server!serverVars
  <2>3. CASE SendComplete
    <3>1. CallState = "complete" /\ CallState' = "answered" /\ UNCHANGED slot
      BY <2>3 DEF SendComplete, CallState, endVars
    <3>2. QED
      BY <1>0, <2>1, <3>1 DEF ServerStep, Server!SendComplete, Server!Moves, Server!serverVars
  <2>4. CASE CallState = "running" /\ CallState' = "release" /\ UNCHANGED slot
    BY <1>0, <2>1, <2>4 DEF ServerStep, Server!BodyEnds, Server!Moves, Server!serverVars
  <2>5. CASE CallState = "running" /\ CallState' = "running" /\ UNCHANGED slot
    BY <2>1, <2>5 DEF Server!vars
  <2>6. QED
    BY <1>1, <2>2, <2>3, <2>4, <2>5, BodySteps
<1>2. CASE ~Reader
  <2>1. UNCHANGED <<rpc, slot>>
    BY <1>2, WriterKeeps, OthersLeave DEF endVars
  <2>2. CallState' = CallState
    BY <2>1 DEF CallState
  <2>3. CASE OnError
    <3>1. "cancel" \in Faults /\ ~cancelled /\ cancelled' /\ UNCHANGED intr
      BY <2>3 DEF OnError
    <3>2. CallState \in {"running", "release", "complete"}
      BY <2>3 DEF OnError, CallState
    <3>3. QED
      BY <2>1, <2>2, <3>1, <3>2 DEF ServerStep, Server!Cancel, Server!serverVars
  <2>4. CASE Shutdown
    <3>1. "shutdown" \in Faults /\ intr' # {} /\ UNCHANGED cancelled
      BY <2>4 DEF Shutdown, reqVars
    <3>2. CASE intr = {}
      <4>1. [c \in {"call"} |-> CallState]
              = [c \in {"call"} |-> IF [d \in {"call"} |-> CallState][c] = "queued" THEN "dead"
                                      ELSE [d \in {"call"} |-> CallState][c]]
        BY DEF CallState
      <4>2. QED
        BY <2>1, <2>2, <3>1, <3>2, <4>1 DEF ServerStep, Server!ShutdownRPC
    <3>3. CASE intr # {}
      BY <2>1, <2>2, <3>1, <3>3 DEF Server!vars
    <3>4. QED
      BY <3>2, <3>3
  <2>5. CASE Writer \/ StuckTimeout \/ Requests \/ UNCHANGED vars
    <3>1. UNCHANGED <<cancelled, intr>>
      BY <2>5, WriterKeeps
        DEF StuckTimeout, Requests, OnCompleted, OnContentBlock, vars, reqVars
    <3>2. QED
      BY <2>1, <2>2, <3>1 DEF Server!vars
  <2>6. QED
    BY <1>2, <2>3, <2>4, <2>5 DEF Next
<1>3. QED
  BY <1>1, <1>2

(***************************************************************************)
(* What BridgeServer says of a call whose pipeline runs is what the        *)
(* pipeline does, whatever fails: its body ends once, then the permit goes *)
(* back, once, then the call is answered; a cancel moves neither, and a    *)
(* Shutdown stops the pools and nothing else of the call.                  *)
(***************************************************************************)
THEOREM StreamIsCall == Spec => CallState = "running" /\ [][ServerStep]_(Server!vars)
<1>1. Init => CallState = "running"
  BY DEF Init, CallState
<1>2. QED
  BY <1>1, InitTyped, NextTyped, InitSlot, NextSlot, StepIsServed, PTL DEF Spec
=============================================================================
