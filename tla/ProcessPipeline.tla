--------------------------- MODULE ProcessPipeline ---------------------------
(***************************************************************************)
(* One Process stream of the bridge: BridgeServiceImpl.runPipeline, the    *)
(* request observer that feeds its translation queue, the                  *)
(* StreamingTranslationApplier and the Go client at the other end.         *)
(*                                                                         *)
(* An event of the document, a block sent to the client and the            *)
(* translation that comes back for it are all named by the position of the *)
(* event in the document; 0 stands for the sentinels END_OF_EVENTS and     *)
(* TranslationEntry.END, and for null segments.                            *)
(***************************************************************************)
EXTENDS Integers, Sequences, FiniteSets, Functions

CONSTANTS
  Docs,        (* documents a filter may read: sequences of events         *)
  Modes,       (* pipeline shapes: "readonly", "single", "twopass"         *)
  Subscribed,  (* subscribe_parts: part types to send, {} means all        *)
  BatchSize,   (* SEND_BATCH_SIZE                                          *)
  EventCap,    (* EVENT_QUEUE_CAPACITY                                     *)
  Clients,     (* who answers: "echo", "reorder" or "writer"               *)
  Faults       (* environment events that may happen, see FaultKinds       *)

(***************************************************************************)
(* A "tu" becomes a Block part, "data" a Data part, "layer" a LayerStart   *)
(* part, "raw" an event EventConverter.convert maps to null. Only text     *)
(* units carry an id across the wire.                                      *)
(***************************************************************************)
Event == [kind : {"layer", "tu", "data", "raw"}, id : STRING, translatable : BOOLEAN]
NoId == "noid"

\* The PartDTO.TYPE_ constants.
PartType == [layer |-> 0, tu |-> 4, data |-> 5]

FaultKinds == {"filterFails", "writerFails", "cancel", "shutdown", "slow"}

ASSUME DocsAssumption == Docs \subseteq Seq(Event)
ASSUME SizesAssumption == BatchSize \in Nat \ {0} /\ EventCap \in Nat \ {0}
ASSUME ShapeAssumption ==
  /\ Modes \subseteq {"readonly", "single", "twopass"}
  /\ Subscribed \subseteq Nat
  /\ Clients \subseteq {"echo", "reorder", "writer"}
  /\ Faults \subseteq FaultKinds

VARIABLES
  doc, mode, client,  (* what this stream processes, and for whom          *)
  rpc, rpos, batch,   (* pipeline thread: control, events read, sendBatch  *)
  evq,                (* eventQueue between reader and writer              *)
  wpc, wev, wseg,     (* writer: control, current event, its segments      *)
  look, eos,          (* StreamingTranslationApplier.lookahead, endOfStream*)
  trq,                (* translationQueue                                  *)
  out, writerOpen,    (* events handed to the filter writer; still open?   *)
  sent, readDone, complete,  (* responses: blocks, ReadDone, Complete      *)
  echoed, halfClosed, cancelled,  (* requests handled; stream ends         *)
  verdict, slot,      (* how the body ended; the pipeline permit           *)
  intr                (* threads that Shutdown has interrupted             *)

readerVars == <<rpc, rpos, batch>>
writerVars == <<wpc, wev, wseg, look, eos>>
respVars   == <<sent, readDone, complete>>
reqVars    == <<echoed, halfClosed, cancelled>>
endVars    == <<verdict, slot>>
vars == <<doc, mode, client, readerVars, evq, writerVars, trq, out, writerOpen,
          respVars, reqVars, endVars, intr>>

(***************************************************************************)
(* An operator XMutant is a bug that X could have had, for the runs that   *)
(* show that the properties notice it; no specification uses one.          *)
(***************************************************************************)

END == 0
Positions == DOMAIN doc
Ids == {doc[p].id : p \in Positions} \cup {NoId}
IsTU(p) == doc[p].kind = "tu"
BlockId(p) == IF IsTU(p) THEN doc[p].id ELSE NoId

\* The part of event p is one the header subscribed to.
SentKinds ==
  {k \in DOMAIN PartType : Subscribed = {} \/ PartType[k] \in Subscribed}
Wanted(p) == doc[p].kind \in SentKinds

\* The segments handed over with the entry for block p: none for a block that
\* is not translatable, unless it came back as a full Part.
Segments(p) ==
  IF IsTU(p) /\ (client = "writer" \/ doc[p].translatable) THEN p ELSE 0

\* eventQueue has room for one more put.
HasRoom == Len(evq) < EventCap

\* sendBatch has reached SEND_BATCH_SIZE.
FullMutant(b) == Len(b) > BatchSize
Full(b) == Len(b) >= BatchSize

\* A translation entry is for the block the writer looks for.
MatchesMutant(e) == TRUE
Matches(e) == BlockId(e) = BlockId(wev)

\* The lookahead with entry e in it, replacing what was there for its id.
KeepMutant(e) == look
Keep(e) == [look EXCEPT ![BlockId(e)] = Segments(e)]

\* What the lookahead holds for the text unit p; a null segment list in it counts
\* as absent.
Found(p) == IF IsTU(p) THEN look[BlockId(p)] ELSE 0

\* The entry handleContentBlock and handleProcessedPart queue for block p: one
\* for every block, with segments or without.
Entry(p) == <<p>>

\* Queues, batch, lookahead and output hold positions of the document.
TypeOK ==
  /\ doc \in Docs /\ mode \in Modes /\ client \in Clients
  /\ rpc \in {"open", "read", "convert", "put", "putEnd", "pass2", "join",
              "close", "readDone", "catch", "release", "complete", "done"}
  /\ rpos \in 0..Len(doc)
  /\ batch \in Seq(1..Len(doc))
  /\ evq \in Seq(0..Len(doc)) /\ Len(evq) <= EventCap
  /\ wpc \in {"off", "poll", "find", "handle", "done", "failed"}
  /\ wev \in 0..Len(doc) /\ wseg \in 0..Len(doc)
  /\ look \in [Ids -> 0..Len(doc)] /\ eos \in BOOLEAN
  /\ trq \in Seq(0..Len(doc))
  /\ out \in Seq([ev : 1..Len(doc), seg : 0..Len(doc)])
  /\ writerOpen \in BOOLEAN
  /\ sent \in Seq(1..Len(doc)) /\ readDone \in BOOLEAN
  /\ complete \in {"none", "ok", "error"}
  /\ echoed \subseteq 1..Len(doc)
  /\ halfClosed \in BOOLEAN /\ cancelled \in BOOLEAN
  /\ verdict \in {"none", "ok", "error"} /\ slot \in {"held", "free"}
  /\ intr \subseteq {"reader", "writer"}

Init ==
  /\ doc \in Docs /\ mode \in Modes /\ client \in Clients
  /\ rpc = "open" /\ rpos = 0 /\ batch = <<>>
  /\ evq = <<>>
  /\ wpc = "off" /\ wev = 0 /\ wseg = 0
  /\ look = [id \in Ids |-> 0] /\ eos = FALSE
  /\ trq = <<>>
  /\ out = <<>> /\ writerOpen = FALSE
  /\ sent = <<>> /\ readDone = FALSE /\ complete = "none"
  /\ echoed = {} /\ halfClosed = FALSE /\ cancelled = FALSE
  /\ verdict = "none" /\ slot = "held"
  /\ intr = {}

-----------------------------------------------------------------------------
(* The pipeline thread: opens the filter, reads events, sends parts.         *)

\* Resolving the content, creating and opening the filter, probing the writer.
\* A failure, or a writer pool that Shutdown has already stopped, ends in the
\* catch block.
Open ==
  /\ rpc = "open"
  /\ \/ /\ ~(mode = "single" /\ "writer" \in intr)
        /\ rpc' = "read"
        /\ wpc' = IF mode = "single" THEN "poll" ELSE wpc
        /\ writerOpen' = (mode = "single")
     \/ /\ "filterFails" \in Faults \/ (mode = "single" /\ "writer" \in intr)
        /\ rpc' = "catch"
        /\ writerOpen' \in {FALSE, mode = "single"}
        /\ UNCHANGED wpc
  /\ UNCHANGED <<doc, mode, client, rpos, batch, evq, wev, wseg, look, eos, trq, out,
                 respVars, reqVars, endVars, intr>>

\* Sends the blocks b; a cancelled call throws out of onNext instead.
SendOr(b, next) ==
  IF b # <<>> /\ cancelled
    THEN rpc' = "catch" /\ UNCHANGED sent
    ELSE rpc' = next /\ sent' = sent \o b

NextEventMutant ==
  /\ rpc = "read" /\ rpos < Len(doc) /\ (mode = "single" => HasRoom)
  /\ rpos' = rpos + 1
  /\ rpc' = "convert"
  /\ evq' = IF mode = "single" THEN Append(evq, rpos + 1) ELSE evq
  /\ UNCHANGED <<doc, mode, client, batch, writerVars, trq, out, writerOpen,
                 respVars, reqVars, endVars, intr>>

\* filter.hasNext and filter.next: the event is now shared with nobody else.
NextEvent ==
  /\ rpc = "read" /\ rpos < Len(doc)
  /\ rpos' = rpos + 1
  /\ rpc' = "convert"
  /\ UNCHANGED <<doc, mode, client, batch, evq, writerVars, trq, out, writerOpen,
                 respVars, reqVars, endVars, intr>>

\* EventConverter.convert and the batch the part may complete: all of it before
\* the event is handed to the writer thread.
ConvertEvent ==
  /\ rpc = "convert"
  /\ LET b == IF Wanted(rpos) THEN Append(batch, rpos) ELSE batch
         full == Wanted(rpos) /\ Full(b)
     IN  /\ batch' = IF full THEN <<>> ELSE b
         /\ SendOr(IF full THEN b ELSE <<>>,
                   IF mode = "single" THEN "put" ELSE "read")
  /\ UNCHANGED <<doc, mode, client, rpos, evq, writerVars, trq, out, writerOpen,
                 readDone, complete, reqVars, endVars, intr>>

\* filter.hasNext or filter.next throws.
ReadFails ==
  /\ rpc = "read" /\ "filterFails" \in Faults
  /\ rpc' = "catch"
  /\ UNCHANGED <<doc, mode, client, rpos, batch, evq, writerVars, trq, out, writerOpen,
                 respVars, reqVars, endVars, intr>>

\* eventQueue.put: blocks while the queue is full, throws when interrupted.
PutEvent ==
  /\ rpc = "put" /\ "reader" \notin intr
  /\ HasRoom
  /\ evq' = Append(evq, rpos)
  /\ rpc' = "read"
  /\ UNCHANGED <<doc, mode, client, rpos, batch, writerVars, trq, out, writerOpen,
                 respVars, reqVars, endVars, intr>>

\* What sendBatch still holds after the last event.
RestMutant == <<>>
Rest == batch

\* No more events: the rest of the batch goes out.
Flush ==
  /\ rpc = "read" /\ rpos = Len(doc)
  /\ batch' = <<>>
  /\ SendOr(Rest, CASE mode = "single"   -> "putEnd"
                    [] mode = "twopass"  -> "pass2"
                    [] mode = "readonly" -> "close")
  /\ UNCHANGED <<doc, mode, client, rpos, evq, writerVars, trq, out, writerOpen,
                 readDone, complete, reqVars, endVars, intr>>

PutEnd ==
  /\ rpc = "putEnd" /\ "reader" \notin intr
  /\ HasRoom
  /\ evq' = Append(evq, END)
  /\ rpc' = "join"
  /\ UNCHANGED <<doc, mode, client, rpos, batch, writerVars, trq, out, writerOpen,
                 respVars, reqVars, endVars, intr>>

\* Two-pass: filter A is closed, filter B opened and its writer configured. The
\* pipeline thread plays the writer's part until the loop over filter B ends.
StartPass2 ==
  /\ rpc = "pass2"
  /\ \/ rpc' = "join" /\ wpc' = "poll" /\ writerOpen' = TRUE
     \/ /\ "filterFails" \in Faults
        /\ rpc' = "catch" /\ UNCHANGED <<wpc, writerOpen>>
  /\ UNCHANGED <<doc, mode, client, rpos, batch, evq, wev, wseg, look, eos, trq, out,
                 respVars, reqVars, endVars, intr>>

\* writerFuture.get returns once the writer has ended, and rethrows what ended
\* it.
JoinedMutant == TRUE
Joined == wpc \in {"done", "failed"}
AfterJoinMutant == "close"
AfterJoin == IF wpc = "failed" THEN "catch" ELSE "close"

JoinWriter ==
  /\ rpc = "join" /\ Joined
  /\ rpc' = AfterJoin
  /\ UNCHANGED <<doc, mode, client, rpos, batch, evq, writerVars, trq, out, writerOpen,
                 respVars, reqVars, endVars, intr>>

\* put and get throw InterruptedException once Shutdown has interrupted the
\* filter pool; get returns without looking if the writer is done already.
ReaderInterrupted ==
  /\ mode = "single" /\ "reader" \in intr
  /\ \/ rpc \in {"put", "putEnd"}
     \/ rpc = "join" /\ ~Joined
  /\ rpc' = "catch"
  /\ UNCHANGED <<doc, mode, client, rpos, batch, evq, writerVars, trq, out, writerOpen,
                 respVars, reqVars, endVars, intr>>

\* writer.close, then filter.close, after the last event; of filter B a failing
\* close is ignored.
CloseWriter ==
  /\ rpc = "close"
  /\ \/ rpc' = "readDone" /\ writerOpen' = FALSE
     \/ /\ writerOpen /\ "writerFails" \in Faults
        /\ rpc' = "catch" /\ UNCHANGED writerOpen
     \/ /\ mode # "twopass" /\ "filterFails" \in Faults
        /\ rpc' = "catch" /\ writerOpen' = FALSE
  /\ UNCHANGED <<doc, mode, client, rpos, batch, evq, writerVars, trq, out, respVars,
                 reqVars, endVars, intr>>

SendReadDone ==
  /\ rpc = "readDone"
  /\ IF cancelled
       THEN rpc' = "catch" /\ UNCHANGED <<readDone, verdict>>
       ELSE rpc' = "release" /\ readDone' = TRUE /\ verdict' = "ok"
  /\ UNCHANGED <<doc, mode, client, rpos, batch, evq, writerVars, trq, out, writerOpen,
                 sent, complete, reqVars, slot, intr>>

\* The catch block: closes writer and filter whatever the writer thread does.
Catch ==
  /\ rpc = "catch"
  /\ rpc' = "release" /\ verdict' = "error"
  /\ writerOpen' = FALSE
  /\ UNCHANGED <<doc, mode, client, rpos, batch, evq, writerVars, trq, out, respVars,
                 reqVars, slot, intr>>

\* sendCompleteMessage: the permit goes back before the network send.
ReleaseSlot ==
  /\ rpc = "release"
  /\ rpc' = "complete" /\ slot' = "free"
  /\ UNCHANGED <<doc, mode, client, rpos, batch, evq, writerVars, trq, out, writerOpen,
                 respVars, reqVars, verdict, intr>>

\* The Complete message: success, or the error of the catch block; the send to a
\* cancelled call throws and is only logged.
Answer == IF cancelled THEN complete ELSE verdict

SendComplete ==
  /\ rpc = "complete"
  /\ rpc' = "done"
  /\ complete' = Answer
  /\ UNCHANGED <<doc, mode, client, rpos, batch, evq, writerVars, trq, out, writerOpen,
                 sent, readDone, reqVars, endVars, intr>>

Reader ==
  \/ Open \/ NextEvent \/ ConvertEvent \/ ReadFails \/ PutEvent \/ Flush \/ PutEnd
  \/ StartPass2 \/ JoinWriter \/ ReaderInterrupted \/ CloseWriter
  \/ SendReadDone \/ Catch \/ ReleaseSlot \/ SendComplete

-----------------------------------------------------------------------------
(* The writer: a thread of its own in single-pass mode, the pipeline thread  *)
(* in pass 2.                                                                *)

WriterInterrupted ==
  IF mode = "twopass" THEN "reader" \in intr ELSE "writer" \in intr

\* applyTranslations and the start of findSegments for event p: anything but a
\* text unit passes through; the lookahead is asked first; after END nothing is
\* looked for any more.
StartEvent(p) ==
  /\ wev' = p
  /\ wseg' = Found(p)
  /\ look' = IF IsTU(p) THEN [look EXCEPT ![BlockId(p)] = 0] ELSE look
  /\ wpc' = IF IsTU(p) /\ Found(p) = 0 /\ ~eos THEN "find" ELSE "handle"

\* Single-pass: the writer thread takes the next event or END_OF_EVENTS.
TakeEvent ==
  /\ wpc = "poll" /\ mode = "single" /\ ~WriterInterrupted
  /\ evq # <<>>
  /\ evq' = Tail(evq)
  /\ IF Head(evq) = END
       THEN wpc' = "done" /\ UNCHANGED <<wev, wseg, look>>
       ELSE StartEvent(Head(evq))
  /\ UNCHANGED <<doc, mode, client, readerVars, eos, trq, out, writerOpen, respVars,
                 reqVars, endVars, intr>>

\* Pass 2: filter B produces the events of the same document again.
NextOfPass2 ==
  /\ wpc = "poll" /\ mode = "twopass"
  /\ IF wev = Len(doc)
       THEN wpc' = "done" /\ UNCHANGED <<wev, wseg, look>>
       ELSE StartEvent(wev + 1)
  /\ UNCHANGED <<doc, mode, client, readerVars, evq, eos, trq, out, writerOpen,
                 respVars, reqVars, endVars, intr>>

\* findSegments: one entry from the translation queue; an entry for another
\* block waits in the lookahead, replacing what was there for its id.
PollTranslation ==
  /\ wpc = "find" /\ ~WriterInterrupted
  /\ trq # <<>>
  /\ trq' = Tail(trq)
  /\ LET e == Head(trq) IN
       IF e = END
         THEN eos' = TRUE /\ wpc' = "handle" /\ UNCHANGED <<wseg, look>>
         ELSE /\ UNCHANGED eos
              /\ IF Matches(e)
                   THEN /\ wseg' = Segments(e) /\ wpc' = "handle"
                        /\ UNCHANGED look
                   ELSE /\ look' = Keep(e)
                        /\ UNCHANGED <<wpc, wseg>>
  /\ UNCHANGED <<doc, mode, client, readerVars, evq, wev, out, writerOpen, respVars,
                 reqVars, endVars, intr>>

\* An interrupt while waiting for a translation counts as end of stream; while
\* waiting for an event it ends the writer thread.
WriterSeesInterrupt ==
  /\ WriterInterrupted
  /\ \/ wpc = "find" /\ eos' = TRUE /\ wpc' = "handle"
     \/ wpc = "poll" /\ mode = "single" /\ wpc' = "failed" /\ UNCHANGED eos
  /\ UNCHANGED <<doc, mode, client, readerVars, evq, wev, wseg, look, trq, out,
                 writerOpen, respVars, reqVars, endVars, intr>>

\* The segments go into the text unit's target and IFilterWriter.handleEvent
\* writes the event; on a writer the catch block has closed it may still write
\* or throw.
HandleEvent ==
  /\ wpc = "handle"
  /\ \/ wpc' = "poll" /\ out' = Append(out, [ev |-> wev, seg |-> wseg])
     \/ /\ "writerFails" \in Faults \/ ~writerOpen
        /\ wpc' = "failed" /\ UNCHANGED out
  /\ UNCHANGED <<doc, mode, client, readerVars, evq, wev, wseg, look, eos, trq,
                 writerOpen, respVars, reqVars, endVars, intr>>

\* The client's answers and the reader's events have run dry: without the
\* fault "slow" a poll times out only then.
Offered ==
  IF client = "writer" THEN {p \in Positions : IsTU(p)} ELSE Range(sent)
ReaderStuck ==
  \/ rpc \in {"join", "done"}
  \/ rpc \in {"put", "putEnd"} /\ ~HasRoom
ClientDry == Offered \subseteq echoed \/ halfClosed

\* A poll of either queue finds nothing for long enough.
NoTranslation ==
  /\ wpc = "find" /\ trq = <<>>
  /\ "slow" \in Faults \/ (ClientDry /\ ReaderStuck)
NoEventMutant == FALSE
NoEvent ==
  /\ wpc = "poll" /\ mode = "single" /\ evq = <<>>
  /\ "slow" \in Faults \/ rpc = "done"

\* The stuck timeout: poll returns null and the writer throws.
StuckTimeout ==
  /\ NoTranslation \/ NoEvent
  /\ ~WriterInterrupted
  /\ wpc' = "failed"
  /\ UNCHANGED <<doc, mode, client, readerVars, evq, wev, wseg, look, eos, trq, out,
                 writerOpen, respVars, reqVars, endVars, intr>>

\* Filter B, like filter A, may throw while it reads.
Pass2Fails ==
  /\ wpc = "poll" /\ mode = "twopass" /\ "filterFails" \in Faults
  /\ wpc' = "failed"
  /\ UNCHANGED <<doc, mode, client, readerVars, evq, wev, wseg, look, eos, trq, out,
                 writerOpen, respVars, reqVars, endVars, intr>>

Writer ==
  \/ TakeEvent \/ NextOfPass2 \/ PollTranslation \/ WriterSeesInterrupt
  \/ HandleEvent \/ Pass2Fails

-----------------------------------------------------------------------------
(* The request side: what the client sends, as the observer handles it.      *)

Open2Way == ~halfClosed /\ ~cancelled

\* One block comes back. The echoing client answers blocks in the order they
\* were sent, the reordering one in any order.
OnContentBlock(p) ==
  /\ Open2Way
  /\ mode # "readonly"
  /\ p \in Offered \ echoed
  /\ client # "reorder" => \A q \in Offered \ echoed : p <= q
  /\ echoed' = echoed \cup {p}
  /\ trq' = trq \o Entry(p)
  /\ UNCHANGED <<doc, mode, client, readerVars, evq, writerVars, out, writerOpen,
                 respVars, halfClosed, cancelled, endVars, intr>>

\* CloseSend: at once by a client that asks for no output, after ReadDone by one that
\* echoes, after its last block by one that only writes.
OnCompleted ==
  /\ Open2Way
  /\ \/ mode = "readonly"
     \/ Offered \subseteq echoed /\ (readDone \/ client = "writer")
  /\ halfClosed' = TRUE
  /\ trq' = Append(trq, END)
  /\ UNCHANGED <<doc, mode, client, readerVars, evq, writerVars, out, writerOpen,
                 respVars, echoed, cancelled, endVars, intr>>

\* The client cancels (its deadline, or a failing test). The observer's onError
\* empties the queue, unless the client had already half-closed.
OnError ==
  /\ "cancel" \in Faults /\ ~cancelled
  /\ rpc # "done"
  /\ cancelled' = TRUE
  /\ trq' = IF halfClosed THEN trq ELSE <<END>>
  /\ UNCHANGED <<doc, mode, client, readerVars, evq, writerVars, out, writerOpen,
                 respVars, echoed, halfClosed, endVars, intr>>

\* The Shutdown RPC: filterPool.shutdownNow, then writerPool.shutdownNow.
Shutdown ==
  /\ "shutdown" \in Faults
  /\ \/ intr = {} /\ intr' = {"reader"}
     \/ intr = {"reader"} /\ intr' = {"reader", "writer"}
  /\ UNCHANGED <<doc, mode, client, readerVars, evq, writerVars, trq, out, writerOpen,
                 respVars, reqVars, endVars>>

Requests == OnCompleted \/ \E p \in Positions : OnContentBlock(p)

\* The pipeline thread has returned and no writer thread is left behind.
Terminated == rpc = "done" /\ wpc \in {"off", "done", "failed"}

Next ==
  \/ Reader \/ Writer \/ StuckTimeout \/ Requests \/ OnError \/ Shutdown
  \/ Terminated /\ UNCHANGED vars

\* Both threads are scheduled, a poll that finds nothing for long enough times
\* out, and the client goes on answering; nobody has to cancel or shut down.
ServerFairness == WF_vars(Reader) /\ WF_vars(Writer) /\ WF_vars(StuckTimeout)
Spec == Init /\ [][Next]_vars /\ ServerFairness /\ WF_vars(Requests)

-----------------------------------------------------------------------------
(* Properties.                                                               *)

\* Every event is written once and in document order, and a text unit never
\* carries the translation of another one.
AlignedOutput == \A i \in DOMAIN out : out[i].ev = i /\ out[i].seg \in {0, i}

\* A writer that waits on an empty translation queue waits for a block the
\* client has not answered: no answer is lost in the lookahead.
AnsweredIsServed == wpc = "find" /\ trq = <<>> => wev \notin echoed

\* Complete without an error means that the whole document was written, every
\* translatable text unit with its own translation.
SuccessIsTranslated ==
  complete = "ok" /\ mode # "readonly" =>
    /\ Len(out) = Len(doc)
    /\ \A i \in DOMAIN out : out[i].seg = Segments(i)

\* The writer works on no event whose segments the reader is still iterating.
NoSharedIteration ==
  mode = "single" /\ wpc \in {"find", "handle"} /\ rpc = "convert" => wev # rpos

\* The reader never sits in eventQueue.put on a full queue while the writer
\* waits for the translation of a block that is still in the send batch.
NoUnsentStarvation ==
  ~ /\ rpc = "put" /\ ~HasRoom
    /\ wpc = "find"
    /\ \E i \in DOMAIN batch : batch[i] = wev

\* The permit is back in the semaphore only when nothing works for the stream.
FreeSlotIsIdle == slot = "free" => wpc \in {"off", "done", "failed"}

\* Every stream comes to an end: the pipeline thread returns, and so does the
\* writer thread.
Termination == <>Terminated

\* Without faults every stream ends in a successful Complete.
EventuallySucceeds == <>(complete = "ok")

\* Once the writer thread has given up (the stuck timeout), the stream is
\* answered with an error, unless the client is gone.
StuckAborts == wpc = "failed" ~> (complete = "error" \/ cancelled)

\* The pipeline, its queues and threads hidden, keeps the promise of the RPC.
Cycle == INSTANCE DocumentCycle
           WITH Kinds <- SentKinds,
                result <- IF rpc = "done" THEN verdict ELSE "running"
RefinesDocumentCycle == Cycle!Spec
=============================================================================
