---------------------------- MODULE DocumentCycle ----------------------------
(***************************************************************************)
(* What the Process RPC promises for one document, without threads, queues *)
(* or batches: the subscribed parts reach the client once and in order,    *)
(* every event is written once and in order, a translation is the answer   *)
(* to a part that was sent for that very event, and success means that     *)
(* nothing is missing.                                                     *)
(***************************************************************************)
EXTENDS Integers, Sequences, Functions

CONSTANTS
  Docs, Modes,
  Kinds         (* kinds of events whose parts the client subscribed to *)

VARIABLES doc, mode, sent, out, result

vars == <<doc, mode, sent, out, result>>

\* The subscribed parts, by their positions in the document.
Parts == {p \in DOMAIN doc : doc[p].kind \in Kinds}

\* s lists the parts among the first n events, once each and in document order.
Lists(s, n) ==
  /\ Range(s) = {p \in Parts : p <= n}
  /\ \A i, j \in DOMAIN s : i < j => s[i] < s[j]

Init ==
  /\ doc \in Docs /\ mode \in Modes
  /\ sent = <<>> /\ out = <<>>
  /\ result = "running"

SendParts ==
  /\ result = "running"
  /\ \E k, n \in DOMAIN doc : \E next \in [1..k -> Parts] :
       Lists(sent \o next, n) /\ sent' = sent \o next
  /\ UNCHANGED <<doc, mode, out, result>>

\* The writer thread of a failed stream may go on for a while.
WriteNext ==
  /\ result # "ok" /\ mode # "readonly"
  /\ Len(out) < Len(doc)
  /\ LET p == Len(out) + 1 IN
       \E seg \in {0} \cup ({p} \cap Range(sent)) :
         out' = Append(out, [ev |-> p, seg |-> seg])
  /\ UNCHANGED <<doc, mode, sent, result>>

Succeed ==
  /\ result = "running"
  /\ Lists(sent, Len(doc))
  /\ mode # "readonly" => Len(out) = Len(doc)
  /\ result' = "ok"
  /\ UNCHANGED <<doc, mode, sent, out>>

Fail ==
  /\ result = "running"
  /\ result' = "error"
  /\ UNCHANGED <<doc, mode, sent, out>>

Next == SendParts \/ WriteNext \/ Succeed \/ Fail

Spec == Init /\ [][Next]_vars
=============================================================================
