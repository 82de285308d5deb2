-------------------------- MODULE MCProcessPipeline --------------------------
(* Documents and parameters for model-checking ProcessPipeline.             *)
EXTENDS ProcessPipeline

TU(id) == [kind |-> "tu", id |-> id, translatable |-> TRUE]
Fixed(id) == [kind |-> "tu", id |-> id, translatable |-> FALSE]
Data == [kind |-> "data", id |-> NoId, translatable |-> FALSE]
Raw == [kind |-> "raw", id |-> NoId, translatable |-> FALSE]

DocsUpTo(n, events) == UNION {[1..k -> events] : k \in 0..n}

\* Repeated ids, a block that is not translatable, parts that are no blocks; up
\* to three events with one among them that has no part; and longer documents
\* that fill the event queue.
CleanDocs == DocsUpTo(3, {TU("a"), TU("b"), Fixed("a"), Data, Raw})
               \cup DocsUpTo(4, {TU("a"), TU("b"), Fixed("a"), Data})
               \cup DocsUpTo(6, {TU("a"), Data})

\* Every document of up to three events, for the runs with faults.
ShortDocs == DocsUpTo(3, {TU("a"), Fixed("a"), Data})

\* Translatable blocks with distinct ids, for answers out of order.
DistinctDocs == { <<TU("a"), Data, TU("b"), TU("c"), Raw>>,
                  <<TU("b"), TU("a"), Data, TU("c")>> }

\* One block and the parts that follow it.
BlockThenData == { <<TU("a"), Data, Data, Data, Data, Data>> }

SinglePass == {"single"}
WriteModes == {"single", "twopass"}
AllModes == {"readonly", "single", "twopass"}
AllParts == {}
BlocksOnly == {4}
Echo == {"echo"}
ReorderOrWriter == {"reorder", "writer"}
ServerFaults == {"writerFails", "slow"}
AllFaults == FaultKinds
=============================================================================
