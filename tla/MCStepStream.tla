---------------------------- MODULE MCStepStream ----------------------------
(* Inputs for model-checking StepStream.                                    *)
EXTENDS StepStream

GoBlock == [type |-> 5, payload |-> "block"]
JavaBlock == [type |-> 4, payload |-> "block"]
LayerStart == [type |-> 0, payload |-> "layer"]
LayerEnd == [type |-> 1, payload |-> "none"]

\* Every input of up to four parts, some of which become events.
AllInputs == UNION {[1..n -> {GoBlock, JavaBlock, LayerStart, LayerEnd}] : n \in 0..4}

\* The input of the tool tests: one block as the Go client sends it.
OneBlock == { <<GoBlock>> }

StepFaults == {"initFails", "stepFails", "cancel"}
=============================================================================
