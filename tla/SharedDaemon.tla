---------------------------- MODULE SharedDaemon ----------------------------
(***************************************************************************)
(* What the tests of a binary are promised about their daemon              *)
(* (AcquireBridgeDaemon): one answer, the same for everybody, for as long  *)
(* as the binary runs.                                                     *)
(***************************************************************************)
VARIABLE fate  \* "unasked", "up" or "broken"

Init == fate = "unasked"

Decide == fate = "unasked" /\ fate' \in {"up", "broken"}

Spec == Init /\ [][Decide]_fate
=============================================================================
