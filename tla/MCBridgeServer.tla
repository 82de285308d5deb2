--------------------------- MODULE MCBridgeServer ---------------------------
(* Parameters for model-checking BridgeServer.                             *)
EXTENDS BridgeServer

CONSTANTS c1, c2, c3, s1

OneCall == {c1}
ThreeCalls == {c1, c2, c3}
OneStep == {s1}
=============================================================================
