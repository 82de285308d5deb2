---------------------------- MODULE MCPseudobench ----------------------------
(***************************************************************************)
(* Three files: one whose name another one extends, so that the output of  *)
(* the second is found first for the first; the third has no letters and   *)
(* is unknown to the parity corpus. Output directories are empty or have   *)
(* the output of an earlier run.                                           *)
(***************************************************************************)
EXTENDS Pseudobench

MCFixtures == {"a", "a_b", "c"}
MCLetters == {"a", "a_b"}
MCGroup == [f \in MCFixtures |-> CASE f = "a" -> "html" [] f = "a_b" -> "json" [] f = "c" -> "-"]
MCLookalikes ==
  [f \in MCFixtures |-> CASE f = "a" -> <<"a_b", "a">> [] f = "a_b" -> <<"a_b">> [] f = "c" -> <<"c">>]

Given(kapi, jar, okapi) == [kapi |-> kapi, jar |-> jar, okapi |-> okapi]
MCSetups == {Given(TRUE, TRUE, FALSE), Given(TRUE, FALSE, TRUE), Given(FALSE, TRUE, TRUE), Given(FALSE, TRUE, FALSE)}

MCLeftovers == {[f \in MCFixtures |-> "none"], [f \in MCFixtures |-> IF f = "a" THEN "pseudo" ELSE "none"]}
=============================================================================
