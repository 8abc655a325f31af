--------------------------- MODULE MCVerdictLoop ---------------------------
(* VerdictLoop for TLC: text fields at every kind of content, numbers on   *)
(* both sides of every bound the verifier tests.                           *)
EXTENDS VerdictLoop

MCText == {Empty, Unterminated, "sh", "evaluator", "parser", "fixsuggest"}

MCNumber == {-1, 0, 2, 3, 4, 9}
=============================================================================
