---------------------------- MODULE MCEvaluator ----------------------------
(* Evaluator for TLC: entries a walk of the process table may meet.  The   *)
(* candidates' target is "parser"; one entry of that name runs as a        *)
(* protected role, so both values of the snapshot's flag occur.            *)
EXTENDS Evaluator

MCText == {Empty, Unterminated, "sh", "evaluator", "parser", "fixsuggest"}

MCEntry == {[name |-> "parser", agent_role |-> "evaluator"],
            [name |-> "sh", agent_role |-> "parser"],
            [name |-> "parser", agent_role |-> "parser"]}
===========================================================================
