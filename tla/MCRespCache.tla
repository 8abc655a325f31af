---------------------------- MODULE MCRespCache ----------------------------
(* RespCache for TLC: a query, a paraphrase of its prompt, and the same    *)
(* prompt under another role.                                              *)
EXTENDS RespCache, TLC

Q(role, prompt) == [role |-> role, prompt |-> prompt]

ThreeQueries == {Q("parser", "list files"), Q("parser", "please list the files"),
                 Q("classifier", "list files")}

TwoQueries == {Q("parser", "list files"), Q("parser", "please list the files")}

PromptWords == [p \in {"list files", "please list the files"} |-> {"list", "files"}]

AgentSymmetry == Permutations(Agent)
=============================================================================
