----------------------------- MODULE MCPipeline -----------------------------
(* Pipeline for TLC, with the shell's parser. *)
EXTENDS Pipeline, ShellParser

Strings(C, n) == UNION {[1 .. k -> C] : k \in 1 .. n}

(* Lines with blanks and redirections, with redirected groups, and with all
   the ways to join commands.                                              *)
SomeLines == Strings({"a", " ", "<", ">", "|", "&"}, 4) \cup Strings({"a", ">", "(", ")"}, 5)
             \cup Strings({"a", "|", "&", ";", "(", ")"}, 5)

(* Pipelines of two and of three, redirected, grouped, one after the other, in the background. *)
SomeRuns == {<<"a", "|", "a">>, <<"a", "|", "a", "|", "a">>, <<"a", "|", "a", "&">>, <<"(", "a", "|", "a", ")">>,
             <<"a", ";", "a">>, <<"a", "&", ";", "a">>, <<"|", "a">>, <<"a", ">", "a">>, <<"a", "<", "a">>}

RECURSIVE Parts(_)
Parts(cmd) ==
  {cmd} \cup (IF cmd.type \in {"REDIR", "BACK"} THEN Parts(cmd.cmd)
              ELSE IF cmd.type \in {"LIST", "PIPE"} THEN Parts(cmd.left) \cup Parts(cmd.right) ELSE {})
SomeCommands == UNION {Parts(parsecmd(l).cmd) : l \in {r \in SomeRuns : parsecmd(r).ok}}

SomeInputs == {<<1, 2, 0, 3>>}
ShortInputs == {<<1, 0, 0>>}

(* parsecmd() takes a line for what the grammar says it means, and refuses
   the others; a pipeline is taken from the right, jobs end at ";".        *)
ParsesTheGrammar == line # <<>> => parsed = Meaning(line)
=============================================================================
