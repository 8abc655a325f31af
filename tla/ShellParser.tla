----------------------------- MODULE ShellParser -----------------------------
(***************************************************************************)
(* The command line parser of the shell (user/sh.c): a recursive descent   *)
(* over the characters of a line, and the grammar it should follow, stated *)
(* by where a line is divided.  "a" stands for a letter, " " for a blank.  *)
(*                                                                         *)
(* A parser returns [ok, cmd, s]: s is the rest of the line (ps), and ok   *)
(* is FALSE when panic() has been called.                                  *)
(***************************************************************************)
EXTENDS Integers, FiniteSets, SequencesExt

CONSTANT MAXARGS
ASSUME MaxArgsAssumption == MAXARGS \in Nat \ {0}

symbols == {"<", "|", ">", "&", ";", "(", ")"}
Panic == [ok |-> FALSE, cmd |-> <<>>, s |-> <<>>]
Parsed(cmd, s) == [ok |-> TRUE, cmd |-> cmd, s |-> s]

execcmd(argc) == [type |-> "EXEC", argc |-> argc]
redircmd(cmd, tok) == [type |-> "REDIR", cmd |-> cmd, mode |-> tok, fd |-> IF tok = "<" THEN 0 ELSE 1]
pipecmd(left, right) == [type |-> "PIPE", left |-> left, right |-> right]
listcmd(left, right) == [type |-> "LIST", left |-> left, right |-> right]
backcmd(cmd) == [type |-> "BACK", cmd |-> cmd]

(* The position of the first character of s that is not in C, or past the end. *)
Past(s, C) == IF \A n \in 1 .. Len(s) : s[n] \in C THEN Len(s) + 1
              ELSE CHOOSE n \in 1 .. Len(s) : s[n] \notin C /\ \A k \in 1 .. n - 1 : s[k] \in C
SkipBlanks(s) == SubSeq(s, Past(s, {" "}), Len(s))

(* gettoken(): the token that s, without its first blanks, starts with, and
   what comes after it and the blanks that follow.  "+" is ">>", "" the end. *)
gettoken(s0) ==
  LET s == SkipBlanks(s0)
      n == IF s = <<>> THEN 0
           ELSE IF Head(s) = ">" /\ Len(s) > 1 /\ s[2] = ">" THEN 2
           ELSE IF Head(s) \in symbols THEN 1
           ELSE Past(s, {"a"}) - 1
  IN [tok |-> IF s = <<>> THEN "" ELSE IF n = 2 /\ s[2] = ">" THEN "+" ELSE Head(s),
      s |-> SkipBlanks(SubSeq(s, n + 1, Len(s)))]

peek(s0, toks) == LET s == SkipBlanks(s0) IN s # <<>> /\ Head(s) \in toks

RECURSIVE parseline(_), parsepipe(_), parseredirs(_, _), parseargs(_, _, _), Backed(_, _)

(* A command with the redirections of r around it, the last one outermost. *)
Redirected(cmd, r) == FoldLeft(redircmd, cmd, r)

(* parseredirs(): the redirections that come next, after those of r. *)
parseredirs(r, s) ==
  IF ~peek(s, {"<", ">"}) THEN Parsed(r, s)
  ELSE LET t == gettoken(s)
           f == gettoken(t.s)
       IN IF f.tok # "a" THEN Panic ELSE parseredirs(Append(r, t.tok), f.s)

parseblock(s) ==
  LET line == parseline(gettoken(s).s) IN
  IF ~line.ok \/ ~peek(line.s, {")"}) THEN Panic
  ELSE LET r == parseredirs(<<>>, gettoken(line.s).s) IN
       IF r.ok THEN Parsed(Redirected(line.cmd, r.cmd), r.s) ELSE Panic

(* The loop of parseexec(), with argc words and the redirections r so far. *)
parseargs(argc, r, s) ==
  IF peek(s, {"|", ")", "&", ";"}) \/ gettoken(s).tok = ""
  THEN Parsed(Redirected(execcmd(argc), r), SkipBlanks(s))
  ELSE IF gettoken(s).tok # "a" \/ argc + 1 >= MAXARGS THEN Panic
  ELSE LET q == parseredirs(r, gettoken(s).s) IN
       IF q.ok THEN parseargs(argc + 1, q.cmd, q.s) ELSE Panic

parseexec(s) ==
  IF peek(s, {"("}) THEN parseblock(s)
  ELSE LET r == parseredirs(<<>>, s) IN
       IF r.ok THEN parseargs(0, r.cmd, r.s) ELSE Panic

(* Mutant: a | b | c is taken from the left. *)
PipeStops(s) ==
  LET left == parseexec(s) IN
  IF ~left.ok \/ ~peek(left.s, {"|"}) THEN left
  ELSE LET right == parseexec(gettoken(left.s).s) IN
       IF right.ok THEN Parsed(pipecmd(left.cmd, right.cmd), right.s) ELSE Panic

parsepipe(s) ==
  LET left == parseexec(s) IN
  IF ~left.ok \/ ~peek(left.s, {"|"}) THEN left
  ELSE LET right == parsepipe(gettoken(left.s).s) IN
       IF right.ok THEN Parsed(pipecmd(left.cmd, right.cmd), right.s) ELSE Panic

(* The loop over "&" in parseline(). *)
Backed(cmd, s) == IF peek(s, {"&"}) THEN Backed(backcmd(cmd), gettoken(s).s) ELSE Parsed(cmd, s)

parseline(s) ==
  LET first == parsepipe(s)
      left == IF first.ok THEN Backed(first.cmd, first.s) ELSE Panic
  IN IF ~left.ok \/ ~peek(left.s, {";"}) THEN left
     ELSE LET right == parseline(gettoken(left.s).s) IN
          IF right.ok THEN Parsed(listcmd(left.cmd, right.cmd), right.s) ELSE Panic

(* parsecmd(): leftovers are a syntax error. *)
parsecmd(s) ==
  LET line == parseline(s) IN
  IF line.ok /\ SkipBlanks(line.s) = <<>> THEN [ok |-> TRUE, cmd |-> line.cmd]
  ELSE [ok |-> FALSE, cmd |-> <<>>]

---------------------------------------------------------------------------
(* The grammar, over the tokens of a line.                                 *)

RECURSIVE Tokens(_)
Tokens(s) == LET t == gettoken(s) IN IF t.tok = "" THEN <<>> ELSE <<t.tok>> \o Tokens(t.s)

Depth(t, n) == Cardinality({k \in 1 .. n : t[k] = "("}) - Cardinality({k \in 1 .. n : t[k] = ")"})

(* The places of x in t outside all parentheses. *)
Outside(t, x) == {n \in 1 .. Len(t) : t[n] = x /\ Depth(t, n) = 0}
Before(t, n) == SubSeq(t, 1, n - 1)
After(t, n) == SubSeq(t, n + 1, Len(t))

RECURSIVE Line(_), Pipe(_)

(* t as words and redirections: a redirection sign is followed by its file. *)
IsFile(t, n) == n > 1 /\ t[n - 1] \in {"<", ">", "+"}
Redirs(t) == SelectSeq(t, LAMBDA x : x \in {"<", ">", "+"})
Words(t) == {n \in 1 .. Len(t) : t[n] = "a" /\ ~IsFile(t, n)}
Simple(t) == \A n \in 1 .. Len(t) :
               /\ t[n] \in {"a", "<", ">", "+"}
               /\ t[n] # "a" => n < Len(t) /\ t[n + 1] = "a"

(* None, or the one command that t stands for. *)
Both(L, R, make(_, _)) == {make(l, r) : l \in L, r \in R}
Wrap(C, t) == {Redirected(c, Redirs(t)) : c \in C}

(* A simple command, or a line in parentheses with redirections after it. *)
Command(t) ==
  IF t # <<>> /\ Head(t) = "(" THEN
    LET ends == {n \in 2 .. Len(t) : t[n] = ")" /\ Depth(t, n) = 0} IN
    IF ends = {} THEN {}
    ELSE LET n == CHOOSE m \in ends : \A k \in ends : m <= k
             rest == After(t, n)
         IN IF Simple(rest) /\ Words(rest) = {} THEN Wrap(Line(SubSeq(t, 2, n - 1)), rest) ELSE {}
  ELSE IF Simple(t) /\ Cardinality(Words(t)) < MAXARGS
       THEN Wrap({execcmd(Cardinality(Words(t)))}, t)
       ELSE {}

(* Commands divided by "|". *)
Pipe(t) ==
  IF Outside(t, "|") = {} THEN Command(t)
  ELSE LET n == CHOOSE m \in Outside(t, "|") : \A k \in Outside(t, "|") : m <= k
       IN Both(Command(Before(t, n)), Pipe(After(t, n)), pipecmd)

(* A pipe, with an "&" after it for every time it goes to the background. *)
Job(t) ==
  LET amps == Outside(t, "&")
      n == Len(t) - Cardinality(amps)
  IN IF amps = n + 1 .. Len(t) THEN {FoldLeft(LAMBDA c, x : backcmd(c), p, SubSeq(t, n + 1, Len(t))) : p \in Pipe(SubSeq(t, 1, n))}
     ELSE {}

(* Jobs divided by ";". *)
Line(t) ==
  IF Outside(t, ";") = {} THEN Job(t)
  ELSE LET n == CHOOSE m \in Outside(t, ";") : \A k \in Outside(t, ";") : m <= k
       IN Both(Job(Before(t, n)), Line(After(t, n)), listcmd)

(* What a line means: a command, or a syntax error. *)
Meaning(s) ==
  LET c == Line(Tokens(s))
  IN IF c = {} THEN [ok |-> FALSE, cmd |-> <<>>] ELSE [ok |-> TRUE, cmd |-> CHOOSE x \in c : TRUE]
=============================================================================
