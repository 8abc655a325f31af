------------------------------ MODULE Pipeline ------------------------------
(***************************************************************************)
(* Pipes (kernel/pipe.c) and the programs that build pipelines of them:    *)
(* the shell's runcmd() (user/sh.c), the triage orchestrator               *)
(* (user/triage.c) and the agents that are its stages (user/parser.c,      *)
(* classifier.c, rootcause.c, fixsuggest.c).                               *)
(*                                                                         *)
(* A program is the sequence of the system calls it still has to make;     *)
(* runcmd() turns a command into one.  A step is one system call, or one   *)
(* stay under a pipe's lock.  A process that has decided to sleep still    *)
(* holds the pipe's lock, and can be killed before it sleeps.              *)
(***************************************************************************)
EXTENDS Naturals, FiniteSets, SequencesExt

CONSTANTS
  Sh,           \* the shell's process
  Child,        \* the other processes there is room for
  NFILE,        \* entries of ftable
  NOFILE,       \* descriptors of a process
  NPIPE,        \* pages that kalloc() has for pipes
  PIPESIZE,
  UINT,         \* values of an unsigned int
  Lines,        \* command lines
  Parse(_),     \* parsecmd(): [ok, cmd] of a line
  Runs,         \* bound: the lines that are run once they are parsed
  Commands,     \* what they are parsed to, with the commands that are parts of it
  Inputs,       \* what can be read from the console: bytes, 0 is a newline
  TriageInputs, \* the same, when triage is run
  STAGES,       \* stages of triage
  Victims,      \* bound: processes that somebody may kill
  MAXKILLS      \* bound: calls of kill()

ASSUME PipeAssumption ==
  /\ Sh \notin Child
  /\ {NFILE, NOFILE, NPIPE, PIPESIZE, UINT, STAGES} \subseteq Nat \ {0}
  /\ NOFILE > 2 /\ PIPESIZE < UINT /\ UINT % PIPESIZE = 0
  /\ Runs \subseteq Lines /\ \A l \in Runs : Parse(l).ok => Parse(l).cmd \in Commands
  /\ \A cmd \in Commands :
       /\ cmd.type \in {"EXEC", "REDIR", "LIST", "PIPE", "BACK"}
       /\ cmd.type = "REDIR" => cmd.fd \in 0 .. 1
       /\ cmd.type \in {"REDIR", "BACK"} => cmd.cmd \in Commands
       /\ cmd.type \in {"LIST", "PIPE"} => cmd.left \in Commands /\ cmd.right \in Commands
  /\ Inputs \cup TriageInputs \subseteq Seq(Nat)
  /\ Victims \subseteq Child /\ MAXKILLS \in Nat /\ IsFiniteSet(Child)

Proc == {Sh} \cup Child
File == 1 .. NFILE
Fd == 0 .. NOFILE - 1
PipeId == 1 .. NPIPE
PipeVar == 1 .. STAGES   \* the variables of a function for the descriptors of pipes
None == 0
NoOne == "nobody"
Awake == <<"none", 0>>
NoEnds == [k \in PipeVar |-> <<0, 0>>]
Console == 1   \* the entry of ftable that the shell has open as 0, 1 and 2

VARIABLES
  todo,    \* calls a process still has to make
  state,   \* "unused", "run", "sleep" or "zombie"
  chan,    \* what it sleeps on, or is about to
  parent,
  ofile,
  ends,    \* those variables: the p[0] and p[1] that pipe() set in each
  buf,     \* the line an agent has in hand
  killed,
  file,    \* ftable: [ref, kind, pi, writable]
  pipe,    \* [used, nread, nwrite, data, readopen, writeopen]
  line,    \* the line typed at the shell
  parsed,  \* what parsecmd() makes of it: [ok, cmd]
  input,   \* what is left to be read from the console
  kills,
  cut      \* history: the command has a background part, or a fork failed

pipevars == <<todo, state, chan, parent, ofile, ends, buf, killed, file, pipe, line, parsed, input, kills, cut>>
procvars == <<state, parent, ends>>

---------------------------------------------------------------------------
(* Programs.                                                               *)

Op(c) == [c |-> c]
Close(d) == [c |-> "close", d |-> d]
EndOf(c, k, e) == [c |-> c, k |-> k, e |-> e]   \* close or dup p[e] of the kth pipe
MakePipe(k) == [c |-> "pipe", k |-> k]          \* the kth pipe of a function
Fork(child) == [c |-> "fork", child |-> child]
Run(cmd) == [c |-> "run", cmd |-> cmd]
Exit == Op("exit")

CloseEnds(k) == <<EndOf("closeend", k, 0), EndOf("closeend", k, 1)>>

(* Mutant: the reader of a pipe keeps its write end. *)
KeepsWriteEnd(k, e) == <<Close(e), EndOf("dupend", k, e), EndOf("closeend", k, 0)>>

(* The child of a pipe: p[e] becomes its descriptor e, p is closed. *)
Plug(k, e) == <<Close(e), EndOf("dupend", k, e)>> \o CloseEnds(k)

(* Mutant: only one side of a pipe is waited for. *)
WaitOnce == <<Op("wait")>>

WaitBoth == <<Op("wait"), Op("wait")>>

(* runcmd(): the calls that cmd comes to. *)
runcmd(cmd) ==
  CASE cmd.type = "EXEC"  -> IF cmd.argc = 0 THEN <<Exit>> ELSE <<Op("exec")>>
    [] cmd.type = "REDIR" -> <<Close(cmd.fd), Op("open"), Run(cmd.cmd)>>
    [] cmd.type = "LIST"  -> <<Fork(<<Run(cmd.left)>>), Op("wait"), Run(cmd.right)>>
    [] cmd.type = "PIPE"  -> <<MakePipe(1), Fork(Plug(1, 1) \o <<Run(cmd.left)>>),
                               Fork(Plug(1, 0) \o <<Run(cmd.right)>>)>>
                             \o CloseEnds(1) \o WaitBoth \o <<Exit>>
    [] cmd.type = "BACK"  -> <<Fork(<<Run(cmd.cmd)>>), Exit>>

(* A program with the command it starts with turned into calls. *)
Expand(t) == IF t # <<>> /\ Head(t).c = "run" THEN runcmd(Head(t).cmd) ELSE t

(* close_p of triage: every end of every pipe. *)
close_p == [n \in 1 .. 2 * (STAGES - 1) |-> EndOf("closeend", (n + 1) \div 2, (n + 1) % 2)]

(* spawn_stage() of the kth stage. *)
spawn_stage(k) ==
  Fork((IF k > 1 THEN <<Close(0), EndOf("dupend", k - 1, 0)>> ELSE <<>>)
       \o (IF k < STAGES THEN <<Close(1), EndOf("dupend", k, 1)>> ELSE <<>>)
       \o close_p \o <<Op("exec")>>)

(* main() of triage without a file argument. *)
triage ==
  [k \in 1 .. STAGES - 1 |-> MakePipe(k)] \o [k \in 1 .. STAGES |-> spawn_stage(k)]
  \o close_p \o [k \in 1 .. STAGES |-> Op("wait")] \o <<Exit>>

(* main() of the shell: a child parses the line and runs it. *)
shell(child) == <<Fork(child), Op("wait"), Op("prompt")>>

---------------------------------------------------------------------------
Nothing == [ok |-> FALSE, cmd |-> <<>>]
NoFile == [ref |-> 0, kind |-> "none", pi |-> None, writable |-> FALSE]
NoPipe == [used |-> FALSE, nread |-> 0, nwrite |-> 0, data |-> [n \in 0 .. PIPESIZE - 1 |-> 0],
           readopen |-> FALSE, writeopen |-> FALSE]

PipeInit ==
  /\ \/ /\ line \in Lines /\ input \in Inputs
        /\ todo = [p \in Proc |-> IF p = Sh THEN shell(<<Op("parse")>>) ELSE <<>>]
     \/ /\ line = <<>> /\ input \in TriageInputs
        /\ todo = [p \in Proc |-> IF p = Sh THEN shell(triage) ELSE <<>>]
  /\ parsed = IF line = <<>> THEN Nothing ELSE Parse(line)
  /\ state = [p \in Proc |-> IF p = Sh THEN "run" ELSE "unused"]
  /\ chan = [p \in Proc |-> Awake]
  /\ parent = [p \in Proc |-> NoOne]
  /\ ofile = [p \in Proc |-> [d \in Fd |-> IF p = Sh /\ d < 3 THEN Console ELSE None]]
  /\ ends = [p \in Proc |-> NoEnds]
  /\ buf = [p \in Proc |-> <<>>]
  /\ killed = [p \in Proc |-> FALSE]
  /\ file = [f \in File |-> IF f = Console
                            THEN [ref |-> 3, kind |-> "console", pi |-> None, writable |-> TRUE]
                            ELSE NoFile]
  /\ pipe = [i \in PipeId |-> NoPipe]
  /\ kills = 0
  /\ cut = FALSE

(* p is about to make the call c. *)
AtCall(p, c) == /\ state[p] = "run" /\ chan[p] = Awake /\ todo[p] # <<>> /\ Head(todo[p]).c = c
            /\ (c # "exit" => ~killed[p])

Done(p) == todo' = [todo EXCEPT ![p] = Expand(Tail(@))]
GoesOn(p, t) == todo' = [todo EXCEPT ![p] = Expand(t)]

(* The lock of pipe i is held across steps only by one who is about to sleep. *)
Locked(i) == \E p \in Proc : state[p] = "run" /\ chan[p] \in {<<"nread", i>>, <<"nwrite", i>>}

(* wakeup(c) *)
Sleepers(c) == {p \in Proc : state[p] = "sleep" /\ chan[p] = c}
wakeup(S) ==
  /\ state' = [p \in Proc |-> IF p \in S THEN "run" ELSE state[p]]
  /\ chan' = [p \in Proc |-> IF p \in S THEN Awake ELSE chan[p]]

---------------------------------------------------------------------------
(* Descriptors.                                                            *)

FreeFds(p) == {d \in Fd : ofile[p][d] = None}
FreeFiles == {f \in File : file[f].ref = 0}
Lowest(S) == CHOOSE n \in S : \A m \in S : n <= m

(* Mutant: who sleeps at the other end is not told. *)
CloseSilently(pi, writable) ==
  LET P == IF writable THEN [pipe[pi] EXCEPT !.writeopen = FALSE] ELSE [pipe[pi] EXCEPT !.readopen = FALSE]
  IN /\ pipe' = [pipe EXCEPT ![pi] = IF P.readopen \/ P.writeopen THEN P ELSE NoPipe]
     /\ UNCHANGED <<state, chan>>

(* Mutant: the page goes with the first end. *)
FreedEarly(pi, writable) ==
  /\ pipe' = [pipe EXCEPT ![pi] = NoPipe]
  /\ wakeup(Sleepers(IF writable THEN <<"nread", pi>> ELSE <<"nwrite", pi>>))

(* pipeclose(): the page goes with the second end. *)
pipeclose(pi, writable) ==
  LET P == IF writable THEN [pipe[pi] EXCEPT !.writeopen = FALSE] ELSE [pipe[pi] EXCEPT !.readopen = FALSE]
  IN /\ pipe' = [pipe EXCEPT ![pi] = IF P.readopen \/ P.writeopen THEN P ELSE NoPipe]
     /\ wakeup(Sleepers(IF writable THEN <<"nread", pi>> ELSE <<"nwrite", pi>>))

(* sys_close() and fileclose() of descriptor d of p.  The entry is free a
   moment before pipeclose() closes the end; here the two are one step.    *)
fileclose(p, d) ==
  LET f == ofile[p][d] IN
  /\ ofile' = [ofile EXCEPT ![p][d] = None]
  /\ IF f # None /\ file[f].ref = 1
     THEN /\ file' = [file EXCEPT ![f] = NoFile]
          /\ IF file[f].kind = "pipe"
             THEN ~Locked(file[f].pi) /\ pipeclose(file[f].pi, file[f].writable)
             ELSE UNCHANGED <<pipe, state, chan>>
     ELSE /\ file' = IF f = None THEN file ELSE [file EXCEPT ![f].ref = @ - 1]
          /\ UNCHANGED <<pipe, state, chan>>

SysClose(p) ==
  /\ \/ AtCall(p, "close") /\ fileclose(p, Head(todo[p]).d)
     \/ AtCall(p, "closeend") /\ fileclose(p, ends[p][Head(todo[p]).k][Head(todo[p]).e + 1])
  /\ Done(p)
  /\ UNCHANGED <<parent, ends, buf, killed, line, parsed, input, kills, cut>>

(* dup() of a pipe's end: the descriptor just closed is the lowest free one.
   (It would fail without one, or for a descriptor that is not open.)      *)
SysDup(p) ==
  /\ AtCall(p, "dupend")
  /\ LET f == ofile[p][ends[p][Head(todo[p]).k][Head(todo[p]).e + 1]] IN
     IF f = None \/ FreeFds(p) = {} THEN UNCHANGED <<ofile, file>>
     ELSE /\ ofile' = [ofile EXCEPT ![p][Lowest(FreeFds(p))] = f]
          /\ file' = [file EXCEPT ![f].ref = @ + 1]
  /\ Done(p)
  /\ UNCHANGED <<procvars, chan, buf, killed, pipe, line, parsed, input, kills, cut>>

(* open() of a redirection: a file, or the program gives up. *)
SysOpen(p) ==
  /\ AtCall(p, "open")
  /\ \/ /\ FreeFiles # {} /\ FreeFds(p) # {}
        /\ file' = [file EXCEPT ![Lowest(FreeFiles)] =
                      [ref |-> 1, kind |-> "file", pi |-> None, writable |-> Lowest(FreeFds(p)) = 1]]
        /\ ofile' = [ofile EXCEPT ![p][Lowest(FreeFds(p))] = Lowest(FreeFiles)]
        /\ Done(p)
     \/ GoesOn(p, <<Exit>>) /\ UNCHANGED <<file, ofile>>
  /\ UNCHANGED <<procvars, chan, buf, killed, pipe, line, parsed, input, kills, cut>>

(* sys_pipe() and pipealloc(): all or nothing; without a pipe the program ends. *)
SysPipe(p) ==
  LET pages == {i \in PipeId : ~pipe[i].used}
      r == Lowest(FreeFiles)
      w == Lowest(FreeFiles \ {r})
      d0 == Lowest(FreeFds(p))
      d1 == Lowest(FreeFds(p) \ {d0})
      pi == Lowest(pages)
  IN
  /\ AtCall(p, "pipe")
  /\ IF Cardinality(FreeFiles) < 2 \/ Cardinality(FreeFds(p)) < 2 \/ pages = {}
     THEN GoesOn(p, <<Exit>>) /\ UNCHANGED <<file, ofile, ends, pipe>>
     ELSE /\ pipe' = [pipe EXCEPT ![pi] = [NoPipe EXCEPT !.used = TRUE, !.readopen = TRUE, !.writeopen = TRUE]]
          /\ file' = [file EXCEPT ![r] = [ref |-> 1, kind |-> "pipe", pi |-> pi, writable |-> FALSE],
                                  ![w] = [ref |-> 1, kind |-> "pipe", pi |-> pi, writable |-> TRUE]]
          /\ ofile' = [ofile EXCEPT ![p][d0] = r, ![p][d1] = w]
          /\ ends' = [ends EXCEPT ![p][Head(todo[p]).k] = <<d0, d1>>]
          /\ Done(p)
  /\ UNCHANGED <<state, parent, chan, buf, killed, line, parsed, input, kills, cut>>

---------------------------------------------------------------------------
(* Processes.                                                              *)

(* fork(): fork1() and spawn_stage() give up when it fails. *)
SysFork(p) ==
  /\ AtCall(p, "fork")
  /\ LET free == {q \in Proc : state[q] = "unused"} IN
     IF free = {}
     THEN /\ GoesOn(p, <<Exit>>)
          /\ cut' = TRUE
          /\ UNCHANGED <<state, parent, ofile, ends, file>>
     ELSE \E q \in free :
          /\ q = CHOOSE x \in free : TRUE
          /\ todo' = [todo EXCEPT ![p] = Expand(Tail(@)), ![q] = Expand(Head(todo[p]).child)]
          /\ state' = [state EXCEPT ![q] = "run"]
          /\ parent' = [parent EXCEPT ![q] = p]
          /\ ofile' = [ofile EXCEPT ![q] = ofile[p]]
          /\ ends' = [ends EXCEPT ![q] = ends[p]]
          /\ file' = [f \in File |-> [file[f] EXCEPT !.ref = @ + Cardinality({d \in Fd : ofile[p][d] = f})]]
          /\ UNCHANGED cut
  /\ UNCHANGED <<chan, buf, killed, pipe, line, parsed, input, kills>>

(* kexit(): the descriptors are closed one by one ... *)
ExitClose(p) ==
  /\ AtCall(p, "exit")
  /\ FreeFds(p) # Fd
  /\ fileclose(p, Lowest(Fd \ FreeFds(p)))
  /\ UNCHANGED <<todo, parent, ends, buf, killed, line, parsed, input, kills, cut>>

(* ... then the children are given to init, who waits for them at once.    *)
Gone(p) == [state EXCEPT ![p] = IF parent[p] = NoOne THEN "unused" ELSE "zombie"]
ExitZombie(p) ==
  /\ AtCall(p, "exit") /\ p # Sh
  /\ FreeFds(p) = Fd
  /\ state' = [q \in Proc |-> IF parent[q] = p /\ state[q] = "zombie" THEN "unused" ELSE Gone(p)[q]]
  /\ parent' = [q \in Proc |-> IF parent[q] = p THEN NoOne ELSE parent[q]]
  /\ todo' = [todo EXCEPT ![p] = <<>>]
  /\ ends' = [ends EXCEPT ![p] = NoEnds]
  /\ buf' = [buf EXCEPT ![p] = <<>>]
  /\ killed' = [killed EXCEPT ![p] = FALSE]
  /\ UNCHANGED <<chan, ofile, file, pipe, line, parsed, input, kills, cut>>

(* kwait(): a zombie child, or an error when there is no child. *)
SysWait(p) ==
  /\ AtCall(p, "wait")
  /\ LET children == {q \in Proc : parent[q] = p}
         zombies == {q \in children : state[q] = "zombie"}
     IN \/ /\ children = {}
           /\ UNCHANGED <<state, parent>>
        \/ \E q \in zombies :
             /\ state' = [state EXCEPT ![q] = "unused"]
             /\ parent' = [parent EXCEPT ![q] = NoOne]
  /\ Done(p)
  /\ UNCHANGED <<chan, ofile, ends, buf, killed, file, pipe, line, parsed, input, kills, cut>>

(* The child of the shell parses the line; a syntax error ends it. *)
ParseLine(p) ==
  /\ AtCall(p, "parse")
  /\ line' = <<>> /\ parsed' = Nothing
  /\ IF line \in Runs /\ parsed.ok
     THEN GoesOn(p, <<Run(parsed.cmd)>>) /\ cut' = (cut \/ Contains(line, "&"))
     ELSE GoesOn(p, <<Exit>>) /\ UNCHANGED cut
  /\ UNCHANGED <<procvars, chan, ofile, buf, killed, file, pipe, input, kills>>

(* exec() of an agent, or it fails and the program ends. *)
SysExec(p) ==
  /\ AtCall(p, "exec")
  /\ \/ GoesOn(p, <<Op("readline")>>) \/ GoesOn(p, <<Exit>>)
  /\ UNCHANGED <<procvars, chan, ofile, buf, killed, file, pipe, line, parsed, input, kills, cut>>

(* usertrap() ends a process that has been killed. *)
Die(p) ==
  /\ killed[p] /\ state[p] = "run" /\ chan[p] = Awake
  /\ Head(todo[p]).c # "exit"
  /\ GoesOn(p, <<Exit>>)
  /\ UNCHANGED <<procvars, chan, ofile, buf, killed, file, pipe, line, parsed, input, kills, cut>>

(* kkill() by somebody else *)
Kill(p) ==
  /\ p \in Victims /\ state[p] \in {"run", "sleep"} /\ ~killed[p]
  /\ kills < MAXKILLS /\ kills' = kills + 1
  /\ killed' = [killed EXCEPT ![p] = TRUE]
  /\ state' = [state EXCEPT ![p] = "run"]
  /\ chan' = [chan EXCEPT ![p] = IF state[p] = "sleep" THEN Awake ELSE @]
  /\ UNCHANGED <<todo, parent, ofile, ends, buf, file, pipe, line, parsed, input, cut>>

(* sleep(): p gives up the pipe's lock and is asleep at once. *)
Sleep(p) ==
  /\ state[p] = "run" /\ chan[p] # Awake
  /\ state' = [state EXCEPT ![p] = "sleep"]
  /\ UNCHANGED <<todo, chan, parent, ofile, ends, buf, killed, file, pipe, line, parsed, input, kills, cut>>

---------------------------------------------------------------------------
(* An agent: proxy_readline() from 0, proxy_call(), emit() to 1.           *)

(* The line in buf is done with: an empty one ends the loop. *)
LineRead(p) == IF buf[p] = <<>> THEN GoesOn(p, <<Exit>>) ELSE GoesOn(p, <<Op("emit")>>)

(* proxy_readline() has got the byte b. *)
Got(p, b) ==
  IF b = 0 THEN LineRead(p) /\ UNCHANGED buf
  ELSE buf' = [buf EXCEPT ![p] = Append(@, b)] /\ UNCHANGED todo

(* What descriptors 0 and 1 stand for, if they can be read and written: one
   end of a pipe can only be read, the other only written.                 *)
In(p) == IF ofile[p][0] = None THEN NoFile
         ELSE LET f == file[ofile[p][0]] IN IF f.kind = "pipe" /\ f.writable THEN NoFile ELSE f
Out(p) == IF ofile[p][1] # None /\ file[ofile[p][1]].writable THEN file[ofile[p][1]] ELSE NoFile

(* read() of the console, of a file (which is empty), or of nothing. *)
ReadOther(p) ==
  /\ AtCall(p, "readline") /\ In(p).kind # "pipe"
  /\ IF In(p).kind = "console" /\ input # <<>>
     THEN Got(p, Head(input)) /\ input' = Tail(input)
     ELSE LineRead(p) /\ UNCHANGED <<input, buf>>
  /\ UNCHANGED <<procvars, chan, ofile, killed, file, pipe, line, parsed, kills, cut>>

Add(n, k) == (n + k) % UINT
Fill(P) == (P.nwrite + UINT - P.nread) % UINT

(* piperead() of one byte. *)
PipeRead(p) ==
  LET i == In(p).pi
      P == pipe[i]
  IN
  /\ state[p] = "run" /\ chan[p] = Awake /\ todo[p] # <<>> /\ Head(todo[p]).c = "readline"
  /\ In(p).kind = "pipe" /\ ~Locked(i)
  /\ IF P.nread = P.nwrite /\ P.writeopen
     THEN /\ ~killed[p]
          /\ chan' = [chan EXCEPT ![p] = <<"nread", i>>]
          /\ UNCHANGED <<state, todo, buf, pipe>>
     ELSE /\ IF P.nread = P.nwrite
             THEN LineRead(p) /\ UNCHANGED <<buf, pipe>>
             ELSE /\ Got(p, P.data[P.nread % PIPESIZE])
                  /\ pipe' = [pipe EXCEPT ![i].nread = Add(@, 1)]
          /\ wakeup(Sleepers(<<"nwrite", i>>))
  /\ UNCHANGED <<parent, ofile, ends, killed, file, line, parsed, input, kills, cut>>

(* Mutant: one slot too many. *)
OneOver(P) == PIPESIZE + 1 - Fill(P)

Room(P) == PIPESIZE - Fill(P)

(* P with the bytes of s put in. *)
Put(P, s) ==
  LET slot(n) == Add(P.nwrite, n - 1) % PIPESIZE
      last(x) == CHOOSE n \in 1 .. Len(s) : slot(n) = x /\ \A m \in n + 1 .. Len(s) : slot(m) # x
  IN [P EXCEPT !.nwrite = Add(@, Len(s)),
               !.data = [x \in DOMAIN @ |-> IF \E n \in 1 .. Len(s) : slot(n) = x THEN s[last(x)] ELSE @[x]]]

Least(m, n) == IF m < n THEN m ELSE n

(* After a write(), whose result emit() does not look at. *)
NextLine(p) == buf' = [buf EXCEPT ![p] = <<>>] /\ GoesOn(p, <<Op("readline")>>)

(* pipewrite() of the line and its newline, as far as there is room.  A
   writer that is killed on the way stops before the end.                  *)
PipeWrite(p) ==
  LET i == Out(p).pi
      P == pipe[i]
      left == buf[p]
      n == Least(Len(left), Room(P))
  IN
  /\ state[p] = "run" /\ chan[p] = Awake /\ todo[p] # <<>> /\ Head(todo[p]).c = "write"
  /\ Out(p).kind = "pipe" /\ ~Locked(i)
  /\ IF ~P.readopen
     THEN NextLine(p) /\ UNCHANGED <<state, chan, pipe>>
     ELSE IF killed[p]
     THEN /\ \E k \in 0 .. Least(n, Len(left) - 1) : pipe' = [pipe EXCEPT ![i] = Put(P, SubSeq(left, 1, k))]
          /\ NextLine(p) /\ UNCHANGED <<state, chan>>
     ELSE /\ pipe' = [pipe EXCEPT ![i] = Put(P, SubSeq(left, 1, n))]
          /\ state' = [q \in Proc |-> IF q \in Sleepers(<<"nread", i>>) THEN "run" ELSE state[q]]
          /\ chan' = [q \in Proc |-> IF q \in Sleepers(<<"nread", i>>) THEN Awake
                                     ELSE IF q = p /\ n < Len(left) THEN <<"nwrite", i>> ELSE chan[q]]
          /\ IF n < Len(left)
             THEN buf' = [buf EXCEPT ![p] = SubSeq(left, n + 1, Len(left))] /\ UNCHANGED todo
             ELSE NextLine(p)
  /\ UNCHANGED <<parent, ofile, ends, killed, file, line, parsed, input, kills, cut>>

(* proxy_call() for the line, which may fail; then emit(): one write(). *)
Emit(p) ==
  /\ AtCall(p, "emit")
  /\ \/ GoesOn(p, <<Exit>>) /\ UNCHANGED buf
     \/ /\ Out(p).kind = "pipe"
        /\ GoesOn(p, <<Op("write")>>)
        /\ buf' = [buf EXCEPT ![p] = Append(@, 0)]
     \/ Out(p).kind # "pipe" /\ NextLine(p)
  /\ UNCHANGED <<procvars, chan, ofile, killed, file, pipe, line, parsed, input, kills, cut>>

---------------------------------------------------------------------------
PipeNext ==
  \E p \in Proc :
    \/ SysClose(p) \/ SysDup(p) \/ SysOpen(p) \/ SysPipe(p) \/ SysFork(p) \/ SysWait(p) \/ SysExec(p)
    \/ ExitClose(p) \/ ExitZombie(p) \/ ParseLine(p) \/ Die(p) \/ Kill(p)
    \/ ReadOther(p) \/ Emit(p) \/ PipeRead(p) \/ PipeWrite(p) \/ Sleep(p)

(* The machine does not stop while some process can go on: scheduler() runs
   one.  No more is needed, for no program here goes on for ever.          *)
Fairness == WF_pipevars(\E p \in Proc :
  \/ SysClose(p) \/ SysDup(p) \/ SysOpen(p) \/ SysPipe(p) \/ SysFork(p) \/ SysWait(p) \/ SysExec(p)
  \/ ExitClose(p) \/ ExitZombie(p) \/ ParseLine(p) \/ Die(p)
  \/ ReadOther(p) \/ Emit(p) \/ PipeRead(p) \/ PipeWrite(p) \/ Sleep(p))

PipeSpec == PipeInit /\ [][PipeNext]_pipevars /\ Fairness

---------------------------------------------------------------------------
(* Properties.                                                             *)

(* The bytes in a pipe, the oldest first. *)
Bytes(P) == [n \in 1 .. Fill(P) |-> P.data[Add(P.nread, n - 1) % PIPESIZE]]
Content(i) == Bytes(pipe[i])

(* Every pipe is a byte stream: the counters run over UINT without the order
   of the bytes being lost (pipewrite(), piperead()).                      *)
Stream(i) == INSTANCE ByteStream WITH
  Byte <- 0 .. 9, Size <- PIPESIZE, q <- Content(i),
  reader <- pipe[i].readopen, writer <- pipe[i].writeopen
ImplementsStream ==
  /\ \A i \in PipeId : Stream(i)!Init
  /\ [][\A i \in PipeId : Stream(i)!Next \/ UNCHANGED Stream(i)!vars]_pipevars

(* pipeclose(): a pipe's page is in use exactly as long as an open file leads
   to it, and each end is open exactly as long as a file for it is.        *)
PipeHeld ==
  \A i \in PipeId :
    /\ pipe[i].used <=> \E f \in File : file[f].ref > 0 /\ file[f].pi = i
    /\ pipe[i].readopen <=> \E f \in File : file[f].ref > 0 /\ file[f].pi = i /\ ~file[f].writable
    /\ pipe[i].writeopen <=> \E f \in File : file[f].ref > 0 /\ file[f].pi = i /\ file[f].writable

AtPrompt == Head(todo[Sh]).c = "prompt"
ShellGone == Head(todo[Sh]).c = "exit"

(* When the shell prompts again, a command without a background part has come
   to its end: wait() was called for each of its processes.                *)
ForegroundDone ==
  AtPrompt /\ ~cut /\ kills = 0 => \A p \in Child : state[p] = "unused"

(* The shell prompts again: every stage of a pipeline sees the end of its
   input, for nobody keeps a write end open that he does not use, and nobody
   sleeps at a pipe that has data, room or a closed end, also when one of
   the stages is killed.                                                   *)
PromptsAgain == <>(AtPrompt \/ ShellGone)
=============================================================================
