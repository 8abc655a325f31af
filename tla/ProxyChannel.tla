---------------------------- MODULE ProxyChannel ----------------------------
(***************************************************************************)
(* The console (kernel/console.c, uart.c) and the request and answer       *)
(* frames that agents and the host exchange over it (user/proxy_client.h,  *)
(* sys_proxylock() of kernel/sysproc.c, host/proxy_daemon.py).             *)
(*                                                                         *)
(* The shell reads the same console.  Output is what write() sends through *)
(* uartwrite(), under cons_write_lock, and what consoleintr() echoes       *)
(* without any lock that a writer holds.  A symbol stands for a run of     *)
(* bytes: "REQ" and "RES" for a tag and its tab, a process for its pid     *)
(* and a tab, Ask for a role, a tab and a prompt.                          *)
(***************************************************************************)
EXTENDS Naturals, SequencesExt

CONSTANTS
  Sh,              \* the shell's process
  Agent,           \* the processes that call the host
  Loud,            \* those whose standard output is the console
  INPUT_BUF_SIZE,
  LINE,            \* symbols that fit in line[] of proxy_recv()
  OUT,             \* symbols that fit in the caller's buffer
  Results,         \* what a handler can return: sequences of payload symbols
  Keys,            \* what is typed at the console: sequences of symbols
  CALLS,           \* bound: calls an agent makes, all with the same prompt
  MAXKILLS         \* bound: calls of kill()

ASSUME ChannelAssumption ==
  /\ Sh \notin Agent /\ Loud \subseteq Agent
  /\ {INPUT_BUF_SIZE, LINE, OUT} \subseteq Nat \ {0}
  /\ {CALLS, MAXKILLS} \subseteq Nat

Proc == {Sh} \cup Agent
NoOne == "nobody"
Newline == "nl"
Eof == "^D"
Ask == "ask"
HandlerError == <<"__HANDLER_ERROR__">>
Missing == <<"missing">>

VARIABLES
  pc,       \* the call a process is in, or about to make
  wq,       \* the write() calls it still has to make, each a sequence
  then,     \* the call that follows them
  line,     \* what it has read of a line
  left,     \* calls an agent still makes
  killed,
  kills,
  proxy_lock, cons_write_lock,   \* the holder
  tx_busy,
  cons,     \* the input ring from r to e: [buf, w], w symbols of it are committed
  rx,       \* symbols on their way from the host
  hline,    \* the line the host is collecting
  typed,    \* history: what was typed
  cache,    \* the response cache: what is stored for an agent's prompt
  answer,   \* what proxy_call() last returned
  result,   \* history: what the host last answered
  ready,    \* history: the shell's prompt is out
  early,    \* history: a line was echoed before that
  dropped,  \* history: an input symbol found the ring full
  lost      \* history: a request arrived that was not a line of its own

consvars == <<cons, rx>>
hostvars == <<hline, result, lost>>
history == <<typed, early, dropped>>
procvars == <<wq, then, line, left, cache, answer>>
vars == <<pc, procvars, killed, kills, proxy_lock, cons_write_lock, tx_busy, consvars, hostvars,
          ready, history>>

Request(p) == <<"REQ", p, Ask, Newline>>
Note == <<"note", Newline>>

(* _drive_triage() sends its command down the serial line and does not wait
   for the prompt; more keys are what a user can add.                      *)
Init ==
  /\ pc = [p \in Proc |-> IF p = Sh THEN "prompt" ELSE "unborn"]
  /\ wq = [p \in Proc |-> <<>>]
  /\ then = [p \in Proc |-> "none"]
  /\ line = [p \in Proc |-> <<>>]
  /\ left = [p \in Agent |-> CALLS]
  /\ killed = {} /\ kills = 0
  /\ proxy_lock = NoOne /\ cons_write_lock = NoOne
  /\ tx_busy = FALSE
  /\ cons = [buf |-> <<>>, w |-> 0]
  /\ typed \in Keys
  /\ rx = typed
  /\ hline = <<>>
  /\ cache = [p \in Agent |-> Missing]
  /\ answer = [p \in Agent |-> Missing]
  /\ result = [p \in Agent |-> Missing]
  /\ ready = FALSE /\ early = FALSE /\ dropped = FALSE /\ lost = FALSE

(* A system call returns: usertrap() lets no killed process get back. *)
Return(p, next) == pc' = [pc EXCEPT ![p] = IF p \in killed THEN "dead" ELSE next]

(* The next calls are the write()s of ws, and then the call next. *)
Writes(p, ws, next) ==
  /\ wq' = [wq EXCEPT ![p] = ws]
  /\ then' = [then EXCEPT ![p] = next]

---------------------------------------------------------------------------
(* The host: proxy_daemon.py.  It acts on what it reads and does nothing   *)
(* but answer, so it reads a symbol as soon as it is sent: an answer is    *)
(* delayed on its way back.                                                *)

(* A request: its tag comes first, and there are four fields. *)
Recognised(l) == Len(l) > 0 /\ l[1] = "REQ" /\ Contains(l, Ask)

(* The second field, up to the tab that comes with a pid. *)
ReqId(l) == SubSeq(l, 2, SelectInSeq(l, LAMBDA c : c \in Agent))

(* What comes of a handler: a result, from the service or from the host's
   cache, or an exception, for which there is a word.                      *)
Handled == Results \cup {HandlerError}

(* A line that is complete is served; before are the symbols that are on
   their way already.  The host goes on for as long as it is asked.        *)
Serve(l, before) ==
  IF Recognised(l)
  THEN \E r \in Handled :
         /\ rx' = before \o <<"RES">> \o ReqId(l) \o r \o <<Newline>>
         /\ result' = [p \in Agent |-> IF ReqId(l) = <<p>> THEN r ELSE result[p]]
  ELSE rx' = before /\ UNCHANGED result

HostReads(s, before) ==
  IF s # <<Newline>>
  THEN hline' = hline \o s /\ rx' = before /\ UNCHANGED <<result, lost>>
  ELSE /\ hline' = <<>>
       /\ Serve(hline, before)
       /\ lost' = (lost \/ (Contains(hline, "REQ") /\ \A p \in Agent : Append(hline, Newline) # Request(p)))

---------------------------------------------------------------------------
(* Output.                                                                 *)

(* consolewrite(): acquiresleep(&cons_write_lock). *)
AcquireWrite(p) ==
  /\ cons_write_lock = NoOne
  /\ cons_write_lock' = p

ConsoleWrite(p) ==
  /\ pc[p] = "write" /\ wq[p] # <<>>
  /\ AcquireWrite(p)
  /\ pc' = [pc EXCEPT ![p] = "uart"]
  /\ UNCHANGED <<procvars, killed, kills, proxy_lock, tx_busy, consvars, hostvars, ready, history>>

(* uartwrite(): one symbol, once the UART has sent the one before. *)
UartWrite(p) ==
  /\ pc[p] = "uart" /\ wq[p][1] # <<>> /\ ~tx_busy
  /\ HostReads(<<wq[p][1][1]>>, rx)
  /\ wq' = [wq EXCEPT ![p][1] = Tail(@)]
  /\ tx_busy' = TRUE
  /\ ready' = (ready \/ p = Sh)
  /\ UNCHANGED <<pc, then, line, left, cache, answer, killed, kills, proxy_lock, cons_write_lock,
                 cons, history>>

ConsoleWritten(p) ==
  /\ pc[p] = "uart" /\ wq[p][1] = <<>>
  /\ cons_write_lock' = IF cons_write_lock = p THEN NoOne ELSE cons_write_lock
  /\ wq' = [wq EXCEPT ![p] = Tail(@)]
  /\ Return(p, IF Tail(wq[p]) = <<>> THEN then[p] ELSE "write")
  /\ UNCHANGED <<then, line, left, cache, answer, killed, kills, proxy_lock, tx_busy, consvars,
                 hostvars, ready, history>>

(* uartintr(), when the UART is ready for more output. *)
TxIntr ==
  /\ tx_busy
  /\ tx_busy' = FALSE
  /\ UNCHANGED <<pc, procvars, killed, kills, proxy_lock, cons_write_lock, consvars, hostvars, ready,
                 history>>

---------------------------------------------------------------------------
(* Input.                                                                  *)

(* uartputc_sync(), which waits for nobody. *)
Echo(s) == HostReads(s, Tail(rx))

Full(b) == Len(b) = INPUT_BUF_SIZE

Erased(n) == [i \in 1 .. n |-> "bs"]

(* consoleintr() without a store: ^P prints the processes, lines of which the
   host takes none for a request after the newline they start with; ^U and
   ^H erase what is not committed yet.                                     *)
Edit(c) ==
  LET n == Len(cons.buf) - cons.w
      gone == CASE c = "^U" -> n [] c = "^H" /\ n > 0 -> 1 [] OTHER -> 0
  IN  /\ c \in {"^P", "^U", "^H"}
      /\ cons' = [cons EXCEPT !.buf = SubSeq(@, 1, Len(@) - gone)]
      /\ Echo(IF c = "^P" THEN <<Newline>> ELSE Erased(gone))
      /\ UNCHANGED <<dropped, early>>

(* Mutant: a newline that fills the ring commits nothing. *)
StoreWaits(c) ==
  LET b == Append(cons.buf, c)
  IN  /\ c \notin {"^P", "^U", "^H"} /\ ~Full(cons.buf)
      /\ Echo(<<c>>)
      /\ cons' = [buf |-> b, w |-> IF c = Newline /\ ~Full(b) THEN Len(b) ELSE cons.w]
      /\ early' = (early \/ (c = Newline /\ ~ready))
      /\ UNCHANGED dropped

(* Mutant: a full ring is written over. *)
StoreOver(c) ==
  LET b == Append(IF Full(cons.buf) THEN Tail(cons.buf) ELSE cons.buf, c)
  IN  /\ c \notin {"^P", "^U", "^H"}
      /\ Echo(<<c>>)
      /\ cons' = [buf |-> b, w |-> IF c \in {Newline, Eof} \/ Full(b) THEN Len(b) ELSE cons.w]
      /\ early' = (early \/ (c = Newline /\ ~ready))
      /\ UNCHANGED dropped

(* consoleintr(): echo, store, and commit the line when it ends or when the
   ring is full.                                                           *)
Store(c) ==
  LET b == Append(cons.buf, c)
  IN  /\ c \notin {"^P", "^U", "^H"} /\ ~Full(cons.buf)
      /\ Echo(<<c>>)
      /\ cons' = [buf |-> b, w |-> IF c \in {Newline, Eof} \/ Full(b) THEN Len(b) ELSE cons.w]
      /\ early' = (early \/ (c = Newline /\ ~ready))
      /\ UNCHANGED dropped

(* Input for a full ring is lost, a newline as well. *)
Drop(c) ==
  /\ c \notin {"^P", "^U", "^H"} /\ Full(cons.buf)
  /\ dropped' = TRUE
  /\ rx' = Tail(rx)
  /\ UNCHANGED <<cons, early, hostvars>>

RxIntr ==
  /\ rx # <<>>
  /\ Edit(rx[1]) \/ Store(rx[1]) \/ Drop(rx[1])
  /\ tx_busy' \in {tx_busy, FALSE}
  /\ UNCHANGED <<pc, procvars, killed, kills, proxy_lock, cons_write_lock, ready, typed>>

(* consoleread() of one byte. *)
Input(c) ==
  /\ cons.w > 0
  /\ c = cons.buf[1]
  /\ cons' = [buf |-> Tail(cons.buf), w |-> cons.w - 1]

---------------------------------------------------------------------------
(* proxy_call().                                                           *)

Emits(p) == IF p \in Loud THEN <<Note>> ELSE <<>>

(* cacheget(): a hit leaves a note on the console and asks nobody. *)
CacheGet(p) ==
  /\ pc[p] = "call" /\ left[p] > 0
  /\ left' = [left EXCEPT ![p] = @ - 1]
  /\ IF cache[p] # Missing
     THEN /\ answer' = [answer EXCEPT ![p] = cache[p]]
          /\ Writes(p, <<Note>> \o Emits(p), "call")
          /\ Return(p, "write")
     ELSE /\ Return(p, "lock")
          /\ UNCHANGED <<answer, wq, then>>
  /\ UNCHANGED <<line, cache, killed, kills, proxy_lock, cons_write_lock, tx_busy, consvars, hostvars,
                 ready, history>>

(* Mutant: requests are not serialised. *)
NotExclusive(p) == proxy_lock' = p

ProxyLock(p) ==
  /\ proxy_lock = NoOne
  /\ proxy_lock' = p

Lock(p) ==
  /\ pc[p] = "lock"
  /\ ProxyLock(p)
  /\ Writes(p, <<Request(p)>>, "recv")
  /\ line' = [line EXCEPT ![p] = <<>>]
  /\ Return(p, "write")
  /\ UNCHANGED <<left, cache, answer, killed, kills, cons_write_lock, tx_busy, consvars, hostvars,
                 ready, history>>

(* The id that is the key of an answer is the caller's pid. *)
Matches(p, l) == Len(l) > 1 /\ l[1] = "RES" /\ l[2] = p

Upto(s, n) == SubSeq(s, 1, IF Len(s) < n THEN Len(s) ELSE n)

(* proxy_recv(): a byte, and at the end of a line what is made of it; the
   end of the input is an error.                                           *)
Recv(p) ==
  /\ pc[p] = "recv"
  /\ \E c \in {cons.buf[i] : i \in 1 .. Len(cons.buf)} :
       /\ Input(c)
       /\ \/ /\ c = Eof \/ (c = Newline /\ Matches(p, line[p]))
             /\ answer' = [answer EXCEPT ![p] = IF c = Eof THEN Missing
                                               ELSE Upto(SubSeq(line[p], 3, Len(line[p])), OUT)]
             /\ Return(p, "unlock")
             /\ UNCHANGED line
          \/ /\ c # Eof /\ ~(c = Newline /\ Matches(p, line[p]))
             /\ line' = [line EXCEPT ![p] = IF c = Newline THEN <<>> ELSE Upto(Append(@, c), LINE)]
             /\ Return(p, "recv")
             /\ UNCHANGED answer
  /\ UNCHANGED <<wq, then, left, cache, killed, kills, proxy_lock, cons_write_lock, tx_busy, rx,
                 hostvars, ready, history>>

(* proxyunlock(), and cacheset() of an answer; an agent without one stops. *)
Unlock(p) ==
  /\ pc[p] = "unlock"
  /\ proxy_lock' = IF proxy_lock = p THEN NoOne ELSE proxy_lock
  /\ cache' = IF p \in killed THEN cache ELSE [cache EXCEPT ![p] = answer[p]]
  /\ left' = IF answer[p] = Missing THEN [left EXCEPT ![p] = 0] ELSE left
  /\ IF answer[p] = Missing \/ Emits(p) = <<>>
     THEN Return(p, "call") /\ UNCHANGED <<wq, then>>
     ELSE Writes(p, Emits(p), "call") /\ Return(p, "write")
  /\ UNCHANGED <<line, answer, killed, kills, cons_write_lock, tx_busy, consvars, hostvars, ready,
                 history>>

(* The agent's input ends; the evaluator says TRIAGE_DONE. *)
Done(p) ==
  /\ pc[p] = "call" /\ left[p] = 0
  /\ Writes(p, Emits(p), "done")
  /\ Return(p, IF Emits(p) = <<>> THEN "done" ELSE "write")
  /\ UNCHANGED <<line, left, cache, answer, killed, kills, proxy_lock, cons_write_lock, tx_busy, consvars,
                 hostvars, ready, history>>

(* kkill(). *)
Kill(p) ==
  /\ kills < MAXKILLS /\ p \notin killed /\ pc[p] \notin {"unborn", "done", "dead"}
  /\ kills' = kills + 1
  /\ killed' = killed \cup {p}
  /\ UNCHANGED <<pc, procvars, proxy_lock, cons_write_lock, tx_busy, consvars, hostvars, ready, history>>

(* usertrap() stops a killed process on its way into a call, consoleread()
   one that waits for input.  kexit() knows nothing of proxy_lock.         *)
Die(p) ==
  /\ p \in killed
  /\ \/ pc[p] \in {"call", "lock", "write", "unlock"}
     \/ pc[p] = "recv" /\ cons.w = 0
  /\ pc' = [pc EXCEPT ![p] = "dead"]
  /\ UNCHANGED <<procvars, killed, kills, proxy_lock, cons_write_lock, tx_busy, consvars, hostvars,
                 ready, history>>

---------------------------------------------------------------------------
(* The shell, of which only the use of the console matters here.           *)

Prompt ==
  /\ pc[Sh] = "prompt"
  /\ Writes(Sh, <<<<"$">>>>, "gets")
  /\ line' = [line EXCEPT ![Sh] = <<>>]
  /\ pc' = [pc EXCEPT ![Sh] = "write"]
  /\ UNCHANGED <<left, cache, answer, killed, kills, proxy_lock, cons_write_lock, tx_busy, consvars,
                 hostvars, ready, history>>

(* gets(); a line with an end of file in it is run as it is. *)
Gets ==
  /\ pc[Sh] = "gets"
  /\ \E c \in {cons.buf[i] : i \in 1 .. Len(cons.buf)} :
       /\ Input(c)
       /\ line' = IF c \in {Newline, Eof} THEN line ELSE [line EXCEPT ![Sh] = Append(@, c)]
       /\ pc' = [pc EXCEPT ![Sh] = CASE c = Eof /\ line[Sh] = <<>> -> "done"
                                      [] c = Newline /\ line[Sh] = <<>> -> "prompt"
                                      [] c \in {Newline, Eof} /\ line[Sh] # <<>> -> "cmd"
                                      [] OTHER -> "gets"]
  /\ UNCHANGED <<wq, then, left, cache, answer, killed, kills, proxy_lock, cons_write_lock, tx_busy, rx,
                 hostvars, ready, history>>

Unborn == \A p \in Agent : pc[p] = "unborn"

(* triage starts the agents and waits for them; anything else cannot be
   executed, and fprintf() says so byte by byte.                           *)
Command ==
  /\ pc[Sh] = "cmd"
  /\ \/ /\ line[Sh][1] = "triage" /\ Unborn
        /\ pc' = [p \in Proc |-> IF p = Sh THEN "wait" ELSE "call"]
        /\ UNCHANGED <<wq, then>>
     \/ /\ line[Sh][1] # "triage"
        /\ Writes(Sh, <<<<"note">>, <<Newline>>>>, "prompt")
        /\ pc' = [pc EXCEPT ![Sh] = "write"]
  /\ UNCHANGED <<line, left, cache, answer, killed, kills, proxy_lock, cons_write_lock, tx_busy, consvars,
                 hostvars, ready, history>>

AllGone == \A p \in Agent : pc[p] \in {"done", "dead"}

Wait ==
  /\ pc[Sh] = "wait" /\ AllGone
  /\ pc' = [pc EXCEPT ![Sh] = "prompt"]
  /\ UNCHANGED <<procvars, killed, kills, proxy_lock, cons_write_lock, tx_busy, consvars, hostvars,
                 ready, history>>

---------------------------------------------------------------------------
Output(p) == ConsoleWrite(p) \/ UartWrite(p) \/ ConsoleWritten(p)

AgentStep(p) == CacheGet(p) \/ Lock(p) \/ Recv(p) \/ Unlock(p) \/ Done(p) \/ Die(p) \/ Output(p)

ShellStep == Prompt \/ Gets \/ Command \/ Wait \/ Output(Sh)

(* The UART's interrupt, for output or for input. *)
devintr == TxIntr \/ RxIntr

Next ==
  \/ devintr \/ ShellStep
  \/ \E p \in Agent : AgentStep(p) \/ Kill(p)

(* Processes are scheduled, interrupts arrive and the host reads what it is
   sent; nobody has to kill.                                               *)
Fairness ==
  /\ WF_vars(TxIntr) /\ WF_vars(RxIntr) /\ WF_vars(ShellStep)
  /\ \A p \in Agent : WF_vars(AgentStep(p))

Spec == Init /\ [][Next]_vars /\ Fairness

---------------------------------------------------------------------------
(* Properties.                                                             *)

(* Nothing but one command is typed, and its echo follows the prompt. *)
Quiet == ~early /\ SelectInSeq(typed, LAMBDA c : c = Newline) = Len(typed)

Frame(p) == <<"RES", p>> \o result[p] \o <<Newline>>

(* Every request gets to the host as a line of its own, although the echo of
   answers gets between the bytes of what other agents write
   (console.c:187): cons_write_lock alone does not see to that, it takes
   proxy_lock, under which no answer is on its way while a request is
   written.  Kills and answers that are too long do not change that.       *)
RequestsWhole == Quiet => ~lost

(* What proxy_call() returns, at once or later from the cache, is what the
   host answered to this caller, cut to the caller's buffer, and never
   another's; unless input found the ring full.                            *)
GenuineAnswer ==
  ~dropped =>
    \A p \in Agent : answer[p] # Missing => answer[p] = Upto(result[p], OUT)

(* With answers that fit in the ring nobody waits for ever: every agent gets
   its answer, and the shell prompts again.                                *)
Answered ==
  []/\ Quiet /\ kills = 0
    /\ \A p \in Agent : Len(Frame(p)) <= INPUT_BUF_SIZE
  => <>(AllGone /\ pc[Sh] = "gets" /\ \A p \in Agent : answer[p] # Missing)
=============================================================================
