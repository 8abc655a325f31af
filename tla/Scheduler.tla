----------------------------- MODULE Scheduler -----------------------------
(***************************************************************************)
(* The per-CPU priority scheduler (scheduler(), sched() and yield() in     *)
(* kernel/proc.c, sys_setprio in kernel/sysproc.c).                        *)
(* Each CPU looks at one table entry per step, under that entry's p->lock; *)
(* between two entries the other CPUs dispatch, yield, sleep and wake      *)
(* processes, so what a CPU learnt in pass 1 may be stale in pass 2.       *)
(***************************************************************************)
EXTENDS Integers, FiniteSets

CONSTANTS
  NPROC,     \* entries of the process table
  NCPU,      \* CPUs
  Prio       \* priorities in use, within sys_setprio's clamp -20 .. 19

ASSUME SchedulerAssumption ==
  /\ NPROC \in Nat \ {0}
  /\ NCPU \in Nat \ {0}
  /\ Prio \subseteq -20 .. 19 /\ 0 \in Prio

Proc == 1 .. NPROC
CPU == 1 .. NCPU
None == 0

VARIABLES
  state,     \* p->state
  priority,  \* p->priority
  pc,        \* which loop of scheduler() each CPU is in, or "run" or "wfi"
  at,        \* the entry the CPU looks at next
  any,       \* any_runnable
  max,       \* max_prio
  proc,      \* c->proc
  stable     \* history: entries RUNNABLE ever since this CPU's pass 1 began

vars == <<state, priority, pc, at, any, max, proc, stable>>

Init ==
  /\ state = [p \in Proc |-> "RUNNABLE"]
  /\ priority = [p \in Proc |-> 0]
  /\ pc = [c \in CPU |-> "pass1"]
  /\ at = [c \in CPU |-> 1]
  /\ any = [c \in CPU |-> FALSE]
  /\ max = [c \in CPU |-> 0]
  /\ proc = [c \in CPU |-> None]
  /\ stable = [c \in CPU |-> Proc]

Runnable == {p \in Proc : state[p] = "RUNNABLE"}

(* The history follows what state becomes: an entry that leaves RUNNABLE   *)
(* leaves every CPU's set; a CPU that starts pass 1 starts its set.        *)
Track(starting) ==
  stable' = [c \in CPU |->
               IF c \in starting THEN {p \in Proc : state'[p] = "RUNNABLE"}
               ELSE {p \in stable[c] : state'[p] = "RUNNABLE"}]

(* The top of for(;;): any_runnable = 0, max_prio = 0, p = proc. *)
StartPass1(c) ==
  /\ pc' = [pc EXCEPT ![c] = "pass1"]
  /\ at' = [at EXCEPT ![c] = 1]
  /\ any' = [any EXCEPT ![c] = FALSE]
  /\ max' = [max EXCEPT ![c] = 0]

Scan(c, loop) == pc[c] = loop

(* The cursor moves on, or the loop is over and control goes to next. *)
Advance(c, next) ==
  IF at[c] < NPROC
  THEN at' = [at EXCEPT ![c] = @ + 1] /\ UNCHANGED pc
  ELSE at' = [at EXCEPT ![c] = 1] /\ pc' = [pc EXCEPT ![c] = next]

---------------------------------------------------------------------------
(* Mutant: any_runnable does not matter, every priority is compared with   *)
(* the initial max_prio of 0.                                              *)
PositivePass1(c) ==
  /\ Scan(c, "pass1")
  /\ LET p == at[c]
         better == state[p] = "RUNNABLE" /\ priority[p] >= max[c]
     IN /\ max' = [max EXCEPT ![c] = IF better THEN priority[p] ELSE @]
        /\ any' = [any EXCEPT ![c] = @ \/ better]
        /\ Advance(c, IF any[c] \/ better THEN "pass2" ELSE "wfi")
  /\ UNCHANGED <<state, priority, proc, stable>>

(* Pass 1: the highest priority among the RUNNABLE entries. *)
Pass1(c) ==
  /\ Scan(c, "pass1")
  /\ LET p == at[c]
         better == state[p] = "RUNNABLE" /\ (~any[c] \/ priority[p] > max[c])
     IN /\ max' = [max EXCEPT ![c] = IF better THEN priority[p] ELSE @]
        /\ any' = [any EXCEPT ![c] = @ \/ better]
        /\ Advance(c, IF any[c] \/ better THEN "pass2" ELSE "wfi")
  /\ UNCHANGED <<state, priority, proc, stable>>

(* p->state = RUNNING; c->proc = p; swtch. *)
Dispatch(c, p) ==
  /\ state' = [state EXCEPT ![p] = "RUNNING"]
  /\ proc' = [proc EXCEPT ![c] = p]
  /\ pc' = [pc EXCEPT ![c] = "run"]
  /\ at' = [at EXCEPT ![c] = 1]
  /\ Track({})

(* Mutant: pass 2 trusts what pass 1 saw and does not look at p->state. *)
TrustingPass2(c) ==
  /\ Scan(c, "pass2")
  /\ IF priority[at[c]] = max[c] /\ state[at[c]] # "SLEEPING"
     THEN Dispatch(c, at[c])
     ELSE Advance(c, "fallback") /\ UNCHANGED <<state, proc, stable>>
  /\ UNCHANGED <<priority, any, max>>

(* Mutant: pass 2 looks for a priority above the one pass 1 found. *)
HighPass2(c) ==
  /\ Scan(c, "pass2")
  /\ IF state[at[c]] = "RUNNABLE" /\ priority[at[c]] > max[c]
     THEN Dispatch(c, at[c])
     ELSE Advance(c, "fallback") /\ UNCHANGED <<state, proc, stable>>
  /\ UNCHANGED <<priority, any, max>>

(* Pass 2: the first RUNNABLE entry of that priority. *)
Pass2(c) ==
  /\ Scan(c, "pass2")
  /\ IF state[at[c]] = "RUNNABLE" /\ priority[at[c]] = max[c]
     THEN Dispatch(c, at[c])
     ELSE Advance(c, "fallback") /\ UNCHANGED <<state, proc, stable>>
  /\ UNCHANGED <<priority, any, max>>

(* Fallback: every such entry was taken meanwhile; the first RUNNABLE one. *)
Fallback(c) ==
  /\ Scan(c, "fallback")
  /\ IF state[at[c]] = "RUNNABLE"
     THEN Dispatch(c, at[c])
     ELSE Advance(c, "wfi") /\ UNCHANGED <<state, proc, stable>>
  /\ UNCHANGED <<priority, any, max>>

(* wfi: until the next interrupt, then around the loop again. *)
Wfi(c) ==
  /\ pc[c] = "wfi"
  /\ StartPass1(c)
  /\ UNCHANGED <<state, priority, proc>>
  /\ Track({c})

---------------------------------------------------------------------------
(* The running process gives the CPU back through sched(): yield() makes   *)
(* it RUNNABLE, sleep() SLEEPING.  p->lock is held until the scheduler has *)
(* cleared c->proc, so the other CPUs see both at once.                    *)
Leave(c, s) ==
  /\ pc[c] = "run"
  /\ state' = [state EXCEPT ![proc[c]] = s]
  /\ proc' = [proc EXCEPT ![c] = None]
  /\ StartPass1(c)
  /\ UNCHANGED priority
  /\ Track({c})

Yield(c) == Leave(c, "RUNNABLE")

Sleep(c) == Leave(c, "SLEEPING")

(* sys_setprio(): the caller writes its own priority, without p->lock. *)
SetPrio(c, v) ==
  /\ pc[c] = "run"
  /\ priority' = [priority EXCEPT ![proc[c]] = v]
  /\ UNCHANGED <<state, pc, at, any, max, proc, stable>>

(* wakeup(), by a process on some CPU or by an interrupt handler: a CPU in *)
(* scheduler() takes interrupts only between intr_on() and intr_off().     *)
Wakeup(p) ==
  /\ state[p] = "SLEEPING"
  /\ \E c \in CPU : pc[c] = "run" \/ (pc[c] = "pass1" /\ at[c] = 1)
  /\ state' = [state EXCEPT ![p] = "RUNNABLE"]
  /\ stable' = [c \in CPU |-> IF pc[c] = "pass1" /\ at[c] = 1 THEN stable[c] \cup {p}
                              ELSE stable[c]]
  /\ UNCHANGED <<priority, pc, at, any, max, proc>>

(* scheduler() on CPU c *)
Sched(c) == Pass1(c) \/ Pass2(c) \/ Fallback(c) \/ Wfi(c)

Next ==
  \/ \E c \in CPU : Sched(c) \/ Yield(c) \/ Sleep(c) \/ \E v \in Prio : SetPrio(c, v)
  \/ \E p \in Proc : Wakeup(p)

Spec == Init /\ [][Next]_vars

(* The scheduler's loop never stops, and the timer interrupts every        *)
(* process that computes.  Nothing is assumed of sleepers.                 *)
FairSpec ==
  /\ Spec
  /\ \A c \in CPU : WF_vars(Sched(c)) /\ WF_vars(Yield(c))

---------------------------------------------------------------------------
TypeOK ==
  /\ state \in [Proc -> {"RUNNABLE", "RUNNING", "SLEEPING"}]
  /\ priority \in [Proc -> Prio]
  /\ pc \in [CPU -> {"pass1", "pass2", "fallback", "run", "wfi"}]
  /\ at \in [CPU -> Proc]
  /\ any \in [CPU -> BOOLEAN]
  /\ max \in [CPU -> Prio]
  /\ proc \in [CPU -> Proc \cup {None}]
  /\ stable \in [CPU -> SUBSET Proc]

(* scheduler(): a process runs on exactly one CPU while RUNNING and on     *)
(* none otherwise, although pass 1 reads and pass 2 acts with the lock     *)
(* given back in between.                                                  *)
OnOneCpu ==
  /\ \A p \in Proc : state[p] = "RUNNING" <=> \E c \in CPU : proc[c] = p
  /\ \A c, d \in CPU : proc[c] = proc[d] /\ proc[c] # None => c = d
  /\ \A c \in CPU : pc[c] = "run" <=> proc[c] # None

(* What a CPU dispatches, against the entries that were RUNNABLE during    *)
(* its whole look at the table.                                            *)
Outranked(c) ==
  \E q \in stable[c] : state[q] = "RUNNABLE" /\ priority[q] > priority[proc'[c]]

Dispatches(c) == proc[c] = None /\ proc'[c] # None

(* Pass 2 never dispatches a process that is outranked by one that waited  *)
(* during the whole scan, whatever the other CPUs did.                     *)
Pass2Strict == [][\A c \in CPU : Dispatches(c) /\ pc[c] = "pass2" => ~Outranked(c)]_vars

(* The fallback loop is reached only if no process of the priority pass 1  *)
(* found has waited during the whole scan.                                 *)
FallbackOnlyIfTaken ==
  \A c \in CPU : pc[c] = "fallback" =>
    any[c] /\ \A q \in stable[c] : priority[q] < max[c]

(* What a CPU knows of the entries in its history, at each place of its    *)
(* scan.  They are RUNNABLE, so none of them is on a CPU and none can call *)
(* sys_setprio(): what pass 1 read of their priority stays true.           *)
StableWaits == \A c \in CPU : stable[c] \subseteq Runnable

Pass1Knows ==
  \A c \in CPU : pc[c] = "pass1" =>
    \A q \in stable[c] : q < at[c] => any[c] /\ priority[q] <= max[c]

Pass2Knows ==
  \A c \in CPU : pc[c] = "pass2" =>
    /\ any[c]
    /\ \A q \in stable[c] : /\ priority[q] <= max[c]
                            /\ q < at[c] => priority[q] < max[c]

(* The inductive invariant. *)
IInv ==
  /\ TypeOK /\ OnOneCpu
  /\ StableWaits /\ Pass1Knows /\ Pass2Knows /\ FallbackOnlyIfTaken

(* p waits and comes before every other process, whatever they do: no      *)
(* other has its priority or a higher one, save at a larger index.         *)
Leads(p) ==
  /\ state[p] = "RUNNABLE"
  /\ \A q \in Proc \ {p} :
       priority[q] < priority[p] \/ (priority[q] = priority[p] /\ q > p)

(* The leader gets a CPU, at negative priorities too.                      *)
LeaderRuns == \A p \in Proc : Leads(p) ~> ~Leads(p)

(* proc.c: at the default priority the scheduler "reduces to the original  *)
(* Round Robin": every process that is ready gets a CPU in its turn.       *)
RoundRobin == \A p \in Proc : state[p] = "RUNNABLE" ~> state[p] = "RUNNING"
===========================================================================
