----------------------------- MODULE SleepLock -----------------------------
(***************************************************************************)
(* One sleep lock (kernel/sleeplock.c) used by the processes of the table, *)
(* on top of sleep() and wakeup() (kernel/proc.c).                         *)
(*                                                                         *)
(* Two kinds of spinlock are at work: the lock lk->lk inside the sleep     *)
(* lock, and the lock p->lock of every table entry.  A step of the model   *)
(* is what the code does between two points where another CPU could see    *)
(* a difference: taking a spinlock is a step of its own wherever another   *)
(* lock is already held, so the windows between the locks are all there.   *)
(* Interrupts are off while a spinlock is held or waited for, so a process *)
(* is preempted only outside the lock's code.                              *)
(***************************************************************************)
EXTENDS Naturals

CONSTANT N              \* number of entries of the process table in use

ASSUME NAssumption == N \in Nat \ {0}

Proc == 1 .. N

Nobody == 0

VARIABLES
  pc,       \* where each process is in the lock's code
  state,    \* p->state: RUNNING, RUNNABLE or SLEEPING
  chan,     \* p->chan is the sleep lock
  killed,   \* p->killed
  plock,    \* holder of p->lock, or Nobody
  lk,       \* holder of the spinlock lk->lk, or Nobody
  locked,   \* lk->locked
  pid,      \* lk->pid
  scan      \* wakeup()'s cursor: the next table entry to look at

vars == <<pc, state, chan, killed, plock, lk, locked, pid, scan>>

Running(p, at) == state[p] = "RUNNING" /\ pc[p] = at

Goto(p, to) == pc' = [pc EXCEPT ![p] = to]

Init ==
  /\ pc = [p \in Proc |-> "out"]
  /\ state = [p \in Proc |-> "RUNNABLE"]
  /\ chan = [p \in Proc |-> FALSE]
  /\ killed = [p \in Proc |-> FALSE]
  /\ plock = [p \in Proc |-> Nobody]
  /\ lk = Nobody
  /\ locked = FALSE
  /\ pid = Nobody
  /\ scan = 1

(* holdingsleep(), as the owner's check sees it under lk->lk. *)
holdingsleep(p) == locked /\ pid = p

---------------------------------------------------------------------------
(* acquiresleep() *)

CallAcquire(p) ==
  /\ Running(p, "out")
  /\ Goto(p, "acq")
  /\ UNCHANGED <<state, chan, killed, plock, lk, locked, pid, scan>>

(* acquire(&lk->lk), on entry and again at the end of sleep(). *)
AcquireSpin(p) ==
  /\ Running(p, "acq")
  /\ lk = Nobody
  /\ lk' = p
  /\ Goto(p, "test")
  /\ UNCHANGED <<state, chan, killed, plock, locked, pid, scan>>

(* Mutant: a killed process stops waiting and goes on as if it had the lock. *)
ImpatientTake(p) ==
  /\ Running(p, "test")
  /\ ~locked \/ killed[p]
  /\ locked' = TRUE
  /\ pid' = p
  /\ lk' = Nobody
  /\ Goto(p, "crit")
  /\ UNCHANGED <<state, chan, killed, plock, scan>>

(* The loop's exit: the lock is free, take it and release lk->lk. *)
Take(p) ==
  /\ Running(p, "test")
  /\ ~locked
  /\ locked' = TRUE
  /\ pid' = p
  /\ lk' = Nobody
  /\ Goto(p, "crit")
  /\ UNCHANGED <<state, chan, killed, plock, scan>>

(* Mutant: sleep() gives lk->lk back before it holds p->lock. *)
EarlyReleaseSleepLocks(p) ==
  /\ Running(p, "test")
  /\ locked
  /\ lk' = Nobody
  /\ Goto(p, "unlk")
  /\ UNCHANGED <<state, chan, killed, plock, locked, pid, scan>>

(* sleep(): acquire(&p->lock) while still holding lk->lk ... *)
SleepLocks(p) ==
  /\ Running(p, "test")
  /\ locked
  /\ plock[p] = Nobody
  /\ plock' = [plock EXCEPT ![p] = p]
  /\ Goto(p, "slp")
  /\ UNCHANGED <<state, chan, killed, lk, locked, pid, scan>>

(* ... release(lk) ... *)
SleepUnlocks(p) ==
  /\ Running(p, "slp")
  /\ lk' = Nobody
  /\ Goto(p, "unlk")
  /\ UNCHANGED <<state, chan, killed, plock, locked, pid, scan>>

(* ... then chan and state, and sched(), whose scheduler frees p->lock. *)
SleepSched(p) ==
  /\ Running(p, "unlk")
  /\ chan' = [chan EXCEPT ![p] = TRUE]
  /\ state' = [state EXCEPT ![p] = "SLEEPING"]
  /\ plock' = [plock EXCEPT ![p] = Nobody]
  /\ Goto(p, "asleep")
  /\ UNCHANGED <<killed, lk, locked, pid, scan>>

---------------------------------------------------------------------------
(* releasesleep() *)

CallRelease(p) ==
  /\ Running(p, "crit")
  /\ Goto(p, "rel")
  /\ UNCHANGED <<state, chan, killed, plock, lk, locked, pid, scan>>

(* acquire(&lk->lk); locked = 0; pid = 0; wakeup(lk) starts its scan. *)
ReleaseSpin(p) ==
  /\ Running(p, "rel")
  /\ lk = Nobody
  /\ lk' = p
  /\ locked' = FALSE
  /\ pid' = Nobody
  /\ scan' = 1
  /\ Goto(p, "wake")
  /\ UNCHANGED <<state, chan, killed, plock>>

(* wakeup(): one entry of the table, under that entry's p->lock. *)
WakeScan(p) ==
  /\ Running(p, "wake")
  /\ scan <= N
  /\ scan = p \/ plock[scan] = Nobody
  /\ state' = [state EXCEPT ![scan] =
                 IF scan # p /\ @ = "SLEEPING" /\ chan[scan] THEN "RUNNABLE" ELSE @]
  /\ scan' = scan + 1
  /\ UNCHANGED <<pc, chan, killed, plock, lk, locked, pid>>

(* Mutant: wakeup() may leave before the last entry of the table. *)
ShortWakeDone(p) ==
  /\ Running(p, "wake")
  /\ scan >= N
  /\ lk' = Nobody
  /\ Goto(p, "out")
  /\ UNCHANGED <<state, chan, killed, plock, locked, pid, scan>>

(* wakeup() is over: release(&lk->lk). *)
WakeDone(p) ==
  /\ Running(p, "wake")
  /\ scan > N
  /\ lk' = Nobody
  /\ Goto(p, "out")
  /\ UNCHANGED <<state, chan, killed, plock, locked, pid, scan>>

---------------------------------------------------------------------------
(* The scheduler's dispatch of p under p->lock.  A process that comes back *)
(* from sched() in sleep() clears its chan before it frees p->lock.        *)
Dispatch(p) ==
  /\ state[p] = "RUNNABLE"
  /\ plock[p] = Nobody
  /\ state' = [state EXCEPT ![p] = "RUNNING"]
  /\ chan' = [chan EXCEPT ![p] = FALSE]
  /\ pc' = [pc EXCEPT ![p] = IF @ = "asleep" THEN "acq" ELSE @]
  /\ UNCHANGED <<killed, plock, lk, locked, pid, scan>>

(* yield() on a timer interrupt: never with a spinlock held or waited for. *)
Preempt(p) ==
  /\ state[p] = "RUNNING"
  /\ pc[p] \in {"out", "crit"}
  /\ plock[p] = Nobody
  /\ state' = [state EXCEPT ![p] = "RUNNABLE"]
  /\ UNCHANGED <<pc, chan, killed, plock, lk, locked, pid, scan>>

(* kkill(): under p->lock; a sleeper is made runnable whatever it waits for. *)
Kill(p) ==
  /\ ~killed[p]
  /\ plock[p] = Nobody
  /\ killed' = [killed EXCEPT ![p] = TRUE]
  /\ state' = [state EXCEPT ![p] = IF @ = "SLEEPING" THEN "RUNNABLE" ELSE @]
  /\ UNCHANGED <<pc, chan, plock, lk, locked, pid, scan>>

---------------------------------------------------------------------------
(* A step of the process itself, inside the kernel. *)
Step(p) ==
  \/ AcquireSpin(p)
  \/ Take(p)
  \/ SleepLocks(p)
  \/ SleepUnlocks(p)
  \/ SleepSched(p)
  \/ CallRelease(p)
  \/ ReleaseSpin(p)
  \/ WakeScan(p)
  \/ WakeDone(p)

Next ==
  \E p \in Proc :
    \/ Step(p)
    \/ CallAcquire(p)
    \/ Dispatch(p)
    \/ Preempt(p)
    \/ Kill(p)

Spec == Init /\ [][Next]_vars

(***************************************************************************)
(* A process that has a CPU goes on: the code between two lock operations  *)
(* is finite and a lock's user gives it back.  A spinlock that is free     *)
(* again and again is not promised to any one of the CPUs spinning for it, *)
(* so these steps are only weakly fair.  Of scheduler() nothing is assumed *)
(* (Scheduler.tla is about it): by priority, and by index among equals, a  *)
(* process that was preempted may be passed over for ever.                 *)
(***************************************************************************)
FairSpec ==
  /\ Spec
  /\ \A p \in Proc : WF_vars(Step(p))

---------------------------------------------------------------------------
TypeOK ==
  /\ pc \in [Proc -> {"out", "acq", "test", "slp", "unlk", "asleep",
                      "crit", "rel", "wake"}]
  /\ state \in [Proc -> {"RUNNING", "RUNNABLE", "SLEEPING"}]
  /\ chan \in [Proc -> BOOLEAN]
  /\ killed \in [Proc -> BOOLEAN]
  /\ plock \in [Proc -> Proc \cup {Nobody}]
  /\ lk \in Proc \cup {Nobody}
  /\ locked \in BOOLEAN
  /\ pid \in Proc \cup {Nobody}
  /\ scan \in 1 .. N + 1

(* Between acquiresleep() and releasesleep() the lock is held. *)
Holds(p) == pc[p] \in {"crit", "rel"}

(* acquiresleep(): two processes are never between acquiresleep() and      *)
(* releasesleep() at once, whoever is killed or preempted in between.      *)
MutualExclusion == \A p, q \in Proc : Holds(p) /\ Holds(q) => p = q

(* holdingsleep() answers truly for every process at every moment, so the  *)
(* check in iunlock(), brelse() or sys_proxyunlock() fires only on misuse. *)
HoldingIsTrue == \A p \in Proc : Holds(p) <=> holdingsleep(p)

(* sleep()/wakeup(): a process asleep on the lock has the lock taken, or   *)
(* the releaser's scan has still to reach it.  No wakeup is lost between   *)
(* the test of lk->locked and SLEEPING.                                    *)
NoLostWakeup ==
  \A p \in Proc :
    state[p] = "SLEEPING" =>
      locked \/ \E q \in Proc : pc[q] = "wake" /\ scan <= p

(* The owner of the lock was preempted and has no CPU.                     *)
OwnerIsOff == \E q \in Proc : Holds(q) /\ state[q] = "RUNNABLE"

(* acquiresleep(), releasesleep(): who sleeps on the lock for ever is kept *)
(* waiting by the scheduler and not by the lock, whose owner is off the    *)
(* CPU again and again.  Every other sleeper is woken.                     *)
SleepersWake ==
  \A p \in Proc : <>[](state[p] = "SLEEPING") => []<>OwnerIsOff

(* The sleep lock implements the abstract lock.                            *)
AL == INSTANCE AbstractLock WITH owner <- IF locked THEN pid ELSE Nobody
ImplementsLock == AL!Spec

(* The strengthening of the safety invariants that is inductive: who holds *)
(* which spinlock at each point of the code, and why a process about to    *)
(* sleep cannot be missed.                                                 *)
SpinInv == \A p \in Proc : pc[p] \in {"test", "slp", "wake"} <=> lk = p

PlockInv ==
  \A p \in Proc : plock[p] = IF pc[p] \in {"slp", "unlk"} THEN p ELSE Nobody

StateInv ==
  \A p \in Proc :
    /\ pc[p] \in {"acq", "test", "slp", "unlk", "rel", "wake"} => state[p] = "RUNNING"
    /\ pc[p] = "asleep" <=> chan[p]
    /\ pc[p] = "asleep" => state[p] # "RUNNING"
    /\ state[p] = "SLEEPING" => pc[p] = "asleep"

SleepyInv ==
  \A p \in Proc :
    /\ pc[p] = "slp" => locked
    /\ pc[p] = "unlk" \/ state[p] = "SLEEPING" =>
         locked \/ \E q \in Proc : pc[q] = "wake" /\ scan <= p

IInv == TypeOK /\ SpinInv /\ PlockInv /\ StateInv /\ HoldingIsTrue /\ SleepyInv
===========================================================================
