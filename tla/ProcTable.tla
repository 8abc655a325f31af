----------------------------- MODULE ProcTable -----------------------------
(***************************************************************************)
(* Life and death in the process table: allocproc(), kfork(), kexit(),     *)
(* reparent(), kwait(), freeproc(), kkill(), setkilled() and the checks of *)
(* p->killed in usertrap() (kernel/proc.c, kernel/trap.c), and init's loop *)
(* (user/init.c).                                                          *)
(*                                                                         *)
(* wait_lock guards the parent links, p->lock an entry's own fields.  A    *)
(* step is what happens between two points where another CPU can see a     *)
(* difference.  While p->lock is held over a step, plock says so.  Memory, *)
(* files and the choice of the CPU are left to other modules.              *)
(***************************************************************************)
EXTENDS Naturals, FiniteSets

CONSTANTS
  NPROC,     \* entries of the process table
  MAXPID,    \* bound: processes created in a behaviour
  KillPids   \* the arguments kill() is called with

ASSUME ProcAssumption ==
  /\ NPROC \in Nat \ {0, 1}
  /\ MAXPID \in Nat \ {0}
  /\ KillPids \subseteq Nat

Slot == 1 .. NPROC
initproc == 1
None == 0

VARIABLES
  state,     \* p->state
  pid,       \* p->pid
  parent,    \* p->parent
  killed,    \* p->killed
  pc,        \* what each entry's process is doing
  np,        \* kfork()'s np
  plock,     \* p->lock is held across steps
  wait_lock, \* holder of wait_lock, or None
  nextpid,
  shell,     \* init's variable pid: its shell, or None
  panicked,  \* the kernel has panicked
  named      \* history: pids some kill() named, or whose process faulted

vars == <<state, pid, parent, killed, pc, np, plock, wait_lock, nextpid,
          shell, panicked, named>>

Live(p) == state[p] # "UNUSED"

Children(p) == {c \in Slot : parent[c] = p}

Zombies(p) == {c \in Children(p) : state[c] = "ZOMBIE"}

Running(p, at) == state[p] = "RUNNING" /\ pc[p] = at

(* userinit(): the first entry is init, ready to run. *)
Init ==
  /\ state = [p \in Slot |-> IF p = initproc THEN "RUNNABLE" ELSE "UNUSED"]
  /\ pid = [p \in Slot |-> IF p = initproc THEN 1 ELSE 0]
  /\ parent = [p \in Slot |-> None]
  /\ killed = [p \in Slot |-> FALSE]
  /\ pc = [p \in Slot |-> IF p = initproc THEN "user" ELSE "free"]
  /\ np = [p \in Slot |-> None]
  /\ plock = [p \in Slot |-> FALSE]
  /\ wait_lock = None
  /\ nextpid = 2
  /\ shell = None
  /\ panicked = FALSE
  /\ named = {}

---------------------------------------------------------------------------
(* kfork() *)

(* A trap into the kernel goes on only if the process is not killed. *)
MayCall(p) == Running(p, "user") /\ ~killed[p]

(* init forks when it has no shell; anybody else whenever it likes. *)
WantsFork(p) == p = initproc => shell = None

allocpid == nextpid' = nextpid + 1

(* allocproc() finds an UNUSED entry (a scan that other CPUs overtake may  *)
(* stop at any of them); kfork() fills it under np->lock.  p->killed is    *)
(* not among the fields that are set.                                      *)
ForkAlloc(p) ==
  /\ MayCall(p) /\ WantsFork(p)
  /\ nextpid <= MAXPID
  /\ \E q \in Slot :
       /\ state[q] = "UNUSED"
       /\ state' = [state EXCEPT ![q] = "USED"]
       /\ pid' = [pid EXCEPT ![q] = nextpid]
       /\ np' = [np EXCEPT ![p] = q]
       /\ pc' = [pc EXCEPT ![p] = "setparent", ![q] = "user"]
  /\ allocpid
  /\ UNCHANGED <<parent, killed, plock, wait_lock, shell, panicked, named>>

(* No UNUSED entry: fork() returns -1, and init then exits. *)
ForkFails(p) ==
  /\ MayCall(p) /\ WantsFork(p)
  /\ \A q \in Slot : state[q] # "UNUSED"
  /\ panicked' = (p = initproc)
  /\ UNCHANGED <<state, pid, parent, killed, pc, np, plock, wait_lock, nextpid, shell, named>>

(* kalloc() or uvmcopy() fails: freeproc(np); the pid is used up. *)
ForkNoMemory(p) ==
  /\ MayCall(p) /\ WantsFork(p)
  /\ nextpid <= MAXPID
  /\ \E q \in Slot : state[q] = "UNUSED" /\ killed' = [killed EXCEPT ![q] = FALSE]
  /\ allocpid
  /\ panicked' = (p = initproc)
  /\ UNCHANGED <<state, pid, parent, pc, np, plock, wait_lock, shell, named>>

(* np->parent = p, under wait_lock. *)
ForkParent(p) ==
  /\ Running(p, "setparent")
  /\ wait_lock = None
  /\ parent' = [parent EXCEPT ![np[p]] = p]
  /\ pc' = [pc EXCEPT ![p] = "setrunnable"]
  /\ UNCHANGED <<state, pid, killed, np, plock, wait_lock, nextpid, shell, panicked, named>>

(* np->state = RUNNABLE, under np->lock; fork() returns the pid. *)
ForkRunnable(p) ==
  /\ Running(p, "setrunnable")
  /\ state' = [state EXCEPT ![np[p]] = "RUNNABLE"]
  /\ pc' = [pc EXCEPT ![p] = "user"]
  /\ np' = [np EXCEPT ![p] = None]
  /\ shell' = IF p = initproc THEN pid[np[p]] ELSE shell
  /\ UNCHANGED <<pid, parent, killed, plock, wait_lock, nextpid, panicked, named>>

---------------------------------------------------------------------------
(* kexit() *)

(* exit(), or a trap of a killed process.  init does not: kexit() panics.  *)
Exit(p) ==
  /\ Running(p, "user")
  /\ p # initproc
  /\ wait_lock = None
  /\ wait_lock' = p
  /\ pc' = [pc EXCEPT ![p] = "reparent"]
  /\ UNCHANGED <<state, pid, parent, killed, np, plock, nextpid, shell, panicked, named>>

(* wakeup(q), where q sleeps only in kwait(), on itself. *)
Wakeup(q) == state' = [state EXCEPT ![q] = IF @ = "SLEEPING" THEN "RUNNABLE" ELSE @]

(* Mutant: only orphans that still run change hands. *)
LazyReparent(p) ==
  /\ Running(p, "reparent")
  /\ Children(p) # {} => ~plock[initproc]
  /\ IF Children(p) # {} THEN Wakeup(initproc) ELSE UNCHANGED state
  /\ parent' = [c \in Slot |-> IF parent[c] = p /\ state[c] # "USED" /\ state[c] # "ZOMBIE"
                               THEN initproc ELSE parent[c]]
  /\ pc' = [pc EXCEPT ![p] = "wakeparent"]
  /\ UNCHANGED <<pid, killed, np, plock, wait_lock, nextpid, shell, panicked, named>>

(* reparent(): with wait_lock held init cannot go back to sleep in between,*)
(* so its wakeups for each child are one.                                  *)
Reparent(p) ==
  /\ Running(p, "reparent")
  /\ Children(p) # {} => ~plock[initproc]
  /\ IF Children(p) # {} THEN Wakeup(initproc) ELSE UNCHANGED state
  /\ parent' = [c \in Slot |-> IF parent[c] = p THEN initproc ELSE parent[c]]
  /\ pc' = [pc EXCEPT ![p] = "wakeparent"]
  /\ UNCHANGED <<pid, killed, np, plock, wait_lock, nextpid, shell, panicked, named>>

(* Mutant: kexit() does not wake the parent. *)
SilentWakeParent(p) ==
  /\ Running(p, "wakeparent")
  /\ pc' = [pc EXCEPT ![p] = "zombie"]
  /\ UNCHANGED <<state, pid, parent, killed, np, plock, wait_lock, nextpid, shell, panicked, named>>

(* wakeup(p->parent) *)
WakeParent(p) ==
  /\ Running(p, "wakeparent")
  /\ ~plock[parent[p]]
  /\ Wakeup(parent[p])
  /\ pc' = [pc EXCEPT ![p] = "zombie"]
  /\ UNCHANGED <<pid, parent, killed, np, plock, wait_lock, nextpid, shell, panicked, named>>

(* acquire(&p->lock); ZOMBIE; release(&wait_lock) *)
BecomeZombie(p) ==
  /\ Running(p, "zombie")
  /\ plock' = [plock EXCEPT ![p] = TRUE]
  /\ state' = [state EXCEPT ![p] = "ZOMBIE"]
  /\ wait_lock' = None
  /\ pc' = [pc EXCEPT ![p] = "leaving"]
  /\ UNCHANGED <<pid, parent, killed, np, nextpid, shell, panicked, named>>

(* sched(): the scheduler frees p->lock once it is off p's kernel stack. *)
LeaveCpu(p) ==
  /\ pc[p] = "leaving"
  /\ plock' = [plock EXCEPT ![p] = FALSE]
  /\ pc' = [pc EXCEPT ![p] = "gone"]
  /\ UNCHANGED <<state, pid, parent, killed, np, wait_lock, nextpid, shell, panicked, named>>

---------------------------------------------------------------------------
(* kwait() *)

(* acquire(&wait_lock): on entry, and at the end of sleep(). *)
WaitLock(p) ==
  /\ \/ MayCall(p) /\ (p = initproc => shell # None)
     \/ Running(p, "awake")
  /\ wait_lock = None
  /\ wait_lock' = p
  /\ pc' = [pc EXCEPT ![p] = "scan"]
  /\ UNCHANGED <<state, pid, parent, killed, np, plock, nextpid, shell, panicked, named>>

(* freeproc() *)
Freed(c) ==
  /\ state' = [state EXCEPT ![c] = "UNUSED"]
  /\ pid' = [pid EXCEPT ![c] = 0]
  /\ parent' = [parent EXCEPT ![c] = None]
  /\ killed' = [killed EXCEPT ![c] = FALSE]

(* Mutant: a child is reaped without waiting for its p->lock. *)
HastyReap(p) ==
  /\ Running(p, "scan")
  /\ \E c \in Zombies(p) :
       /\ Freed(c)
       /\ pc' = [pc EXCEPT ![p] = "user", ![c] = "free"]
       /\ shell' = IF p = initproc /\ pid[c] = shell THEN None ELSE shell
  /\ wait_lock' = None
  /\ UNCHANGED <<np, plock, nextpid, panicked, named>>

(* The first zombie of the table is reaped, under its p->lock: its CPU has *)
(* left it.  wait() returns its pid; init looks whether it was the shell.  *)
Reap(p) ==
  /\ Running(p, "scan")
  /\ \E c \in Zombies(p) :
       /\ \A d \in Children(p) : d <= c => ~plock[d]
       /\ \A d \in Zombies(p) : c <= d
       /\ Freed(c)
       /\ pc' = [pc EXCEPT ![p] = "user", ![c] = "free"]
       /\ shell' = IF p = initproc /\ pid[c] = shell THEN None ELSE shell
  /\ wait_lock' = None
  /\ UNCHANGED <<np, plock, nextpid, panicked, named>>

(* The status cannot be copied out: -1, and the zombie stays.  init passes *)
(* no address.                                                             *)
ReapFault(p) ==
  /\ Running(p, "scan")
  /\ p # initproc
  /\ Zombies(p) # {}
  /\ wait_lock' = None
  /\ pc' = [pc EXCEPT ![p] = "user"]
  /\ UNCHANGED <<state, pid, parent, killed, np, plock, nextpid, shell, panicked, named>>

(* No children, or killed: wait() returns -1.  init then exits. *)
WaitError(p) ==
  /\ Running(p, "scan")
  /\ Zombies(p) = {}
  /\ Children(p) = {} \/ killed[p]
  /\ wait_lock' = None
  /\ pc' = [pc EXCEPT ![p] = "user"]
  /\ panicked' = (p = initproc)
  /\ UNCHANGED <<state, pid, parent, killed, np, plock, nextpid, shell, named>>

(* Children but no zombie, and killed() says no.  It gives p->lock back:   *)
(* a kill() that comes before sleep() has it is not noticed.               *)
WaitCheck(p) ==
  /\ Running(p, "scan")
  /\ Zombies(p) = {} /\ Children(p) # {} /\ ~killed[p]
  /\ pc' = [pc EXCEPT ![p] = "nap"]
  /\ UNCHANGED <<state, pid, parent, killed, np, plock, wait_lock, nextpid, shell, panicked, named>>

(* Mutant: sleep() gives up wait_lock before it has p->lock. *)
LooseSleep(p) ==
  /\ Running(p, "nap")
  /\ wait_lock' = None
  /\ pc' = [pc EXCEPT ![p] = "drowsy"]
  /\ UNCHANGED <<state, pid, parent, killed, np, plock, nextpid, shell, panicked, named>>

(* sleep(p, &wait_lock): p->lock first, then wait_lock is let go ... *)
WaitSleep(p) ==
  /\ Running(p, "nap")
  /\ plock' = [plock EXCEPT ![p] = TRUE]
  /\ wait_lock' = None
  /\ pc' = [pc EXCEPT ![p] = "drowsy"]
  /\ UNCHANGED <<state, pid, parent, killed, np, nextpid, shell, panicked, named>>

(* ... then SLEEPING, and the scheduler frees p->lock. *)
FallAsleep(p) ==
  /\ Running(p, "drowsy")
  /\ state' = [state EXCEPT ![p] = "SLEEPING"]
  /\ plock' = [plock EXCEPT ![p] = FALSE]
  /\ pc' = [pc EXCEPT ![p] = "awake"]
  /\ UNCHANGED <<pid, parent, killed, np, wait_lock, nextpid, shell, panicked, named>>

---------------------------------------------------------------------------
Dispatch(p) ==
  /\ state[p] = "RUNNABLE" /\ ~plock[p]
  /\ state' = [state EXCEPT ![p] = "RUNNING"]
  /\ UNCHANGED <<pid, parent, killed, pc, np, plock, wait_lock, nextpid, shell, panicked, named>>

(* kkill(target): the first entry with that pid, under its p->lock, be it  *)
(* in use or not.  init is not killed here: it would panic the kernel.     *)
Kill(p, target) ==
  /\ MayCall(p)
  /\ target # pid[initproc]
  /\ \E q \in Slot :
       /\ pid[q] = target
       /\ ~killed[q] \/ state[q] = "SLEEPING"
       /\ \A r \in Slot : r < q => pid[r] # target
       /\ ~plock[q]
       /\ killed' = [killed EXCEPT ![q] = TRUE]
       /\ state' = [state EXCEPT ![q] = IF @ = "SLEEPING" THEN "RUNNABLE" ELSE @]
  /\ named' = named \cup {target}
  /\ UNCHANGED <<pid, parent, pc, np, plock, wait_lock, nextpid, shell, panicked>>

(* usertrap() with an unexpected cause: setkilled(p). *)
Fault(p) ==
  /\ MayCall(p) /\ p # initproc
  /\ killed' = [killed EXCEPT ![p] = TRUE]
  /\ named' = named \cup {pid[p]}
  /\ UNCHANGED <<state, pid, parent, pc, np, plock, wait_lock, nextpid, shell, panicked>>

(* The kernel's own steps, which go on by themselves. *)
Step(p) ==
  \/ ForkParent(p) \/ ForkRunnable(p)
  \/ Reparent(p) \/ WakeParent(p) \/ BecomeZombie(p) \/ LeaveCpu(p)
  \/ Running(p, "awake") /\ WaitLock(p)
  \/ Reap(p) \/ WaitError(p) \/ WaitCheck(p) \/ WaitSleep(p) \/ FallAsleep(p)

Next ==
  /\ ~panicked
  /\ \E p \in Slot :
       \/ ForkAlloc(p) \/ ForkFails(p) \/ ForkNoMemory(p)
       \/ ForkParent(p) \/ ForkRunnable(p)
       \/ Exit(p) \/ Reparent(p) \/ WakeParent(p) \/ BecomeZombie(p) \/ LeaveCpu(p)
       \/ WaitLock(p) \/ Reap(p) \/ ReapFault(p) \/ WaitError(p)
       \/ WaitCheck(p) \/ WaitSleep(p) \/ FallAsleep(p)
       \/ Dispatch(p)
       \/ \E t \in KillPids : Kill(p, t)
       \/ Fault(p)

Spec == Init /\ [][Next]_vars

(* A process in the kernel goes on, a ready one is dispatched and a killed *)
(* one meets its next trap.  wait_lock is contended for by finitely many   *)
(* processes, each of which gets it at last.                               *)
FairSpec ==
  /\ Spec
  /\ \A p \in Slot :
       /\ WF_vars(~panicked /\ (Step(p) \/ Dispatch(p)))
       /\ SF_vars(~panicked /\ WaitLock(p) /\ pc[p] = "awake")
       /\ SF_vars(~panicked /\ killed[p] /\ Exit(p))

---------------------------------------------------------------------------
TypeOK ==
  /\ state \in [Slot -> {"UNUSED", "USED", "SLEEPING", "RUNNABLE", "RUNNING", "ZOMBIE"}]
  /\ pid \in [Slot -> 0 .. MAXPID]
  /\ parent \in [Slot -> Slot \cup {None}]
  /\ killed \in [Slot -> BOOLEAN]
  /\ pc \in [Slot -> {"free", "user", "setparent", "setrunnable", "reparent",
                      "wakeparent", "zombie", "leaving", "gone", "scan",
                      "nap", "drowsy", "awake"}]
  /\ np \in [Slot -> Slot \cup {None}]
  /\ plock \in [Slot -> BOOLEAN]
  /\ wait_lock \in Slot \cup {None}
  /\ nextpid \in 1 .. MAXPID + 1
  /\ shell \in 0 .. MAXPID
  /\ panicked \in BOOLEAN
  /\ named \subseteq 0 .. MAXPID

(* p is filled by a kfork() that has not yet linked it to its parent. *)
Unlinked(p) == \E f \in Slot : pc[f] = "setparent" /\ np[f] = p

(* kexit(), reparent(), kfork(): every process but init has a parent that  *)
(* is alive, so that somebody can reap it.                                 *)
ParentAlive ==
  \A p \in Slot \ {initproc} :
    Live(p) /\ ~Unlinked(p) =>
      parent[p] # None /\ state[parent[p]] \notin {"UNUSED", "ZOMBIE"}

(* kwait(), kexit(): a process asleep in wait() has children, none of them *)
(* a zombie: no exit is missed between the scan and the sleep, not even    *)
(* one of a process it has just inherited.                                 *)
NoZombieMissed ==
  \A p \in Slot : state[p] = "SLEEPING" => Children(p) # {} /\ Zombies(p) = {}

(* kwait(): "make sure the child isn't still in exit() or swtch()": an     *)
(* entry is not recycled while a CPU is on its kernel stack.               *)
NotFreedOnCpu == \A p \in Slot : plock[p] => Live(p) /\ pc[p] \in {"leaving", "drowsy"}

(* allocpid(): no two live processes have one pid.                         *)
PidsDistinct ==
  \A p, q \in Slot : Live(p) /\ Live(q) /\ pid[p] = pid[q] => p = q

(* kkill(), freeproc(), allocproc(): a process is killed only by a kill() *)
(* of its own pid or by its own fault; no kill of an earlier tenant of the *)
(* entry reaches it.  The one exception is kill(0): it marks an UNUSED     *)
(* entry, whose pid is 0, and allocproc() does not clear the mark.         *)
KilledByName ==
  \A p \in Slot : Live(p) /\ killed[p] => pid[p] \in named \/ 0 \in named

---------------------------------------------------------------------------
(* The parts of the inductive invariant *)

(* wait_lock is held from acquire(&wait_lock) to its release, and p->lock  *)
(* over the two gaps of kexit() and sleep().                               *)
WaitLockInv ==
  \A p \in Slot : pc[p] \in {"reparent", "wakeparent", "zombie", "scan", "nap"} <=> wait_lock = p

PlockInv == \A p \in Slot : plock[p] <=> pc[p] \in {"leaving", "drowsy"}

(* What p->state says of where the process is. *)
StateInv ==
  \A p \in Slot :
    /\ state[p] = "UNUSED" <=> pc[p] = "free"
    /\ state[p] = "ZOMBIE" <=> pc[p] \in {"leaving", "gone"}
    /\ state[p] = "SLEEPING" => pc[p] = "awake"
    /\ state[p] = "USED" => pc[p] = "user"
    /\ state[p] = "RUNNABLE" => pc[p] \in {"user", "awake"}

(* init neither exits nor has a parent. *)
InitInv ==
  /\ pc[initproc] \notin {"free", "reparent", "wakeparent", "zombie", "leaving", "gone"}
  /\ parent[initproc] = None /\ state[initproc] # "USED"

(* kfork() has its child to itself until the child is RUNNABLE. *)
Forking(p) == pc[p] \in {"setparent", "setrunnable"}

ForkInv ==
  /\ \A p \in Slot : Forking(p) => /\ np[p] \in Slot /\ state[np[p]] = "USED"
                                   /\ pc[p] = "setparent" => parent[np[p]] = None
  /\ \A p, q \in Slot : Forking(p) /\ Forking(q) /\ np[p] = np[q] => p = q

(* Parent links lead from entries in use to processes that have not handed *)
(* their children over.                                                    *)
LinkInv ==
  /\ \A c \in Slot : parent[c] # None =>
       /\ Live(c) /\ state[parent[c]] \notin {"UNUSED", "ZOMBIE"}
       /\ pc[parent[c]] \notin {"wakeparent", "zombie"}
  /\ \A c \in Slot \ {initproc} : Live(c) /\ ~Unlinked(c) => parent[c] # None

(* A process that has found no zombie, from then until it is woken up, has *)
(* children, and none of them is past its wakeup(p->parent).               *)
NapInv ==
  \A p \in Slot : state[p] = "SLEEPING" \/ pc[p] \in {"nap", "drowsy"} =>
    /\ Children(p) # {}
    /\ \A c \in Children(p) : state[c] # "ZOMBIE" /\ pc[c] # "zombie"

(* Pids grow; an entry that is not used has none. *)
PidInv == \A p \in Slot : IF Live(p) THEN pid[p] > 0 /\ pid[p] < nextpid ELSE pid[p] = 0

(* Only kill(0) marks an entry that is not used. *)
UnusedKilled == \A p \in Slot : ~Live(p) /\ killed[p] => 0 \in named

IInv ==
  /\ TypeOK /\ WaitLockInv /\ PlockInv /\ StateInv /\ InitInv /\ ForkInv
  /\ LinkInv /\ NapInv /\ PidInv /\ PidsDistinct /\ UnusedKilled /\ KilledByName

---------------------------------------------------------------------------
(* A process asleep in wait() goes on once a child of it begins to exit.   *)
ExitIsNoticed ==
  \A p, c \in Slot :
    state[p] = "SLEEPING" /\ parent[c] = p /\ pc[c] = "reparent"
      ~> state[p] # "SLEEPING" \/ panicked
===========================================================================
