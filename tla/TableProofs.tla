---------------------------- MODULE TableProofs ----------------------------
(***************************************************************************)
(* The tables that processes share: proc[], for any number of entries, and *)
(* the response cache with its file, for any number of slots and records.  *)
(***************************************************************************)
EXTENDS ProcTable, RespCache, WellFoundedInduction, TLAPS

(***************************************************************************)
(* ProcTable for any number of entries and processes: every process has a  *)
(* parent that can reap it, no exit is missed by a process asleep in       *)
(* wait(), no entry is recycled while a CPU is on its stack, live pids are *)
(* distinct and kills reach whom they name.                                *)
(***************************************************************************)

(* init has an entry, and None is none.                                    *)
LEMMA SlotFacts == initproc \in Slot /\ None \notin Slot
  BY ProcAssumption DEF Slot, initproc, None

(* allocproc(): a fresh entry, with a fresh pid, is filled by one fork().  *)
LEMMA ForkAllocIInv ==
  ASSUME IInv, NEW p \in Slot, ForkAlloc(p)
  PROVE  IInv'
<1> USE SlotFacts DEF IInv, ForkAlloc, MayCall, Running, allocpid
<1>1. TypeOK'
  <2>1. nextpid' \in 1 .. MAXPID + 1 /\ nextpid \in 0 .. MAXPID
    BY ProcAssumption DEF TypeOK
  <2> QED
    BY <2>1 DEF TypeOK
<1>2. WaitLockInv' /\ PlockInv'
  BY DEF WaitLockInv, PlockInv, TypeOK, StateInv
<1>3. StateInv' /\ InitInv'
  BY DEF StateInv, InitInv, TypeOK
<1>4. ForkInv'
  BY DEF ForkInv, Forking, TypeOK, LinkInv, Live
<1>5. LinkInv'
  BY DEF LinkInv, Live, Unlinked, TypeOK, StateInv
<1>6. NapInv'
  BY DEF NapInv, Children, TypeOK
<1>7. PidInv' /\ PidsDistinct'
  BY DEF PidInv, PidsDistinct, Live, TypeOK
<1>8. UnusedKilled' /\ KilledByName'
  BY DEF UnusedKilled, KilledByName, Live
<1> QED
  BY <1>1, <1>2, <1>3, <1>4, <1>5, <1>6, <1>7, <1>8

(* fork() without a free entry.                                            *)
LEMMA ForkFailsIInv ==
  ASSUME IInv, NEW p \in Slot, ForkFails(p)
  PROVE  IInv'
<1> USE SlotFacts DEF IInv, ForkFails
<1>1. TypeOK'
  BY DEF TypeOK
<1>2. WaitLockInv' /\ PlockInv'
  BY DEF WaitLockInv, PlockInv
<1>3. StateInv' /\ InitInv'
  BY DEF StateInv, InitInv
<1>4. ForkInv'
  BY DEF ForkInv, Forking
<1>5. LinkInv'
  BY DEF LinkInv, Live, Unlinked
<1>6. NapInv'
  BY DEF NapInv, Children
<1>7. PidInv' /\ PidsDistinct'
  BY DEF PidInv, PidsDistinct, Live
<1>8. UnusedKilled' /\ KilledByName'
  BY DEF UnusedKilled, KilledByName, Live
<1> QED
  BY <1>1, <1>2, <1>3, <1>4, <1>5, <1>6, <1>7, <1>8

(* fork() without memory: the pid is used up, freeproc() clears the mark.  *)
LEMMA ForkNoMemoryIInv ==
  ASSUME IInv, NEW p \in Slot, ForkNoMemory(p)
  PROVE  IInv'
<1> USE SlotFacts DEF IInv, ForkNoMemory, allocpid
<1>1. TypeOK'
  <2>1. nextpid' \in 1 .. MAXPID + 1
    BY ProcAssumption DEF TypeOK
  <2>2. killed' \in [Slot -> BOOLEAN]
    BY DEF TypeOK
  <2> QED
    BY <2>1, <2>2 DEF TypeOK
<1>2. WaitLockInv' /\ PlockInv'
  BY DEF WaitLockInv, PlockInv
<1>3. StateInv' /\ InitInv'
  BY DEF StateInv, InitInv
<1>4. ForkInv'
  BY DEF ForkInv, Forking
<1>5. LinkInv'
  BY DEF LinkInv, Live, Unlinked
<1>6. NapInv'
  BY DEF NapInv, Children
<1>7. PidInv' /\ PidsDistinct'
  BY DEF PidInv, PidsDistinct, Live, TypeOK
<1>8. UnusedKilled' /\ KilledByName'
  BY DEF UnusedKilled, KilledByName, Live
<1> QED
  BY <1>1, <1>2, <1>3, <1>4, <1>5, <1>6, <1>7, <1>8

(* The child gets its parent.                                              *)
LEMMA ForkParentIInv ==
  ASSUME IInv, NEW p \in Slot, ForkParent(p)
  PROVE  IInv'
<1> USE SlotFacts DEF IInv, ForkParent, Running
<1>1. TypeOK'
  BY DEF TypeOK
<1>2. WaitLockInv' /\ PlockInv'
  BY DEF WaitLockInv, PlockInv
<1>3. StateInv' /\ InitInv'
  BY DEF StateInv, InitInv, ForkInv, Forking
<1>4. ForkInv'
  BY DEF ForkInv, Forking, TypeOK
<1>5. LinkInv'
  BY DEF LinkInv, Live, Unlinked, TypeOK, ForkInv, Forking
<1>6. NapInv'
  BY DEF NapInv, Children, ForkInv, Forking
<1>7. PidInv' /\ PidsDistinct'
  BY DEF PidInv, PidsDistinct, Live
<1>8. UnusedKilled' /\ KilledByName'
  BY DEF UnusedKilled, KilledByName, Live
<1> QED
  BY <1>1, <1>2, <1>3, <1>4, <1>5, <1>6, <1>7, <1>8

(* The child is ready.                                                     *)
LEMMA ForkRunnableIInv ==
  ASSUME IInv, NEW p \in Slot, ForkRunnable(p)
  PROVE  IInv'
<1> USE SlotFacts DEF IInv, ForkRunnable, Running
<1>1. TypeOK'
  <2>1. shell' \in 0 .. MAXPID
    BY DEF TypeOK, ForkInv, Forking
  <2> QED
    BY <2>1 DEF TypeOK
<1>2. WaitLockInv' /\ PlockInv'
  BY DEF WaitLockInv, PlockInv
<1>3. StateInv' /\ InitInv'
  BY DEF StateInv, InitInv, ForkInv, Forking
<1>4. ForkInv'
  BY DEF ForkInv, Forking, TypeOK
<1>5. LinkInv'
  BY DEF LinkInv, Live, Unlinked, ForkInv, Forking
<1>6. NapInv'
  BY DEF NapInv, Children
<1>7. PidInv' /\ PidsDistinct'
  BY DEF PidInv, PidsDistinct, Live, ForkInv, Forking
<1>8. UnusedKilled' /\ KilledByName'
  BY DEF UnusedKilled, KilledByName, Live
<1> QED
  BY <1>1, <1>2, <1>3, <1>4, <1>5, <1>6, <1>7, <1>8

(* exit() takes wait_lock.                                                 *)
LEMMA ExitIInv ==
  ASSUME IInv, NEW p \in Slot, Exit(p)
  PROVE  IInv'
<1> USE SlotFacts DEF IInv, Exit, Running
<1>1. TypeOK'
  BY DEF TypeOK
<1>2. WaitLockInv' /\ PlockInv'
  BY DEF WaitLockInv, PlockInv, TypeOK
<1>3. StateInv' /\ InitInv'
  BY DEF StateInv, InitInv
<1>4. ForkInv'
  BY DEF ForkInv, Forking
<1>5. LinkInv'
  BY DEF LinkInv, Live, Unlinked
<1>6. NapInv'
  BY DEF NapInv, Children
<1>7. PidInv' /\ PidsDistinct'
  BY DEF PidInv, PidsDistinct, Live
<1>8. UnusedKilled' /\ KilledByName'
  BY DEF UnusedKilled, KilledByName, Live
<1> QED
  BY <1>1, <1>2, <1>3, <1>4, <1>5, <1>6, <1>7, <1>8

(* The children change hands, and init is awake to see them.               *)
LEMMA ReparentIInv ==
  ASSUME IInv, NEW p \in Slot, Reparent(p)
  PROVE  IInv'
<1> USE SlotFacts DEF IInv, Reparent, Running, Wakeup
<1>1. TypeOK'
  BY DEF TypeOK
<1>2. WaitLockInv' /\ PlockInv'
  BY DEF WaitLockInv, PlockInv
<1>3. StateInv' /\ InitInv'
  BY DEF StateInv, InitInv, TypeOK
<1>4. ForkInv'
  BY DEF ForkInv, Forking, TypeOK
<1>5. LinkInv'
  BY DEF TypeOK, StateInv, InitInv, ForkInv, Forking, LinkInv, Live, Unlinked,
         WaitLockInv, Children
<1>6. NapInv'
  BY DEF TypeOK, StateInv, ForkInv, Forking, LinkInv, Live, WaitLockInv,
         PlockInv, NapInv, Children
<1>7. PidInv' /\ PidsDistinct'
  BY DEF PidInv, PidsDistinct, Live, TypeOK
<1>8. UnusedKilled' /\ KilledByName'
  BY DEF UnusedKilled, KilledByName, Live, TypeOK
<1> QED
  BY <1>1, <1>2, <1>3, <1>4, <1>5, <1>6, <1>7, <1>8

(* The parent is not in the gap between wait_lock and sleep: it wakes.     *)
LEMMA WakeParentIInv ==
  ASSUME IInv, NEW p \in Slot, WakeParent(p)
  PROVE  IInv'
<1> USE SlotFacts DEF IInv, WakeParent, Running, Wakeup
<1>1. TypeOK'
  BY DEF TypeOK
<1>2. WaitLockInv' /\ PlockInv'
  BY DEF WaitLockInv, PlockInv
<1>3. StateInv' /\ InitInv'
  BY DEF StateInv, InitInv
<1>4. ForkInv'
  BY DEF ForkInv, Forking
<1>5. LinkInv'
  BY DEF LinkInv, Live, Unlinked
<1>6. NapInv'
  BY DEF TypeOK, StateInv, ForkInv, Forking, LinkInv, Live, WaitLockInv,
         PlockInv, NapInv, Children
<1>7. PidInv' /\ PidsDistinct'
  BY DEF PidInv, PidsDistinct, Live
<1>8. UnusedKilled' /\ KilledByName'
  BY DEF UnusedKilled, KilledByName, Live
<1> QED
  BY <1>1, <1>2, <1>3, <1>4, <1>5, <1>6, <1>7, <1>8

(* The parent is awake and will look at the table again.                   *)
LEMMA BecomeZombieIInv ==
  ASSUME IInv, NEW p \in Slot, BecomeZombie(p)
  PROVE  IInv'
<1> USE SlotFacts DEF IInv, BecomeZombie, Running
<1>1. TypeOK'
  BY DEF TypeOK
<1>2. WaitLockInv' /\ PlockInv'
  BY DEF WaitLockInv, PlockInv, TypeOK
<1>3. StateInv' /\ InitInv'
  BY DEF StateInv, InitInv, TypeOK
<1>4. ForkInv'
  BY DEF ForkInv, Forking
<1>5. LinkInv'
  BY DEF LinkInv, Live, Unlinked
<1>6. NapInv'
  BY DEF NapInv, Children
<1>7. PidInv' /\ PidsDistinct'
  BY DEF PidInv, PidsDistinct, Live
<1>8. UnusedKilled' /\ KilledByName'
  BY DEF UnusedKilled, KilledByName, Live
<1> QED
  BY <1>1, <1>2, <1>3, <1>4, <1>5, <1>6, <1>7, <1>8

(* The CPU is off the zombie's stack.                                      *)
LEMMA LeaveCpuIInv ==
  ASSUME IInv, NEW p \in Slot, LeaveCpu(p)
  PROVE  IInv'
<1> USE SlotFacts DEF IInv, LeaveCpu
<1>1. TypeOK'
  BY DEF TypeOK
<1>2. WaitLockInv' /\ PlockInv'
  BY DEF WaitLockInv, PlockInv, TypeOK
<1>3. StateInv' /\ InitInv'
  BY DEF StateInv, InitInv
<1>4. ForkInv'
  BY DEF ForkInv, Forking
<1>5. LinkInv'
  BY DEF LinkInv, Live, Unlinked
<1>6. NapInv'
  BY DEF NapInv, Children
<1>7. PidInv' /\ PidsDistinct'
  BY DEF PidInv, PidsDistinct, Live
<1>8. UnusedKilled' /\ KilledByName'
  BY DEF UnusedKilled, KilledByName, Live
<1> QED
  BY <1>1, <1>2, <1>3, <1>4, <1>5, <1>6, <1>7, <1>8

(* wait() takes wait_lock.                                                 *)
LEMMA WaitLockIInv ==
  ASSUME IInv, NEW p \in Slot, WaitLock(p)
  PROVE  IInv'
<1> USE SlotFacts DEF IInv, WaitLock, MayCall, Running
<1>1. TypeOK'
  BY DEF TypeOK
<1>2. WaitLockInv' /\ PlockInv'
  BY DEF WaitLockInv, PlockInv, TypeOK
<1>3. StateInv' /\ InitInv'
  BY DEF StateInv, InitInv
<1>4. ForkInv'
  BY DEF ForkInv, Forking
<1>5. LinkInv'
  BY DEF LinkInv, Live, Unlinked
<1>6. NapInv'
  BY DEF NapInv, Children
<1>7. PidInv' /\ PidsDistinct'
  BY DEF PidInv, PidsDistinct, Live
<1>8. UnusedKilled' /\ KilledByName'
  BY DEF UnusedKilled, KilledByName, Live
<1> QED
  BY <1>1, <1>2, <1>3, <1>4, <1>5, <1>6, <1>7, <1>8

(* A zombie has no children, and nobody is on its stack: it can be freed.  *)
LEMMA ReapIInv ==
  ASSUME IInv, NEW p \in Slot, Reap(p)
  PROVE  IInv'
<1> USE SlotFacts DEF IInv, Reap, Running, Freed, Zombies
<1>1. TypeOK'
  <2>1. shell' \in 0 .. MAXPID
    BY ProcAssumption DEF TypeOK, Children, None
  <2>2. pid' \in [Slot -> 0 .. MAXPID]
    BY ProcAssumption DEF TypeOK, Children, None
  <2>3. killed' \in [Slot -> BOOLEAN]
    BY DEF TypeOK
  <2> QED
    BY <2>1, <2>2, <2>3 DEF TypeOK, Children
<1>2. WaitLockInv' /\ PlockInv'
  BY DEF WaitLockInv, PlockInv, TypeOK
<1>3. StateInv' /\ InitInv'
  BY DEF StateInv, InitInv, TypeOK
<1>4. ForkInv'
  BY DEF ForkInv, Forking, TypeOK
<1>5. LinkInv'
  BY DEF LinkInv, Live, Unlinked, TypeOK, StateInv
<1>6. NapInv'
  BY DEF NapInv, Children, TypeOK
<1>7. PidInv' /\ PidsDistinct'
  BY DEF PidInv, PidsDistinct, Live, TypeOK
<1>8. UnusedKilled' /\ KilledByName'
  BY DEF UnusedKilled, KilledByName, Live, TypeOK
<1> QED
  BY <1>1, <1>2, <1>3, <1>4, <1>5, <1>6, <1>7, <1>8

(* The status could not be copied out.                                     *)
LEMMA ReapFaultIInv ==
  ASSUME IInv, NEW p \in Slot, ReapFault(p)
  PROVE  IInv'
<1> USE SlotFacts DEF IInv, ReapFault, Running
<1>1. TypeOK'
  BY DEF TypeOK
<1>2. WaitLockInv' /\ PlockInv'
  BY DEF WaitLockInv, PlockInv, TypeOK
<1>3. StateInv' /\ InitInv'
  BY DEF StateInv, InitInv
<1>4. ForkInv'
  BY DEF ForkInv, Forking
<1>5. LinkInv'
  BY DEF LinkInv, Live, Unlinked
<1>6. NapInv'
  BY DEF NapInv, Children
<1>7. PidInv' /\ PidsDistinct'
  BY DEF PidInv, PidsDistinct, Live
<1>8. UnusedKilled' /\ KilledByName'
  BY DEF UnusedKilled, KilledByName, Live
<1> QED
  BY <1>1, <1>2, <1>3, <1>4, <1>5, <1>6, <1>7, <1>8

(* wait() has nothing to wait for.                                         *)
LEMMA WaitErrorIInv ==
  ASSUME IInv, NEW p \in Slot, WaitError(p)
  PROVE  IInv'
<1> USE SlotFacts DEF IInv, WaitError, Running
<1>1. TypeOK'
  BY DEF TypeOK
<1>2. WaitLockInv' /\ PlockInv'
  BY DEF WaitLockInv, PlockInv, TypeOK
<1>3. StateInv' /\ InitInv'
  BY DEF StateInv, InitInv
<1>4. ForkInv'
  BY DEF ForkInv, Forking
<1>5. LinkInv'
  BY DEF LinkInv, Live, Unlinked
<1>6. NapInv'
  BY DEF NapInv, Children
<1>7. PidInv' /\ PidsDistinct'
  BY DEF PidInv, PidsDistinct, Live
<1>8. UnusedKilled' /\ KilledByName'
  BY DEF UnusedKilled, KilledByName, Live
<1> QED
  BY <1>1, <1>2, <1>3, <1>4, <1>5, <1>6, <1>7, <1>8

(* No zombie, and wait_lock keeps it so.                                   *)
LEMMA WaitCheckIInv ==
  ASSUME IInv, NEW p \in Slot, WaitCheck(p)
  PROVE  IInv'
<1> USE SlotFacts DEF IInv, WaitCheck, Running, Zombies
<1>1. TypeOK'
  BY DEF TypeOK
<1>2. WaitLockInv' /\ PlockInv'
  BY DEF WaitLockInv, PlockInv
<1>3. StateInv' /\ InitInv'
  BY DEF StateInv, InitInv
<1>4. ForkInv'
  BY DEF ForkInv, Forking
<1>5. LinkInv'
  BY DEF LinkInv, Live, Unlinked
<1>6. NapInv'
  BY DEF NapInv, Children, WaitLockInv
<1>7. PidInv' /\ PidsDistinct'
  BY DEF PidInv, PidsDistinct, Live
<1>8. UnusedKilled' /\ KilledByName'
  BY DEF UnusedKilled, KilledByName, Live
<1> QED
  BY <1>1, <1>2, <1>3, <1>4, <1>5, <1>6, <1>7, <1>8

(* wait_lock is given up with p->lock held.                                *)
LEMMA WaitSleepIInv ==
  ASSUME IInv, NEW p \in Slot, WaitSleep(p)
  PROVE  IInv'
<1> USE SlotFacts DEF IInv, WaitSleep, Running
<1>1. TypeOK'
  BY DEF TypeOK
<1>2. WaitLockInv' /\ PlockInv'
  BY DEF WaitLockInv, PlockInv, TypeOK
<1>3. StateInv' /\ InitInv'
  BY DEF StateInv, InitInv
<1>4. ForkInv'
  BY DEF ForkInv, Forking
<1>5. LinkInv'
  BY DEF LinkInv, Live, Unlinked
<1>6. NapInv'
  BY DEF NapInv, Children
<1>7. PidInv' /\ PidsDistinct'
  BY DEF PidInv, PidsDistinct, Live
<1>8. UnusedKilled' /\ KilledByName'
  BY DEF UnusedKilled, KilledByName, Live
<1> QED
  BY <1>1, <1>2, <1>3, <1>4, <1>5, <1>6, <1>7, <1>8

(* The process sleeps.                                                     *)
LEMMA FallAsleepIInv ==
  ASSUME IInv, NEW p \in Slot, FallAsleep(p)
  PROVE  IInv'
<1> USE SlotFacts DEF IInv, FallAsleep, Running
<1>1. TypeOK'
  BY DEF TypeOK
<1>2. WaitLockInv' /\ PlockInv'
  BY DEF WaitLockInv, PlockInv, TypeOK
<1>3. StateInv' /\ InitInv'
  BY DEF StateInv, InitInv, TypeOK
<1>4. ForkInv'
  BY DEF ForkInv, Forking
<1>5. LinkInv'
  BY DEF LinkInv, Live, Unlinked
<1>6. NapInv'
  BY DEF NapInv, Children
<1>7. PidInv' /\ PidsDistinct'
  BY DEF PidInv, PidsDistinct, Live
<1>8. UnusedKilled' /\ KilledByName'
  BY DEF UnusedKilled, KilledByName, Live
<1> QED
  BY <1>1, <1>2, <1>3, <1>4, <1>5, <1>6, <1>7, <1>8

(* The scheduler runs a ready process.                                     *)
LEMMA DispatchIInv ==
  ASSUME IInv, NEW p \in Slot, Dispatch(p)
  PROVE  IInv'
<1> USE SlotFacts DEF IInv, Dispatch
<1>1. TypeOK'
  BY DEF TypeOK
<1>2. WaitLockInv' /\ PlockInv'
  BY DEF WaitLockInv, PlockInv
<1>3. StateInv' /\ InitInv'
  BY DEF StateInv, InitInv
<1>4. ForkInv'
  BY DEF ForkInv, Forking
<1>5. LinkInv'
  BY DEF LinkInv, Live, Unlinked
<1>6. NapInv'
  BY DEF NapInv, Children
<1>7. PidInv' /\ PidsDistinct'
  BY DEF PidInv, PidsDistinct, Live
<1>8. UnusedKilled' /\ KilledByName'
  BY DEF UnusedKilled, KilledByName, Live
<1> QED
  BY <1>1, <1>2, <1>3, <1>4, <1>5, <1>6, <1>7, <1>8

(* kill() marks the entry that has the pid, and wakes it.                  *)
LEMMA KillIInv ==
  ASSUME IInv, NEW p \in Slot, NEW t \in KillPids, Kill(p, t)
  PROVE  IInv'
<1> USE SlotFacts DEF IInv, Kill, MayCall
<1>1. TypeOK'
  <2>1. t \in 0 .. MAXPID
    BY DEF TypeOK
  <2>2. named' \subseteq 0 .. MAXPID
    BY <2>1 DEF TypeOK
  <2>3. killed' \in [Slot -> BOOLEAN]
    BY DEF TypeOK
  <2> QED
    BY <2>2, <2>3 DEF TypeOK
<1>2. WaitLockInv' /\ PlockInv'
  BY DEF WaitLockInv, PlockInv
<1>3. StateInv' /\ InitInv'
  BY DEF StateInv, InitInv
<1>4. ForkInv'
  BY DEF ForkInv, Forking
<1>5. LinkInv'
  BY DEF LinkInv, Live, Unlinked
<1>6. NapInv'
  BY DEF NapInv, Children
<1>7. PidInv' /\ PidsDistinct'
  BY DEF PidInv, PidsDistinct, Live
<1>8. UnusedKilled' /\ KilledByName'
  BY DEF UnusedKilled, KilledByName, Live, PidInv
<1> QED
  BY <1>1, <1>2, <1>3, <1>4, <1>5, <1>6, <1>7, <1>8

(* A fault marks the process itself.                                       *)
LEMMA FaultIInv ==
  ASSUME IInv, NEW p \in Slot, Fault(p)
  PROVE  IInv'
<1>1. TypeOK'
  <2>1. /\ killed' = [killed EXCEPT ![p] = TRUE] /\ named' = named \cup {pid[p]}
        /\ UNCHANGED <<state, pid, parent, pc, np, plock, wait_lock, nextpid, shell, panicked>>
    BY DEF Fault
  <2>2. killed' \in [Slot -> BOOLEAN]
    BY <2>1 DEF IInv, TypeOK
  <2>3. named' \subseteq 0 .. MAXPID
    BY <2>1 DEF IInv, TypeOK
  <2> QED
    BY <2>1, <2>2, <2>3 DEF IInv, TypeOK
<1> USE SlotFacts DEF IInv, Fault, MayCall, Running
<1>2. WaitLockInv' /\ PlockInv'
  BY DEF WaitLockInv, PlockInv
<1>3. StateInv' /\ InitInv'
  BY DEF StateInv, InitInv
<1>4. ForkInv'
  BY DEF ForkInv, Forking
<1>5. LinkInv'
  BY DEF LinkInv, Live, Unlinked
<1>6. NapInv'
  BY DEF NapInv, Children
<1>7. PidInv' /\ PidsDistinct'
  BY DEF PidInv, PidsDistinct, Live
<1>8. UnusedKilled' /\ KilledByName'
  BY DEF UnusedKilled, KilledByName, Live
<1> QED
  BY <1>1, <1>2, <1>3, <1>4, <1>5, <1>6, <1>7, <1>8

(* At boot init is the only process.                                       *)
LEMMA InitIInv == Init => IInv
<1> SUFFICES ASSUME Init PROVE IInv
  OBVIOUS
<1> USE SlotFacts, ProcAssumption DEF Init, Live
<1>1. TypeOK
  <2>1. 0 \in 0 .. MAXPID /\ 1 \in 0 .. MAXPID /\ 2 \in 1 .. MAXPID + 1 /\ None = 0
    BY DEF None
  <2>2. pid \in [Slot -> 0 .. MAXPID]
    BY <2>1
  <2> QED
    BY <2>1, <2>2 DEF TypeOK
<1>2. WaitLockInv /\ PlockInv /\ StateInv /\ InitInv
  BY DEF WaitLockInv, PlockInv, StateInv, InitInv
<1>3. ForkInv /\ LinkInv /\ NapInv
  BY DEF ForkInv, Forking, LinkInv, NapInv
<1>4. PidInv /\ PidsDistinct /\ UnusedKilled /\ KilledByName
  BY DEF PidInv, PidsDistinct, UnusedKilled, KilledByName
<1> QED
  BY <1>1, <1>2, <1>3, <1>4 DEF IInv

(* Every step of every process keeps the invariant.                        *)
LEMMA NextIInv == IInv /\ [Next]_vars => IInv'
<1> SUFFICES ASSUME IInv, [Next]_vars PROVE IInv'
  OBVIOUS
<1>1. CASE UNCHANGED vars
  <2> USE <1>1 DEF vars
  <2>1. TypeOK' /\ WaitLockInv' /\ PlockInv' /\ StateInv' /\ InitInv'
    BY DEF IInv, TypeOK, WaitLockInv, PlockInv, StateInv, InitInv
  <2>2. ForkInv' /\ LinkInv' /\ NapInv'
    BY DEF IInv, ForkInv, Forking, LinkInv, Live, Unlinked, NapInv, Children
  <2>3. PidInv' /\ PidsDistinct' /\ UnusedKilled' /\ KilledByName'
    BY DEF IInv, PidInv, PidsDistinct, UnusedKilled, KilledByName, Live
  <2> QED
    BY <2>1, <2>2, <2>3 DEF IInv
<1>2. ASSUME NEW p \in Slot, NEW t \in KillPids, Kill(p, t) PROVE IInv'
  BY <1>2, KillIInv
<1>3. ASSUME NEW p \in Slot, ForkAlloc(p) PROVE IInv'
  BY <1>3, ForkAllocIInv
<1>4. ASSUME NEW p \in Slot, ForkFails(p) PROVE IInv'
  BY <1>4, ForkFailsIInv
<1>5. ASSUME NEW p \in Slot, ForkNoMemory(p) PROVE IInv'
  BY <1>5, ForkNoMemoryIInv
<1>6. ASSUME NEW p \in Slot, ForkParent(p) PROVE IInv'
  BY <1>6, ForkParentIInv
<1>7. ASSUME NEW p \in Slot, ForkRunnable(p) PROVE IInv'
  BY <1>7, ForkRunnableIInv
<1>8. ASSUME NEW p \in Slot, Exit(p) PROVE IInv'
  BY <1>8, ExitIInv
<1>9. ASSUME NEW p \in Slot, Reparent(p) PROVE IInv'
  BY <1>9, ReparentIInv
<1>10. ASSUME NEW p \in Slot, WakeParent(p) PROVE IInv'
  BY <1>10, WakeParentIInv
<1>11. ASSUME NEW p \in Slot, BecomeZombie(p) PROVE IInv'
  BY <1>11, BecomeZombieIInv
<1>12. ASSUME NEW p \in Slot, LeaveCpu(p) PROVE IInv'
  BY <1>12, LeaveCpuIInv
<1>13. ASSUME NEW p \in Slot, WaitLock(p) PROVE IInv'
  BY <1>13, WaitLockIInv
<1>14. ASSUME NEW p \in Slot, Reap(p) PROVE IInv'
  BY <1>14, ReapIInv
<1>15. ASSUME NEW p \in Slot, ReapFault(p) PROVE IInv'
  BY <1>15, ReapFaultIInv
<1>16. ASSUME NEW p \in Slot, WaitError(p) PROVE IInv'
  BY <1>16, WaitErrorIInv
<1>17. ASSUME NEW p \in Slot, WaitCheck(p) PROVE IInv'
  BY <1>17, WaitCheckIInv
<1>18. ASSUME NEW p \in Slot, WaitSleep(p) PROVE IInv'
  BY <1>18, WaitSleepIInv
<1>19. ASSUME NEW p \in Slot, FallAsleep(p) PROVE IInv'
  BY <1>19, FallAsleepIInv
<1>20. ASSUME NEW p \in Slot, Dispatch(p) PROVE IInv'
  BY <1>20, DispatchIInv
<1>21. ASSUME NEW p \in Slot, Fault(p) PROVE IInv'
  BY <1>21, FaultIInv
<1> QED
  BY <1>1, <1>2, <1>3, <1>4, <1>5, <1>6, <1>7, <1>8, <1>9, <1>10, <1>11,
     <1>12, <1>13, <1>14, <1>15, <1>16, <1>17, <1>18, <1>19, <1>20, <1>21 DEF Next

(* The invariant holds in every state the table can reach.                 *)
THEOREM Invariance == Spec => []IInv
<1> QED
  BY InitIInv, NextIInv, PTL DEF Spec

(* kexit(), reparent(), kfork(): whatever exits, however it is ordered     *)
(* with forks and waits, every process but init has a parent that can      *)
(* reap it.                                                                *)
THEOREM AlwaysAParent == Spec => []ParentAlive
<1>1. IInv => ParentAlive
  BY DEF IInv, LinkInv, ParentAlive
<1> QED
  BY <1>1, Invariance, PTL

(* kwait(), kexit(): no exit falls between the scan of a wait() and its    *)
(* sleep.                                                                  *)
THEOREM NoExitMissed == Spec => []NoZombieMissed
<1>1. IInv => NoZombieMissed
  BY DEF IInv, NapInv, NoZombieMissed, Zombies, Children
<1> QED
  BY <1>1, Invariance, PTL

(* kwait(), sched(): an entry is not given back while a CPU is still on    *)
(* its kernel stack.                                                       *)
THEOREM StackInUse == Spec => []NotFreedOnCpu
<1>1. IInv => NotFreedOnCpu
  BY DEF IInv, PlockInv, StateInv, NotFreedOnCpu, Live
<1> QED
  BY <1>1, Invariance, PTL

(* allocpid(), freeproc(): live processes have pids of their own.          *)
THEOREM OwnPid == Spec => []PidsDistinct
<1> QED
  BY Invariance, PTL DEF IInv

(* kkill(), freeproc(), allocproc(): no kill reaches a later tenant of an  *)
(* entry, but for kill(0).                                                 *)
THEOREM KilledOnPurpose == Spec => []KilledByName
<1> QED
  BY Invariance, PTL DEF IInv

----------------------------------------------------------------------------
(***************************************************************************)
(* RespCache for any number of agents and queries and any size of the      *)
(* table and of the file: whom the cache serves what, and what survives    *)
(* RAM.                                                                    *)
(***************************************************************************)

(* A set of natural numbers has a least member.                            *)
LEMMA LeastExists ==
  ASSUME NEW T, T \subseteq Nat, T # {}
  PROVE  \E x \in T : \A y \in T : x <= y
<1> DEFINE Less == {ss \in Nat \X Nat : ss[1] < ss[2]}
<1>1. IsWellFoundedOn(Less, Nat)
  BY NatLessThanWellFounded DEF OpToRel
<1>2. \A x, y \in Nat : y < x => <<y, x>> \in Less
  OBVIOUS
<1> HIDE DEF Less
<1>3. PICK x \in T : \A y \in T : ~(<<y, x>> \in Less)
  BY <1>1, WFMin
<1>4. ASSUME NEW y \in T PROVE x <= y
  <2>1. x \in Nat /\ y \in Nat
    OBVIOUS
  <2>2. ~(y < x)
    BY <1>2, <1>3, <2>1
  <2> QED
    BY <2>1, <2>2
<1> QED
  BY <1>4

(* FirstOf() is a member. *)
LEMMA FirstOfIn ==
  ASSUME NEW T, T \subseteq Nat, T # {}
  PROVE  FirstOf(T) \in T
<1>1. \E x \in T : \A y \in T : x <= y
  BY LeastExists
<1> QED
  BY <1>1 DEF FirstOf

(* LastOf() is a member. *)
LEMMA LastOfIn ==
  ASSUME NEW m \in Nat, NEW T, T \subseteq 1 .. m, T # {}
  PROVE  LastOf(T) \in T
<1> DEFINE U == {k \in Nat : \E x \in T : k = m - x}
<1>1. U # {}
  <2>1. PICK x \in T : TRUE
    OBVIOUS
  <2>2. m - x \in Nat
    BY <2>1
  <2> QED
    BY <2>1, <2>2
<1>2. PICK k \in U : \A j \in U : k <= j
  <2> HIDE DEF U
  <2>1. U \subseteq Nat
    BY DEF U
  <2> QED
    BY <1>1, <2>1, LeastExists
<1>3. PICK x \in T : k = m - x
  BY <1>2
<1>4. \A y \in T : m - y \in U /\ y \in Nat
  OBVIOUS
<1>5. \A y \in T : y <= x
  <2> HIDE DEF U
  <2> QED
    BY <1>2, <1>3, <1>4
<1> QED
  BY <1>3, <1>5 DEF LastOf


(* A record is the answer to a query, and no free slot looks like one.     *)
LEMMA RecordFacts ==
  ASSUME NEW r \in Record
  PROVE  Key(r) \in Query /\ Key(r) # Key(Empty) /\ r # Empty
<1>1. PICK q \in Query, i \in 1 .. Answers : r = [role |-> q.role, prompt |-> q.prompt, n |-> i]
  BY DEF Record
<1>2. Key(r) = [role |-> q.role, prompt |-> q.prompt]
  BY <1>1 DEF Key
<1>3. Key(r) = q
  BY <1>2, CacheAssumption
<1>4. Key(Empty) = [role |-> "", prompt |-> ""]
  BY DEF Key, Empty
<1> QED
  BY <1>3, <1>4, CacheAssumption

(* ram_put() changes one slot at most, to r, and keeps the keys apart.     *)
LEMMA RamPut ==
  ASSUME CacheTypeOK, UniqueKeys, NEW r \in Record, ram_put(r)
  PROVE  /\ slot' \in [1 .. NSLOT -> Record \cup {Empty}]
         /\ UniqueKeys'
         /\ \A i \in 1 .. NSLOT : slot'[i] = slot[i] \/ slot'[i] = r
<1> DEFINE X == Exact(Key(r), slot)
<1>1. /\ slot \in [1 .. NSLOT -> Record \cup {Empty}] /\ r # Empty /\ NSLOT \in Nat
      /\ Key(r) # Key(Empty)
  BY RecordFacts, CacheAssumption DEF CacheTypeOK
<1>2. X = {i \in 1 .. NSLOT : Key(slot[i]) = Key(r)}
  BY <1>1 DEF Exact
<1>3. slot' = IF X # {} THEN [slot EXCEPT ![FirstOf(X)] = r]
              ELSE IF Free # {} THEN [slot EXCEPT ![FirstOf(Free)] = r] ELSE slot
  BY DEF ram_put
<1>4. (X # {} => FirstOf(X) \in X) /\ (Free # {} => FirstOf(Free) \in Free)
  <2>1. X \subseteq Nat /\ Free \subseteq Nat
    BY <1>1, <1>2 DEF Free
  <2> HIDE DEF X
  <2> QED
    BY <2>1, FirstOfIn
<1> HIDE DEF X
<1>5. CASE X # {}
  <2> DEFINE k == FirstOf(X)
  <2>1. k \in 1 .. NSLOT /\ Key(slot[k]) = Key(r)
    BY <1>2, <1>4, <1>5
  <2> HIDE DEF k
  <2>2. slot' = [slot EXCEPT ![k] = r]
    BY <1>3, <1>5 DEF k
  <2>3. slot[k] # Empty
    BY <1>1, <2>1
  <2>4. \A i \in 1 .. NSLOT : /\ Key(slot'[i]) = Key(slot[i])
                              /\ slot'[i] # Empty => slot[i] # Empty
    BY <1>1, <2>1, <2>2, <2>3
  <2>5. UniqueKeys'
    BY <2>4 DEF UniqueKeys
  <2> QED
    BY <1>1, <2>1, <2>2, <2>5
<1>6. CASE X = {} /\ Free # {}
  <2> DEFINE k == FirstOf(Free)
  <2>1. k \in 1 .. NSLOT /\ slot[k] = Empty
    BY <1>4, <1>6 DEF Free
  <2> HIDE DEF k
  <2>2. slot' = [slot EXCEPT ![k] = r]
    BY <1>3, <1>6 DEF k
  <2>3. \A i \in 1 .. NSLOT : Key(slot[i]) # Key(r)
    BY <1>2, <1>6
  <2>4. \A i \in 1 .. NSLOT : slot'[i] = IF i = k THEN r ELSE slot[i]
    BY <1>1, <2>2
  <2>5. UniqueKeys'
    BY <1>1, <2>1, <2>3, <2>4 DEF UniqueKeys
  <2> QED
    BY <1>1, <2>1, <2>2, <2>5
<1>7. CASE X = {} /\ Free = {}
  BY <1>1, <1>3, <1>7 DEF UniqueKeys
<1> QED
  BY <1>5, <1>6, <1>7

(* What an agent has in hand before it puts, sets or appends it.           *)
LEMMA HandFacts ==
  ASSUME CacheIInv, NEW a \in Agent, apc[a] \in {"promote", "set", "append"}
  PROVE  rec[a] \in Record
  BY DEF CacheIInv, HandInv, CacheTypeOK


(* cache_get() under cache.lock                                            *)
LEMMA GetRamIInv ==
  ASSUME CacheIInv, NEW a \in Agent, NEW q \in Query, GetRam(a, q)
  PROVE  CacheIInv'
<1>1. /\ apc[a] = "idle" /\ query' = [query EXCEPT ![a] = q]
      /\ UNCHANGED <<slot, disk, lost>>
      /\ \/ \E i \in 1 .. NSLOT : /\ apc' = [apc EXCEPT ![a] = "hit"]
                                  /\ rec' = [rec EXCEPT ![a] = slot[i]]
                                  /\ Key(slot[i]) = q \/ SemanticHit(q, slot, i)
         \/ apc' = [apc EXCEPT ![a] = "scan"] /\ UNCHANGED rec
  BY DEF GetRam, Hit, Goto, Exact, CacheIInv, CacheTypeOK
<1>2. overlapped' = (overlapped \/ \E b \in Agent \ {a} : apc[b] \in InCall)
  BY DEF GetRam, Begin
<1>3. /\ apc' \in [Agent -> InCall \cup {"idle", "host", "set", "hit"}]
      /\ rec' \in [Agent -> Record \cup {Empty}]
      /\ query' \in [Agent -> Query]
      /\ apc'[a] \in {"hit", "scan"} /\ query'[a] = q
      /\ \A b \in Agent : b # a => apc'[b] = apc[b] /\ rec'[b] = rec[b] /\ query'[b] = query[b]
  BY <1>1 DEF CacheIInv, CacheTypeOK, InCall
<1>4. CacheTypeOK'
  <2>1. overlapped' \in BOOLEAN
    BY <1>2
  <2> QED
    BY <1>1, <1>3, <2>1 DEF CacheIInv, CacheTypeOK
<1>5. HandInv'
  <2>1. apc'[a] = "hit" => Serves(a)'
    <3> SUFFICES ASSUME apc'[a] = "hit" PROVE Serves(a)'
      OBVIOUS
    <3>1. PICK i \in 1 .. NSLOT : /\ rec' = [rec EXCEPT ![a] = slot[i]]
                                  /\ Key(slot[i]) = q \/ SemanticHit(q, slot, i)
      BY <1>1 DEF CacheIInv, CacheTypeOK
    <3>2. rec'[a] = slot[i]
      BY <3>1 DEF CacheIInv, CacheTypeOK
    <3>3. CASE Key(slot[i]) = q
      BY <1>3, <3>2, <3>3 DEF Serves, Key
    <3>4. CASE SemanticHit(q, slot, i)
      BY <1>3, <3>2, <3>4 DEF Serves, SemanticHit
    <3> QED
      BY <3>1, <3>3, <3>4
  <2>2. \A b \in Agent : b # a => (Serves(b)' <=> Serves(b))
    BY <1>3 DEF Serves
  <2> QED
    BY <1>3, <2>1, <2>2 DEF CacheIInv, HandInv
<1>6. AloneInv'
  <2> SUFFICES ASSUME ~overlapped', ~lost' PROVE AloneInv'
    BY DEF AloneInv
  <2>1. ~overlapped /\ ~lost /\ \A b \in Agent : b # a => apc[b] \notin InCall
    BY <1>1, <1>2
  <2>2. \A b \in Agent : apc'[b] \notin {"append", "promote", "truncate"}
    BY <1>3, <2>1 DEF InCall
  <2>3. \A b \in Agent : apc[b] # "append"
    BY <1>1, <2>1 DEF InCall
  <2>4. \A r : OnDisk(r)' <=> OnDisk(r)
    BY <1>1 DEF OnDisk
  <2> QED
    BY <1>1, <1>3, <2>1, <2>2, <2>3, <2>4 DEF CacheIInv, AloneInv
<1>7. UniqueKeys'
  BY <1>1 DEF CacheIInv, UniqueKeys
<1> QED
  BY <1>4, <1>5, <1>6, <1>7 DEF CacheIInv

(* cache_disk_scan()                                                       *)
LEMMA ScanIInv ==
  ASSUME CacheIInv, NEW a \in Agent, Scan(a)
  PROVE  CacheIInv'
<1> DEFINE q == query[a]
<1>1. /\ apc[a] = "scan" /\ UNCHANGED <<slot, disk, query, overlapped, lost>>
      /\ \/ \E i \in DOMAIN disk : /\ apc' = [apc EXCEPT ![a] = "promote"]
                                   /\ rec' = [rec EXCEPT ![a] = disk[i]]
                                   /\ Key(disk[i]) = q \/ SemanticHit(q, disk, i)
         \/ apc' = [apc EXCEPT ![a] = "host"] /\ UNCHANGED rec
  <2>1. Exact(q, disk) # {} => LastOf(Exact(q, disk)) \in Exact(q, disk)
    <3>1. DOMAIN disk = 1 .. Len(disk) /\ Len(disk) \in Nat
      BY DEF CacheIInv, CacheTypeOK
    <3>2. Exact(q, disk) \subseteq 1 .. Len(disk)
      BY <3>1 DEF Exact
    <3> QED
      BY <3>1, <3>2, LastOfIn
  <2>2. \A i \in Exact(q, disk) : i \in DOMAIN disk /\ Key(disk[i]) = q
    BY DEF Exact
  <2> QED
    BY <2>1, <2>2 DEF Scan, Goto
<1> HIDE DEF q
<1>2. /\ apc' \in [Agent -> InCall \cup {"idle", "host", "set", "hit"}]
      /\ rec' \in [Agent -> Record \cup {Empty}]
      /\ apc'[a] \in {"promote", "host"}
      /\ \A b \in Agent : b # a => apc'[b] = apc[b] /\ rec'[b] = rec[b]
  BY <1>1 DEF CacheIInv, CacheTypeOK, InCall
<1>3. CacheTypeOK'
  BY <1>1, <1>2 DEF CacheIInv, CacheTypeOK
<1>4. apc'[a] = "promote" => OnDisk(rec'[a]) /\ rec'[a] \in Record /\ Serves(a)'
  <2> SUFFICES ASSUME apc'[a] = "promote"
               PROVE  OnDisk(rec'[a]) /\ rec'[a] \in Record /\ Serves(a)'
    OBVIOUS
  <2>1. PICK i \in DOMAIN disk : /\ rec' = [rec EXCEPT ![a] = disk[i]]
                                 /\ Key(disk[i]) = q \/ SemanticHit(q, disk, i)
    BY <1>1 DEF CacheIInv, CacheTypeOK
  <2>2. rec'[a] = disk[i] /\ query'[a] = q
    BY <1>1, <2>1 DEF CacheIInv, CacheTypeOK, q
  <2>3. Key(disk[i]) = q => Serves(a)'
    BY <2>2 DEF Serves, Key
  <2>4. SemanticHit(q, disk, i) => Serves(a)'
    BY <2>2 DEF Serves, SemanticHit
  <2>5. OnDisk(rec'[a]) /\ rec'[a] \in Record
    BY <2>1, <2>2 DEF CacheIInv, CacheTypeOK, OnDisk
  <2> QED
    BY <2>1, <2>3, <2>4, <2>5
<1>5. HandInv'
  <2>1. \A b \in Agent : b # a => (Serves(b)' <=> Serves(b))
    BY <1>1, <1>2 DEF Serves
  <2> QED
    BY <1>2, <1>4, <2>1, RecordFacts DEF CacheIInv, HandInv
<1>6. AloneInv'
  <2> SUFFICES ASSUME ~overlapped', ~lost' PROVE AloneInv'
    BY DEF AloneInv
  <2>1. ~overlapped /\ ~lost /\ \A b \in Agent : b # a => apc[b] \notin InCall
    BY <1>1 DEF CacheIInv, AloneInv, InCall
  <2>2. \A b \in Agent : apc'[b] \notin {"append", "truncate"} /\ (apc'[b] = "promote" => b = a)
    BY <1>2, <2>1 DEF InCall
  <2>3. \A b \in Agent : apc[b] # "append"
    BY <1>1, <2>1 DEF InCall
  <2>4. \A r : OnDisk(r)' <=> OnDisk(r)
    BY <1>1 DEF OnDisk
  <2> QED
    BY <1>1, <1>2, <1>4, <2>1, <2>2, <2>3, <2>4 DEF CacheIInv, AloneInv
<1>7. UniqueKeys'
  BY <1>1 DEF CacheIInv, UniqueKeys
<1> QED
  BY <1>3, <1>5, <1>6, <1>7 DEF CacheIInv

(* The hit goes back into RAM.                                             *)
LEMMA PromoteIInv ==
  ASSUME CacheIInv, NEW a \in Agent, Promote(a)
  PROVE  CacheIInv'
<1>1. /\ apc[a] = "promote" /\ ram_put(rec[a]) /\ apc' = [apc EXCEPT ![a] = "hit"]
      /\ UNCHANGED <<disk, query, rec, overlapped, lost>>
  BY DEF Promote, Goto
<1>2. rec[a] \in Record
  BY <1>1, HandFacts
<1>3. CacheTypeOK /\ UniqueKeys
  BY DEF CacheIInv
<1>4. /\ slot' \in [1 .. NSLOT -> Record \cup {Empty}]
      /\ UniqueKeys'
      /\ \A i \in 1 .. NSLOT : slot'[i] = slot[i] \/ slot'[i] = rec[a]
  BY <1>1, <1>2, <1>3, RamPut
<1>5. /\ apc' \in [Agent -> InCall \cup {"idle", "host", "set", "hit"}]
      /\ apc'[a] = "hit" /\ \A b \in Agent : b # a => apc'[b] = apc[b]
  BY <1>1 DEF CacheIInv, CacheTypeOK
<1>6. CacheTypeOK'
  BY <1>1, <1>4, <1>5 DEF CacheIInv, CacheTypeOK
<1>7. HandInv'
  <2>1. \A b \in Agent : Serves(b)' <=> Serves(b)
    BY <1>1 DEF Serves
  <2> QED
    BY <1>1, <1>5, <2>1 DEF CacheIInv, HandInv
<1>8. AloneInv'
  <2> SUFFICES ASSUME ~overlapped', ~lost' PROVE AloneInv'
    BY DEF AloneInv
  <2>1. /\ ~overlapped /\ ~lost /\ OnDisk(rec[a])
        /\ \A b \in Agent : b # a => apc[b] \notin InCall
    BY <1>1 DEF CacheIInv, AloneInv, InCall
  <2>2. \A b \in Agent : apc'[b] \notin InCall
    BY <1>5, <2>1 DEF InCall
  <2>3. \A b \in Agent : apc[b] # "append"
    BY <1>1, <2>1 DEF InCall
  <2>4. \A r : OnDisk(r)' <=> OnDisk(r)
    BY <1>1 DEF OnDisk
  <2>5. \A i \in 1 .. NSLOT : slot'[i] # Empty => OnDisk(slot'[i])
    BY <1>4, <2>1, <2>3 DEF CacheIInv, AloneInv
  <2> QED
    BY <2>2, <2>4, <2>5 DEF AloneInv, InCall
<1> QED
  BY <1>4, <1>6, <1>7, <1>8 DEF CacheIInv

(* The steps that leave both tables and the calls in progress alone.       *)
LEMMA OutsideIInv ==
  ASSUME CacheIInv, NEW a \in Agent,
         UNCHANGED <<slot, disk, query, overlapped, lost>>,
         apc[a] \notin InCall,
         NEW l \in {"idle", "set"}, apc' = [apc EXCEPT ![a] = l],
         NEW r \in Record \cup {Empty}, rec' = [rec EXCEPT ![a] = r],
         l = "set" => r # Empty
  PROVE  CacheIInv'
<1>1. /\ apc' \in [Agent -> InCall \cup {"idle", "host", "set", "hit"}]
      /\ rec' \in [Agent -> Record \cup {Empty}]
      /\ apc'[a] = l /\ rec'[a] = r
      /\ \A b \in Agent : b # a => apc'[b] = apc[b] /\ rec'[b] = rec[b]
  BY DEF CacheIInv, CacheTypeOK
<1>2. CacheTypeOK'
  BY <1>1 DEF CacheIInv, CacheTypeOK
<1>3. HandInv'
  <2>1. \A b \in Agent : b # a => (Serves(b)' <=> Serves(b))
    BY <1>1 DEF Serves
  <2> QED
    BY <1>1, <2>1 DEF CacheIInv, HandInv
<1>4. AloneInv'
  <2> SUFFICES ASSUME ~overlapped', ~lost' PROVE AloneInv'
    BY DEF AloneInv
  <2>1. \A x : OnDisk(x)' <=> OnDisk(x)
    BY DEF OnDisk
  <2>2. \A b \in Agent : apc'[b] \in InCall => b # a /\ apc'[b] = apc[b] /\ rec'[b] = rec[b]
    BY <1>1 DEF InCall
  <2>3. \A b \in Agent : apc[b] \in InCall => b # a /\ apc'[b] = apc[b] /\ rec'[b] = rec[b]
    BY <1>1
  <2> QED
    BY <2>1, <2>2, <2>3 DEF CacheIInv, AloneInv, InCall
<1>5. UniqueKeys'
  BY DEF CacheIInv, UniqueKeys
<1> QED
  BY <1>2, <1>3, <1>4, <1>5 DEF CacheIInv

(* The answer of the host is a record of the agent's own query.            *)
LEMMA AnswerIInv ==
  ASSUME CacheIInv, NEW a \in Agent, NEW n \in 1 .. Answers, Answer(a, n)
  PROVE  CacheIInv'
<1> DEFINE r == [role |-> query[a].role, prompt |-> query[a].prompt, n |-> n]
<1>1. query[a] \in Query
  BY DEF CacheIInv, CacheTypeOK
<1>2. r \in Record
  BY <1>1 DEF Record
<1>3. /\ UNCHANGED <<slot, disk, query, overlapped, lost>>
      /\ apc[a] \notin InCall
      /\ apc' = [apc EXCEPT ![a] = "set"]
      /\ rec' = [rec EXCEPT ![a] = r]
  BY DEF Answer, Goto, InCall
<1> HIDE DEF r
<1>4. r # Empty
  BY <1>2, RecordFacts
<1> QED
  BY <1>2, <1>3, <1>4, OutsideIInv

(* The end of proxy_call(), with an answer or without.                     *)
LEMMA EndIInv ==
  ASSUME CacheIInv, NEW a \in Agent, Return(a) \/ NoAnswer(a)
  PROVE  CacheIInv'
<1> DEFINE r == IF apc[a] = "hit" THEN Empty ELSE rec[a]
<1>1. r \in Record \cup {Empty}
  BY DEF CacheIInv, CacheTypeOK
<1>2. /\ UNCHANGED <<slot, disk, query, overlapped, lost>>
      /\ apc[a] \notin InCall
      /\ apc' = [apc EXCEPT ![a] = "idle"]
      /\ rec' = [rec EXCEPT ![a] = r]
  BY DEF Return, NoAnswer, Goto, InCall, CacheIInv, CacheTypeOK
<1> HIDE DEF r
<1> QED
  BY <1>1, <1>2, OutsideIInv

(* cache_set() under cache.lock                                            *)
LEMMA SetRamIInv ==
  ASSUME CacheIInv, NEW a \in Agent, SetRam(a)
  PROVE  CacheIInv'
<1>1. /\ apc[a] = "set" /\ UNCHANGED <<disk, query, lost>>
      /\ overlapped' = (overlapped \/ \E b \in Agent \ {a} : apc[b] \in InCall)
      /\ \/ ram_put(rec[a]) /\ apc' = [apc EXCEPT ![a] = "append"] /\ UNCHANGED rec
         \/ apc' = [apc EXCEPT ![a] = "idle"] /\ rec' = [rec EXCEPT ![a] = Empty] /\ UNCHANGED slot
  BY DEF SetRam, Begin, Goto
<1>2. rec[a] \in Record
  BY <1>1, HandFacts
<1>3. CacheTypeOK /\ UniqueKeys
  BY DEF CacheIInv
<1>4. overlapped' \in BOOLEAN
  BY <1>1
<1>5. CASE ram_put(rec[a]) /\ apc' = [apc EXCEPT ![a] = "append"] /\ UNCHANGED rec
  <2>1. /\ slot' \in [1 .. NSLOT -> Record \cup {Empty}]
        /\ UniqueKeys'
        /\ \A i \in 1 .. NSLOT : slot'[i] = slot[i] \/ slot'[i] = rec[a]
    BY <1>2, <1>3, <1>5, RamPut
  <2>2. /\ apc' \in [Agent -> InCall \cup {"idle", "host", "set", "hit"}]
        /\ apc'[a] = "append" /\ \A b \in Agent : b # a => apc'[b] = apc[b]
    BY <1>5 DEF CacheIInv, CacheTypeOK, InCall
  <2>3. CacheTypeOK'
    BY <1>1, <1>4, <1>5, <2>1, <2>2 DEF CacheIInv, CacheTypeOK
  <2>4. HandInv'
    <3>1. \A b \in Agent : Serves(b)' <=> Serves(b)
      BY <1>1, <1>5 DEF Serves
    <3> QED
      BY <1>1, <1>5, <2>2, <3>1 DEF CacheIInv, HandInv
  <2>5. AloneInv'
    <3> SUFFICES ASSUME ~overlapped', ~lost' PROVE AloneInv'
      BY DEF AloneInv
    <3>1. ~overlapped /\ ~lost /\ \A b \in Agent : b # a => apc[b] \notin InCall
      BY <1>1
    <3>2. \A b \in Agent : apc'[b] \in InCall => b = a
      BY <2>2, <3>1
    <3>3. \A b \in Agent : apc[b] # "append"
      BY <1>1, <3>1 DEF InCall
    <3>4. \A r : OnDisk(r)' <=> OnDisk(r)
      BY <1>1 DEF OnDisk
    <3>5. \A i \in 1 .. NSLOT : (slot[i] # Empty => OnDisk(slot[i]) \/ slot[i] = rec[a])'
      BY <1>5, <2>1, <3>1, <3>3, <3>4 DEF CacheIInv, AloneInv
    <3>6. \A b \in Agent : apc'[b] \notin {"promote", "truncate"}
      BY <2>2, <3>2 DEF InCall
    <3> QED
      BY <2>2, <3>2, <3>5, <3>6 DEF AloneInv
  <2> QED
    BY <2>1, <2>3, <2>4, <2>5 DEF CacheIInv
<1>6. CASE apc' = [apc EXCEPT ![a] = "idle"] /\ rec' = [rec EXCEPT ![a] = Empty] /\ UNCHANGED slot
  <2>1. /\ apc' \in [Agent -> InCall \cup {"idle", "host", "set", "hit"}]
        /\ rec' \in [Agent -> Record \cup {Empty}]
        /\ apc'[a] = "idle"
        /\ \A b \in Agent : b # a => apc'[b] = apc[b] /\ rec'[b] = rec[b]
    BY <1>6 DEF CacheIInv, CacheTypeOK
  <2>2. CacheTypeOK'
    BY <1>1, <1>4, <1>6, <2>1 DEF CacheIInv, CacheTypeOK
  <2>3. HandInv'
    <3>1. \A b \in Agent : b # a => (Serves(b)' <=> Serves(b))
      BY <1>1, <2>1 DEF Serves
    <3> QED
      BY <2>1, <3>1 DEF CacheIInv, HandInv
  <2>4. AloneInv'
    <3> SUFFICES ASSUME ~overlapped', ~lost' PROVE AloneInv'
      BY DEF AloneInv
    <3>1. ~overlapped /\ ~lost /\ \A b \in Agent : b # a => apc[b] \notin InCall
      BY <1>1
    <3>2. \A b \in Agent : apc'[b] \notin InCall /\ apc[b] \notin InCall
      BY <1>1, <2>1, <3>1 DEF InCall
    <3>3. \A r : OnDisk(r)' <=> OnDisk(r)
      BY <1>1 DEF OnDisk
    <3> QED
      BY <1>6, <3>1, <3>2, <3>3 DEF CacheIInv, AloneInv, InCall
  <2>5. UniqueKeys'
    BY <1>6 DEF CacheIInv, UniqueKeys
  <2> QED
    BY <2>2, <2>3, <2>4, <2>5 DEF CacheIInv
<1> QED
  BY <1>1, <1>5, <1>6

(* cache_disk_append(), and its failure                                    *)
LEMMA AppendIInv ==
  ASSUME CacheIInv, NEW a \in Agent, DiskAppend(a) \/ AppendFails(a)
  PROVE  CacheIInv'
<1>1. /\ apc[a] = "append" /\ UNCHANGED <<slot, query, overlapped>>
      /\ apc' = [apc EXCEPT ![a] = "idle"] /\ rec' = [rec EXCEPT ![a] = Empty]
  BY DEF DiskAppend, AppendFails, Goto
<1>2. lost' \in BOOLEAN /\ (lost => lost')
  BY DEF DiskAppend, AppendFails, CacheIInv, CacheTypeOK
<1>3. \/ disk' = disk /\ lost'
      \/ disk' = Append(disk, rec[a]) /\ Len(disk) < MAXREC
  <2>1. disk \in Seq(Record) /\ MAXREC \in Nat /\ Len(disk) <= MAXREC
    BY CacheAssumption DEF CacheIInv, CacheTypeOK
  <2>2. Len(disk) < MAXREC \/ Len(disk) = MAXREC
    BY <2>1
  <2> QED
    BY <2>2 DEF DiskAppend, AppendFails
<1>4. rec[a] \in Record
  BY <1>1, HandFacts
<1>5. /\ apc' \in [Agent -> InCall \cup {"idle", "host", "set", "hit"}]
      /\ rec' \in [Agent -> Record \cup {Empty}]
      /\ apc'[a] = "idle"
      /\ \A b \in Agent : b # a => apc'[b] = apc[b] /\ rec'[b] = rec[b]
  BY <1>1 DEF CacheIInv, CacheTypeOK
<1>6. disk' \in Seq(Record) /\ Len(disk') <= MAXREC
  <2>1. disk \in Seq(Record) /\ Len(disk) <= MAXREC /\ MAXREC \in Nat
    BY CacheAssumption DEF CacheIInv, CacheTypeOK
  <2>2. CASE disk' = disk
    BY <2>1, <2>2
  <2>3. CASE disk' = Append(disk, rec[a]) /\ Len(disk) < MAXREC
    BY <1>4, <2>1, <2>3
  <2> QED
    BY <1>3, <2>2, <2>3
<1>7. CacheTypeOK'
  BY <1>1, <1>2, <1>5, <1>6 DEF CacheIInv, CacheTypeOK
<1>8. HandInv'
  <2>1. \A b \in Agent : b # a => (Serves(b)' <=> Serves(b))
    BY <1>1, <1>5 DEF Serves
  <2> QED
    BY <1>5, <2>1 DEF CacheIInv, HandInv
<1>9. AloneInv'
  <2> SUFFICES ASSUME ~overlapped', ~lost' PROVE AloneInv'
    BY DEF AloneInv
  <2>1. ~overlapped /\ ~lost /\ \A b \in Agent : b # a => apc[b] \notin InCall
    BY <1>1, <1>2 DEF CacheIInv, AloneInv, InCall
  <2>2. \A b \in Agent : apc'[b] \notin InCall
    BY <1>5, <2>1 DEF InCall
  <2>3. \A b \in Agent : apc[b] = "append" => b = a
    BY <2>1 DEF InCall
  <2>4. disk' = Append(disk, rec[a]) /\ disk \in Seq(Record)
    BY <1>3 DEF CacheIInv, CacheTypeOK
  <2>5. \A r : OnDisk(r) \/ r = rec[a] => OnDisk(r)'
    <3>1. Len(disk') = Len(disk) + 1 /\ disk'[Len(disk) + 1] = rec[a] /\ Len(disk) \in Nat
      BY <1>4, <2>4
    <3>2. \A j \in DOMAIN disk : j \in DOMAIN disk' /\ disk'[j] = disk[j]
      BY <1>4, <2>4
    <3>3. Len(disk) + 1 \in DOMAIN disk'
      BY <1>6, <3>1
    <3> QED
      BY <3>1, <3>2, <3>3 DEF OnDisk
  <2>6. \A i \in 1 .. NSLOT : slot[i] # Empty => OnDisk(slot[i]) \/ slot[i] = rec[a]
    BY <2>1, <2>3 DEF CacheIInv, AloneInv
  <2>7. \A i \in 1 .. NSLOT : (slot[i] # Empty => OnDisk(slot[i]))'
    BY <1>1, <2>5, <2>6
  <2> QED
    BY <2>2, <2>7 DEF AloneInv, InCall
<1>10. UniqueKeys'
  BY <1>1 DEF CacheIInv, UniqueKeys
<1> QED
  BY <1>7, <1>8, <1>9, <1>10 DEF CacheIInv

(* cache_clear(): the slots                                                *)
LEMMA ClearRamIInv ==
  ASSUME CacheIInv, NEW a \in Agent, NEW withDisk \in BOOLEAN, ClearRam(a, withDisk)
  PROVE  CacheIInv'
<1>1. /\ apc[a] = "idle" /\ UNCHANGED <<disk, query, rec, lost>>
      /\ overlapped' = (overlapped \/ \E b \in Agent \ {a} : apc[b] \in InCall)
      /\ slot' = [i \in 1 .. NSLOT |-> Empty]
  BY DEF ClearRam, Begin
<1>2. PICK l \in {"truncate", "idle"} : apc' = [apc EXCEPT ![a] = l]
  BY DEF ClearRam, Goto
<1>3. /\ apc' \in [Agent -> InCall \cup {"idle", "host", "set", "hit"}]
      /\ apc'[a] = l /\ \A b \in Agent : b # a => apc'[b] = apc[b]
  BY <1>2 DEF CacheIInv, CacheTypeOK, InCall
<1>4. /\ slot' \in [1 .. NSLOT -> Record \cup {Empty}]
      /\ \A i \in 1 .. NSLOT : slot'[i] = Empty
  BY <1>1
<1>5. overlapped' \in BOOLEAN
  BY <1>1
<1>6. CacheTypeOK'
  BY <1>1, <1>3, <1>4, <1>5 DEF CacheIInv, CacheTypeOK
<1>7. HandInv'
  <2>1. \A b \in Agent : Serves(b)' <=> Serves(b)
    BY <1>1 DEF Serves
  <2> QED
    BY <1>1, <1>3, <2>1 DEF CacheIInv, HandInv
<1>8. AloneInv'
  <2> SUFFICES ASSUME ~overlapped', ~lost' PROVE AloneInv'
    BY DEF AloneInv
  <2>1. \A b \in Agent : b # a => apc[b] \notin InCall
    BY <1>1
  <2>2. \A b \in Agent : apc'[b] \in InCall => b = a /\ apc'[b] = "truncate"
    BY <1>3, <2>1 DEF InCall
  <2> QED
    BY <1>4, <2>2 DEF AloneInv, InCall
<1>9. UniqueKeys'
  BY <1>4 DEF UniqueKeys
<1> QED
  BY <1>6, <1>7, <1>8, <1>9 DEF CacheIInv

(* cache_clear(): the file                                                 *)
LEMMA TruncateIInv ==
  ASSUME CacheIInv, NEW a \in Agent, Truncate(a)
  PROVE  CacheIInv'
<1>1. /\ apc[a] = "truncate" /\ UNCHANGED <<slot, query, rec, overlapped, lost>>
      /\ disk' = <<>> /\ apc' = [apc EXCEPT ![a] = "idle"]
  BY DEF Truncate, Goto
<1>2. /\ apc' \in [Agent -> InCall \cup {"idle", "host", "set", "hit"}]
      /\ apc'[a] = "idle" /\ \A b \in Agent : b # a => apc'[b] = apc[b]
  BY <1>1 DEF CacheIInv, CacheTypeOK
<1>3. disk' \in Seq(Record) /\ Len(disk') <= MAXREC
  <2>1. disk' = <<>> /\ MAXREC \in Nat
    BY <1>1, CacheAssumption
  <2> QED
    BY <2>1
<1>4. CacheTypeOK'
  BY <1>1, <1>2, <1>3 DEF CacheIInv, CacheTypeOK
<1>5. HandInv'
  <2>1. \A b \in Agent : Serves(b)' <=> Serves(b)
    BY <1>1 DEF Serves
  <2> QED
    BY <1>1, <1>2, <2>1 DEF CacheIInv, HandInv
<1>6. AloneInv'
  <2> SUFFICES ASSUME ~overlapped', ~lost' PROVE AloneInv'
    BY DEF AloneInv
  <2>1. /\ \A b \in Agent : b # a => apc[b] \notin InCall
        /\ \A i \in 1 .. NSLOT : slot[i] = Empty
    BY <1>1 DEF CacheIInv, AloneInv, InCall
  <2>2. \A b \in Agent : apc'[b] \notin InCall
    BY <1>2, <2>1 DEF InCall
  <2> QED
    BY <1>1, <2>1, <2>2 DEF AloneInv, InCall
<1>7. UniqueKeys'
  BY <1>1 DEF CacheIInv, UniqueKeys
<1> QED
  BY <1>4, <1>5, <1>6, <1>7 DEF CacheIInv

(* A restart, between any two steps                                        *)
LEMMA RebootIInv ==
  ASSUME CacheIInv, Reboot
  PROVE  CacheIInv'
<1>1. /\ UNCHANGED <<disk, query, overlapped, lost>>
      /\ slot' \in [1 .. NSLOT -> Record \cup {Empty}]
      /\ apc' \in [Agent -> InCall \cup {"idle", "host", "set", "hit"}]
      /\ rec' \in [Agent -> Record \cup {Empty}]
      /\ \A i \in 1 .. NSLOT : slot'[i] = Empty
      /\ \A b \in Agent : apc'[b] = "idle"
  BY DEF Reboot
<1>2. CacheTypeOK'
  BY <1>1 DEF CacheIInv, CacheTypeOK
<1>3. HandInv'
  BY <1>1 DEF HandInv
<1>4. AloneInv'
  BY <1>1 DEF AloneInv, InCall
<1>5. UniqueKeys'
  BY <1>1 DEF UniqueKeys
<1> QED
  BY <1>2, <1>3, <1>4, <1>5 DEF CacheIInv

(* The cache starts empty.                                                 *)
LEMMA InitCacheIInv == CacheInit => CacheIInv
<1> SUFFICES ASSUME CacheInit PROVE CacheIInv
  OBVIOUS
<1>1. query \in [Agent -> Query]
  <2>1. (CHOOSE q \in Query : TRUE) \in Query
    BY CacheAssumption
  <2> QED
    BY <2>1 DEF CacheInit
<1>2. /\ slot \in [1 .. NSLOT -> Record \cup {Empty}]
      /\ apc \in [Agent -> InCall \cup {"idle", "host", "set", "hit"}]
      /\ rec \in [Agent -> Record \cup {Empty}]
      /\ \A i \in 1 .. NSLOT : slot[i] = Empty
      /\ \A b \in Agent : apc[b] = "idle"
  BY DEF CacheInit
<1>3. disk \in Seq(Record) /\ Len(disk) <= MAXREC
  <2>1. disk = <<>> /\ MAXREC \in Nat
    BY CacheAssumption DEF CacheInit
  <2> QED
    BY <2>1
<1>4. overlapped \in BOOLEAN /\ lost \in BOOLEAN
  BY DEF CacheInit
<1> QED
  BY <1>1, <1>2, <1>3, <1>4 DEF CacheIInv, CacheTypeOK, HandInv, AloneInv, UniqueKeys, InCall

(* Every step keeps the invariant.                                         *)
LEMMA NextCacheIInv == CacheIInv /\ [CacheNext]_cachevars => CacheIInv'
<1> SUFFICES ASSUME CacheIInv, [CacheNext]_cachevars PROVE CacheIInv'
  OBVIOUS
<1>1. ASSUME NEW a \in Agent, NEW q \in Query, GetRam(a, q) PROVE CacheIInv'
  BY <1>1, GetRamIInv
<1>2. ASSUME NEW a \in Agent, NEW n \in 1 .. Answers, Answer(a, n) PROVE CacheIInv'
  BY <1>2, AnswerIInv
<1>3. ASSUME NEW a \in Agent, NEW withDisk \in BOOLEAN, ClearRam(a, withDisk) PROVE CacheIInv'
  BY <1>3, ClearRamIInv
<1>4. ASSUME NEW a \in Agent, Scan(a) PROVE CacheIInv'
  BY <1>4, ScanIInv
<1>5. ASSUME NEW a \in Agent, Promote(a) PROVE CacheIInv'
  BY <1>5, PromoteIInv
<1>6. ASSUME NEW a \in Agent, Return(a) \/ NoAnswer(a) PROVE CacheIInv'
  BY <1>6, EndIInv
<1>7. ASSUME NEW a \in Agent, SetRam(a) PROVE CacheIInv'
  BY <1>7, SetRamIInv
<1>8. ASSUME NEW a \in Agent, DiskAppend(a) \/ AppendFails(a) PROVE CacheIInv'
  BY <1>8, AppendIInv
<1>9. ASSUME NEW a \in Agent, Truncate(a) PROVE CacheIInv'
  BY <1>9, TruncateIInv
<1>10. CASE Reboot
  BY <1>10, RebootIInv
<1>11. CASE UNCHANGED cachevars
  <2> QED
    BY <1>11 DEF cachevars, CacheIInv, CacheTypeOK, HandInv, Serves, AloneInv, OnDisk, UniqueKeys
<1> QED
  BY <1>1, <1>2, <1>3, <1>4, <1>5, <1>6, <1>7, <1>8, <1>9, <1>10, <1>11 DEF CacheNext

(* The invariant of cache_get(), cache_set() and cache_clear(), in every   *)
(* interleaving of the agents' calls and with restarts between them.       *)
THEOREM CacheInvariance == CacheSpec => []CacheIInv
<1>1. CacheInit => CacheIInv
  BY InitCacheIInv
<1>2. CacheIInv /\ [CacheNext]_cachevars => CacheIInv'
  BY NextCacheIInv
<1> QED
  BY <1>1, <1>2, PTL DEF CacheSpec

(* cache_get() serves what the host answered to the agent's own role, for  *)
(* its own prompt or one over the threshold.                               *)
THEOREM ServedOwnRole == CacheSpec => []GenuineHit
<1>1. CacheIInv => GenuineHit
  BY DEF CacheIInv, HandInv, Serves, GenuineHit
<1> QED
  BY <1>1, CacheInvariance, PTL

(* cache_set(): without overlapping calls and failed appends a restart     *)
(* loses nothing RAM served.                                               *)
THEOREM SurvivesReboot == CacheSpec => []RamIsOnDisk
<1>1. CacheIInv => RamIsOnDisk
  BY DEF CacheIInv, AloneInv, OnDisk, RamIsOnDisk, Quiet, InCall
<1> QED
  BY <1>1, CacheInvariance, PTL

(* ram_put() never gives a key a second slot, whoever promotes or sets it  *)
(* at the same time.                                                       *)
THEOREM OneSlotPerKey == CacheSpec => []UniqueKeys
<1>1. CacheIInv => UniqueKeys
  BY DEF CacheIInv
<1> QED
  BY <1>1, CacheInvariance, PTL

============================================================================
