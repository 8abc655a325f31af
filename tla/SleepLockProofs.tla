-------------------------- MODULE SleepLockProofs --------------------------
(***************************************************************************)
(* SleepLock for any number of processes: the inductive invariant IInv,    *)
(* and from it mutual exclusion, the truth of holdingsleep(), the absence  *)
(* of lost wakeups, and the refinement of the abstract lock.               *)
(***************************************************************************)
EXTENDS SleepLock, TLAPS

(* The scan's first entry is inside the table.                             *)
LEMMA ScanStart == 1 \in 1 .. N + 1
  BY NAssumption

(* The initial state satisfies IInv: nobody is in the lock's code.         *)
LEMMA InitIInv == Init => IInv
<1> SUFFICES ASSUME Init PROVE IInv
  OBVIOUS
<1> USE NAssumption DEF Init, Proc, Nobody
<1>1. TypeOK
  BY ScanStart DEF TypeOK
<1>2. SpinInv /\ PlockInv
  BY DEF SpinInv, PlockInv
<1>3. StateInv
  BY DEF StateInv
<1>4. HoldingIsTrue /\ SleepyInv
  BY DEF HoldingIsTrue, Holds, holdingsleep, SleepyInv
<1> QED
  BY <1>1, <1>2, <1>3, <1>4 DEF IInv

(* Every step of a process keeps IInv: who holds which spinlock is settled *)
(* by pc, so a step of p leaves every other process's part of IInv alone.  *)
LEMMA StepIInv ==
  ASSUME IInv, NEW p \in Proc, Step(p)
  PROVE  IInv'
<1> USE NAssumption DEF IInv, TypeOK, SpinInv, PlockInv, StateInv, HoldingIsTrue,
        SleepyInv, Proc, Nobody, Holds, holdingsleep, Running, Goto
<1>1. CASE AcquireSpin(p)
  BY <1>1 DEF AcquireSpin
<1>2. CASE Take(p)
  BY <1>2 DEF Take
<1>3. CASE SleepLocks(p)
  BY <1>3 DEF SleepLocks
<1>4. CASE SleepUnlocks(p)
  BY <1>4 DEF SleepUnlocks
<1>5. CASE SleepSched(p)
  BY <1>5 DEF SleepSched
<1>6. CASE CallRelease(p)
  BY <1>6 DEF CallRelease
<1>7. CASE ReleaseSpin(p)
  <2>0. TypeOK'
    BY <1>7, ScanStart DEF ReleaseSpin
  <2>1. SpinInv' /\ PlockInv' /\ StateInv' /\ HoldingIsTrue'
    BY <1>7 DEF ReleaseSpin
  <2>2. pc'[p] = "wake" /\ scan' = 1   \* the scan starts before every sleeper
    BY <1>7 DEF ReleaseSpin
  <2>3. \A q \in Proc : pc[q] # "slp" /\ pc'[q] # "slp"
    BY <1>7 DEF ReleaseSpin
  <2>4. SleepyInv'
    BY <2>2, <2>3
  <2> QED
    BY <2>0, <2>1, <2>4
<1>8. CASE WakeScan(p)
  BY <1>8 DEF WakeScan
<1>9. CASE WakeDone(p)
  BY <1>9 DEF WakeDone
<1> QED
  BY <1>1, <1>2, <1>3, <1>4, <1>5, <1>6, <1>7, <1>8, <1>9 DEF Step

(* The steps that are not the process's own (scheduler, timer, kill), and  *)
(* the call of acquiresleep(), keep IInv.                                  *)
LEMMA OtherIInv ==
  ASSUME IInv, NEW p \in Proc,
         CallAcquire(p) \/ Dispatch(p) \/ Preempt(p) \/ Kill(p)
  PROVE  IInv'
<1> USE NAssumption DEF IInv, TypeOK, SpinInv, PlockInv, StateInv, HoldingIsTrue,
        SleepyInv, Proc, Nobody, Holds, holdingsleep, Running, Goto
<1>1. CASE CallAcquire(p)
  BY <1>1 DEF CallAcquire
<1>2. CASE Dispatch(p)
  BY <1>2 DEF Dispatch
<1>3. CASE Preempt(p)
  BY <1>3 DEF Preempt
<1>4. CASE Kill(p)
  BY <1>4 DEF Kill
<1> QED
  BY <1>1, <1>2, <1>3, <1>4

(* Every step keeps the invariant.                                         *)
LEMMA NextIInv == IInv /\ [Next]_vars => IInv'
<1> SUFFICES ASSUME IInv, [Next]_vars PROVE IInv'
  OBVIOUS
<1>1. CASE Next
  BY <1>1, StepIInv, OtherIInv DEF Next
<1>2. CASE UNCHANGED vars
  BY <1>2 DEF vars, IInv, TypeOK, SpinInv, PlockInv, StateInv, HoldingIsTrue,
     SleepyInv, Holds, holdingsleep
<1> QED
  BY <1>1, <1>2

(* The lock and scheduling state of SleepLock is inductively invariant.    *)
THEOREM Invariance == Spec => []IInv
  BY InitIInv, NextIInv, PTL DEF Spec

(* Two processes are never both between acquiresleep() and releasesleep(). *)
THEOREM MutexThm == Spec => []MutualExclusion
<1>1. IInv => MutualExclusion
  BY DEF IInv, HoldingIsTrue, MutualExclusion, holdingsleep
<1> QED
  BY <1>1, Invariance, PTL

(* holdingsleep() is true of exactly the process between acquiresleep()    *)
(* and releasesleep().                                                     *)
THEOREM HoldingThm == Spec => []HoldingIsTrue
<1>1. IInv => HoldingIsTrue
  BY DEF IInv
<1> QED
  BY <1>1, Invariance, PTL

(* No process sleeps on a free lock that nobody is about to announce.      *)
THEOREM NoLostWakeupThm == Spec => []NoLostWakeup
<1>1. IInv => NoLostWakeup
  BY DEF IInv, SleepyInv, NoLostWakeup
<1> QED
  BY <1>1, Invariance, PTL

(* sleeplock.c implements the abstract lock: taking and giving back the    *)
(* sleep lock are Acquire and Release, every other step changes no owner.  *)
THEOREM Refinement == Spec => ImplementsLock
<1> DEFINE own == IF locked THEN pid ELSE Nobody
<1>1. Init => AL!Init
  BY DEF Init, AL!Init, AL!Nobody, Nobody
<1>2. ASSUME IInv, [Next]_vars
      PROVE  [AL!Next]_own
  <2>1. ASSUME NEW p \in Proc, Take(p)
        PROVE  AL!Acquire(p)
    BY <2>1 DEF Take, AL!Acquire, AL!Nobody, Nobody
  <2>2. ASSUME NEW p \in Proc, ReleaseSpin(p)
        PROVE  AL!Release(p)
    BY <1>2, <2>2 DEF ReleaseSpin, AL!Release, AL!Nobody, Nobody, IInv,
       HoldingIsTrue, Holds, holdingsleep, Running
  <2>3. ASSUME NEW p \in Proc, Step(p), ~Take(p), ~ReleaseSpin(p)
        PROVE  UNCHANGED own
    BY <2>3 DEF Step, AcquireSpin, SleepLocks, SleepUnlocks, SleepSched,
       CallRelease, WakeScan, WakeDone
  <2>4. ASSUME NEW p \in Proc, CallAcquire(p) \/ Dispatch(p) \/ Preempt(p) \/ Kill(p)
        PROVE  UNCHANGED own
    BY <2>4 DEF CallAcquire, Dispatch, Preempt, Kill
  <2>5. CASE UNCHANGED vars
    BY <2>5 DEF vars
  <2> QED
    BY <1>2, <2>1, <2>2, <2>3, <2>4, <2>5 DEF Next, AL!Next
<1> QED
  BY <1>1, <1>2, Invariance, PTL DEF Spec, ImplementsLock, AL!Spec
===========================================================================
