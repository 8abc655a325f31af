--------------------------- MODULE ProcessProofs ---------------------------
(***************************************************************************)
(* What a process gets of the machine: the time that the scheduler gives   *)
(* it, for any number of processes, and the memory that sbrk(), kfork(),   *)
(* kexec() and page faults give it, for any number of frames and pages.    *)
(***************************************************************************)
EXTENDS Scheduler, UserMemory, TLAPS

(***************************************************************************)
(* Scheduler for any table, any number of CPUs and any priorities within   *)
(* the clamp: a process is on at most one CPU, the fallback loop is        *)
(* reached only when the processes pass 1 saw have been taken, and pass 2  *)
(* never dispatches a process that is outranked by one that kept waiting.  *)
(***************************************************************************)

(* The table has a first entry, and a cursor that is short of the last one *)
(* stays inside it.                                                        *)
LEMMA Cursor ==
  /\ 1 \in Proc
  /\ \A p \in Proc : p < NPROC => p + 1 \in Proc
  BY SchedulerAssumption DEF Proc

(* Priorities are numbers: passes compare them.                            *)
LEMMA PrioInt == \A v \in Prio : v \in Int
<1>1. \A v \in -20 .. 19 : v \in Int
  OBVIOUS
<1> QED
  BY <1>1, SchedulerAssumption

(* Booting: every CPU is at the start of pass 1, and nothing runs.         *)
LEMMA InitIInv == Init => IInv
<1> SUFFICES ASSUME Init PROVE IInv
  OBVIOUS
<1>1. TypeOK
  BY Cursor, SchedulerAssumption DEF Init, TypeOK, None
<1>2. OnOneCpu
  BY DEF Init, OnOneCpu, None, Proc
<1>3. StableWaits
  BY DEF Init, StableWaits, Runnable
<1>4. Pass1Knows
  BY SchedulerAssumption DEF Init, Pass1Knows, Proc
<1>5. Pass2Knows /\ FallbackOnlyIfTaken
  BY DEF Init, Pass2Knows, FallbackOnlyIfTaken
<1> QED
  BY <1>1, <1>2, <1>3, <1>4, <1>5 DEF IInv

(* An entry in a CPU's history is on no CPU.                               *)
LEMMA StableNotRunning ==
  ASSUME IInv, NEW c \in CPU, NEW d \in CPU, pc[d] = "run"
  PROVE  /\ proc[d] \in Proc
         /\ state[proc[d]] = "RUNNING"
         /\ proc[d] \notin stable[c]
  BY DEF IInv, TypeOK, OnOneCpu, StableWaits, Runnable

(* Pass 1 looks at one entry: it keeps the maximum over the entries of the *)
(* history it has passed.                                                  *)
LEMMA Pass1IInv ==
  ASSUME IInv, NEW c \in CPU, Pass1(c)
  PROVE  IInv'
<1> USE DEF IInv
<1> DEFINE p == at[c]
           better == state[p] = "RUNNABLE" /\ (~any[c] \/ priority[p] > max[c])
           next == IF any[c] \/ better THEN "pass2" ELSE "wfi"
<1>0. /\ pc[c] = "pass1" /\ p \in Proc
      /\ max' = [max EXCEPT ![c] = IF better THEN priority[p] ELSE @]
      /\ any' = [any EXCEPT ![c] = @ \/ better]
      /\ Advance(c, next)
      /\ UNCHANGED <<state, priority, proc, stable>>
  BY DEF Pass1, Scan, TypeOK
<1>a. next \in {"pass2", "wfi"} /\ (next = "pass2" <=> any[c] \/ better)
  OBVIOUS
<1> HIDE DEF next
<1>b. any'[c] <=> any[c] \/ better
  BY <1>0 DEF TypeOK
<1>c. \A d \in CPU \ {c} : any'[d] = any[d] /\ max'[d] = max[d]
  BY <1>0 DEF TypeOK
<1>d. max'[c] = IF better THEN priority[p] ELSE max[c]
  BY <1>0 DEF TypeOK
<1>1. TypeOK'
  <2>1. max' \in [CPU -> Prio]
    BY <1>0 DEF TypeOK
  <2>2. any' \in [CPU -> BOOLEAN]
    BY <1>0 DEF TypeOK
  <2>3. at' \in [CPU -> Proc] /\ pc' \in [CPU -> {"pass1", "pass2", "fallback", "run", "wfi"}]
    BY <1>0, <1>a, Cursor DEF TypeOK, Advance
  <2> QED
    BY <2>1, <2>2, <2>3, <1>0 DEF TypeOK
<1> HIDE DEF better
<1>2. \A d \in CPU : pc'[d] = "run" <=> pc[d] = "run"
  BY <1>0, <1>a DEF Advance, TypeOK
<1>3. OnOneCpu' /\ StableWaits'
  BY <1>0, <1>2 DEF OnOneCpu, StableWaits, Runnable
<1>4. \A q \in Proc : priority[q] \in Int
  BY PrioInt DEF TypeOK
<1>5. max[c] \in Int /\ max'[c] \in Int
  BY <1>1, PrioInt DEF TypeOK
<1>6. \A q \in stable[c] : q \in Proc /\ state[q] = "RUNNABLE"
  BY DEF StableWaits, Runnable
<1>7. \A q \in stable[c] : q <= p => (any[c] \/ better) /\ priority[q] <= max'[c]
  <2> SUFFICES ASSUME NEW q \in stable[c], q <= p
               PROVE  (any[c] \/ better) /\ priority[q] <= max'[c]
    OBVIOUS
  <2>1. CASE q < p
    <3>1. any[c] /\ priority[q] <= max[c]
      BY <2>1, <1>0 DEF Pass1Knows
    <3> QED
      BY <3>1, <1>d, <1>0, <1>4, <1>5, <1>6 DEF better
  <2>2. CASE q = p
    BY <2>2, <1>0, <1>4, <1>5, <1>6, <1>d DEF better
  <2> QED
    BY <2>1, <2>2, <1>6, <1>0 DEF Proc
<1>8. \A d \in CPU \ {c} : pc'[d] = pc[d] /\ at'[d] = at[d]
  BY <1>0 DEF Advance, TypeOK
<1>9. \/ at'[c] = p + 1 /\ pc'[c] = "pass1"
      \/ p = NPROC /\ at'[c] = 1 /\ pc'[c] = next
  BY <1>0, SchedulerAssumption DEF Advance, TypeOK, Proc
<1>10. Pass1Knows'
  <2> SUFFICES ASSUME NEW d \in CPU, pc'[d] = "pass1", NEW q \in stable[d], q < at'[d]
               PROVE  any'[d] /\ priority[q] <= max'[d]
    BY <1>0 DEF Pass1Knows
  <2>1. CASE d # c
    BY <2>1, <1>8, <1>c DEF Pass1Knows
  <2>2. CASE d = c
    <3>1. at'[c] = p + 1
      BY <1>9, <1>a, <2>2
    <3>2. q <= p
      BY <3>1, <2>2, <1>6, <1>0 DEF Proc
    <3> QED
      BY <3>2, <2>2, <1>7, <1>b
  <2> QED
    BY <2>1, <2>2
<1>11. Pass2Knows'
  <2> SUFFICES ASSUME NEW d \in CPU, pc'[d] = "pass2"
               PROVE  /\ any'[d]
                      /\ \A q \in stable[d] : /\ priority[q] <= max'[d]
                                              /\ q < at'[d] => priority[q] < max'[d]
    BY <1>0 DEF Pass2Knows
  <2>1. CASE d # c
    BY <2>1, <1>8, <1>c DEF Pass2Knows
  <2>2. CASE d = c
    <3>1. p = NPROC /\ at'[c] = 1 /\ pc'[c] = next
      BY <1>9, <2>2
    <3>2. \A q \in stable[c] : q <= p /\ ~(q < at'[c])
      BY <3>1, <1>6, SchedulerAssumption DEF Proc
    <3> QED
      BY <3>1, <3>2, <2>2, <1>7, <1>a, <1>b
  <2> QED
    BY <2>1, <2>2
<1>12. FallbackOnlyIfTaken'
  BY <1>0, <1>8, <1>9, <1>a, <1>c DEF FallbackOnlyIfTaken
<1> QED
  BY <1>1, <1>3, <1>10, <1>11, <1>12

(* A dispatch takes a RUNNABLE entry out of every CPU's history; what the  *)
(* other CPUs know of the entries that are left stays true.                *)
LEMMA DispatchIInv ==
  ASSUME IInv, NEW c \in CPU, NEW p \in Proc,
         pc[c] \in {"pass2", "fallback"}, state[p] = "RUNNABLE",
         Dispatch(c, p), UNCHANGED <<priority, any, max>>
  PROVE  IInv'
<1> USE DEF IInv
<1>1. /\ state' = [state EXCEPT ![p] = "RUNNING"]
      /\ proc' = [proc EXCEPT ![c] = p]
      /\ pc' = [pc EXCEPT ![c] = "run"]
      /\ at' = [at EXCEPT ![c] = 1]
      /\ UNCHANGED <<priority, any, max>>
      /\ stable' = [d \in CPU |-> {q \in stable[d] : state'[q] = "RUNNABLE"}]
  BY DEF Dispatch, Track
<1>2. TypeOK'
  BY <1>1, Cursor DEF TypeOK
<1>3. OnOneCpu'
  <2>1. proc[c] = None /\ \A d \in CPU : proc[d] # p
    BY DEF OnOneCpu
  <2>2. \A q \in Proc : q # None
    BY DEF Proc, None
  <2>3. \A d \in CPU : proc'[d] = (IF d = c THEN p ELSE proc[d])
    BY <1>1 DEF TypeOK
  <2>4. \A q \in Proc : state'[q] = "RUNNING" <=> q = p \/ state[q] = "RUNNING"
    BY <1>1 DEF TypeOK
  <2>5. \A d \in CPU : pc'[d] = "run" <=> d = c \/ pc[d] = "run"
    BY <1>1 DEF TypeOK
  <2>6. \A q \in Proc : state'[q] = "RUNNING" <=> \E d \in CPU : proc'[d] = q
    BY <2>1, <2>2, <2>3, <2>4 DEF OnOneCpu
  <2>7. \A d, e \in CPU : proc'[d] = proc'[e] /\ proc'[d] # None => d = e
    BY <2>1, <2>2, <2>3 DEF OnOneCpu
  <2>8. \A d \in CPU : pc'[d] = "run" <=> proc'[d] # None
    BY <2>1, <2>2, <2>3, <2>5 DEF OnOneCpu
  <2> QED
    BY <2>6, <2>7, <2>8 DEF OnOneCpu
<1>4. \A d \in CPU : stable'[d] \subseteq stable[d]
  BY <1>1
<1>5. \A d \in CPU : pc'[d] # "run" => pc'[d] = pc[d] /\ at'[d] = at[d]
  BY <1>1 DEF TypeOK
<1>6. StableWaits'
  BY <1>1, <1>4 DEF StableWaits, Runnable
<1>7. Pass1Knows' /\ Pass2Knows' /\ FallbackOnlyIfTaken'
  BY <1>1, <1>4, <1>5 DEF Pass1Knows, Pass2Knows, FallbackOnlyIfTaken
<1> QED
  BY <1>2, <1>3, <1>6, <1>7

(* A CPU that dispatches nothing moves its cursor on, or leaves the loop.  *)
LEMMA AdvanceFacts ==
  ASSUME TypeOK, NEW c \in CPU, NEW next, Advance(c, next)
  PROVE  /\ \A d \in CPU \ {c} : pc'[d] = pc[d] /\ at'[d] = at[d]
         /\ \/ at'[c] = at[c] + 1 /\ pc'[c] = pc[c]
            \/ at[c] = NPROC /\ at'[c] = 1 /\ pc'[c] = next
  BY SchedulerAssumption DEF Advance, TypeOK, Proc

(* Pass 2: an entry it passes over was taken, or has a lower priority.     *)
LEMMA Pass2IInv ==
  ASSUME IInv, NEW c \in CPU, Pass2(c)
  PROVE  IInv'
<1> USE DEF IInv
<1>0. pc[c] = "pass2" /\ at[c] \in Proc /\ UNCHANGED <<priority, any, max>>
  BY DEF Pass2, Scan, TypeOK
<1>1. CASE state[at[c]] = "RUNNABLE" /\ priority[at[c]] = max[c]
  BY <1>0, <1>1, DispatchIInv DEF Pass2
<1>2. CASE ~(state[at[c]] = "RUNNABLE" /\ priority[at[c]] = max[c])
  <2>1. Advance(c, "fallback") /\ UNCHANGED <<state, proc, stable>>
    BY <1>2 DEF Pass2
  <2>2. TypeOK'
    BY <1>0, <2>1, Cursor DEF TypeOK, Advance
  <2>3. /\ \A d \in CPU \ {c} : pc'[d] = pc[d] /\ at'[d] = at[d]
        /\ \/ at'[c] = at[c] + 1 /\ pc'[c] = "pass2"
           \/ at[c] = NPROC /\ at'[c] = 1 /\ pc'[c] = "fallback"
    BY <1>0, <2>1, AdvanceFacts
  <2>4. OnOneCpu' /\ StableWaits' /\ Pass1Knows'
    BY <1>0, <2>1, <2>3 DEF OnOneCpu, StableWaits, Runnable, Pass1Knows
  <2>5. any[c]
    BY <1>0 DEF Pass2Knows
  <2>6. \A q \in stable[c] : /\ q \in Proc
                             /\ priority[q] <= max[c]
                             /\ q <= at[c] => priority[q] < max[c]
    <3> SUFFICES ASSUME NEW q \in stable[c]
                 PROVE  /\ q \in Proc /\ priority[q] <= max[c]
                        /\ q <= at[c] => priority[q] < max[c]
      OBVIOUS
    <3>1. /\ q \in Proc /\ state[q] = "RUNNABLE" /\ priority[q] <= max[c]
          /\ q < at[c] => priority[q] < max[c]
      BY <1>0 DEF StableWaits, Runnable, Pass2Knows
    <3>2. priority[q] \in Int /\ max[c] \in Int
      BY <3>1, PrioInt DEF TypeOK
    <3> QED
      BY <3>1, <3>2, <1>0, <1>2 DEF Proc
  <2>7. Pass2Knows'
    <3> SUFFICES ASSUME NEW d \in CPU, pc'[d] = "pass2"
                 PROVE  /\ any[d]
                        /\ \A q \in stable[d] : /\ priority[q] <= max[d]
                                                /\ q < at'[d] => priority[q] < max[d]
      BY <1>0, <2>1 DEF Pass2Knows
    <3>1. CASE d # c
      BY <3>1, <2>3 DEF Pass2Knows
    <3>2. CASE d = c
      <4>1. at'[c] = at[c] + 1
        BY <3>2, <2>3
      <4>2. \A q \in stable[c] : q < at'[c] => q <= at[c]
        BY <4>1, <2>6, <1>0 DEF Proc
      <4> QED
        BY <3>2, <4>2, <2>5, <2>6
    <3> QED
      BY <3>1, <3>2
  <2>8. FallbackOnlyIfTaken'
    <3> SUFFICES ASSUME NEW d \in CPU, pc'[d] = "fallback"
                 PROVE  any[d] /\ \A q \in stable[d] : priority[q] < max[d]
      BY <1>0, <2>1 DEF FallbackOnlyIfTaken
    <3>1. CASE d # c
      BY <3>1, <2>3 DEF FallbackOnlyIfTaken
    <3>2. CASE d = c
      <4>1. at[c] = NPROC
        BY <3>2, <2>3
      <4>2. \A q \in stable[c] : q <= at[c]
        BY <4>1, <2>6 DEF Proc
      <4> QED
        BY <3>2, <4>2, <2>5, <2>6
    <3> QED
      BY <3>1, <3>2
  <2> QED
    BY <2>2, <2>4, <2>7, <2>8
<1> QED
  BY <1>1, <1>2

(* Fallback: whatever it dispatches, the histories only shrink.            *)
LEMMA FallbackIInv ==
  ASSUME IInv, NEW c \in CPU, Fallback(c)
  PROVE  IInv'
<1> USE DEF IInv
<1>0. pc[c] = "fallback" /\ at[c] \in Proc /\ UNCHANGED <<priority, any, max>>
  BY DEF Fallback, Scan, TypeOK
<1>1. CASE state[at[c]] = "RUNNABLE"
  BY <1>0, <1>1, DispatchIInv DEF Fallback
<1>2. CASE state[at[c]] # "RUNNABLE"
  <2>1. Advance(c, "wfi") /\ UNCHANGED <<state, proc, stable>>
    BY <1>2 DEF Fallback
  <2>2. TypeOK'
    BY <1>0, <2>1, Cursor DEF TypeOK, Advance
  <2>3. /\ \A d \in CPU \ {c} : pc'[d] = pc[d] /\ at'[d] = at[d]
        /\ pc'[c] \in {"fallback", "wfi"}
    BY <1>0, <2>1, AdvanceFacts
  <2>4. OnOneCpu' /\ StableWaits' /\ Pass1Knows' /\ Pass2Knows'
    BY <1>0, <2>1, <2>3
       DEF OnOneCpu, StableWaits, Runnable, Pass1Knows, Pass2Knows
  <2>5. FallbackOnlyIfTaken'
    BY <1>0, <2>1, <2>3 DEF FallbackOnlyIfTaken
  <2> QED
    BY <2>2, <2>4, <2>5
<1> QED
  BY <1>1, <1>2

(* A CPU that starts pass 1 knows nothing yet, and its history starts with *)
(* what is RUNNABLE now; the process it had, if any, was in no history.    *)
LEMMA StartPass1Facts ==
  ASSUME IInv, NEW c \in CPU, StartPass1(c), Track({c}), UNCHANGED priority,
         state' \in [Proc -> {"RUNNABLE", "RUNNING", "SLEEPING"}]
  PROVE  /\ pc' \in [CPU -> {"pass1", "pass2", "fallback", "run", "wfi"}]
         /\ at' \in [CPU -> Proc] /\ any' \in [CPU -> BOOLEAN]
         /\ max' \in [CPU -> Prio] /\ stable' \in [CPU -> SUBSET Proc]
         /\ \A d \in CPU : pc'[d] = "run" <=> d # c /\ pc[d] = "run"
         /\ StableWaits' /\ Pass1Knows' /\ Pass2Knows' /\ FallbackOnlyIfTaken'
<1> USE DEF IInv, StartPass1
<1>1. /\ pc' \in [CPU -> {"pass1", "pass2", "fallback", "run", "wfi"}]
      /\ at' \in [CPU -> Proc] /\ max' \in [CPU -> Prio]
  BY Cursor, SchedulerAssumption DEF TypeOK
<1>2. any' \in [CPU -> BOOLEAN]
  BY DEF TypeOK
<1>3. stable' \in [CPU -> SUBSET Proc]
  BY DEF TypeOK, Track
<1>4. \A d \in CPU \ {c} : /\ pc'[d] = pc[d] /\ at'[d] = at[d]
                           /\ any'[d] = any[d] /\ max'[d] = max[d]
                           /\ stable'[d] \subseteq stable[d]
  BY DEF TypeOK, Track
<1>5. pc'[c] = "pass1" /\ at'[c] = 1
  BY DEF TypeOK
<1>6. StableWaits'
  BY <1>3 DEF StableWaits, Runnable, Track, TypeOK
<1>7. Pass1Knows'
  <2> SUFFICES ASSUME NEW d \in CPU, pc'[d] = "pass1", NEW q \in stable'[d], q < at'[d]
               PROVE  any'[d] /\ priority[q] <= max'[d]
    BY DEF Pass1Knows
  <2>1. d # c
    BY <1>5, <1>3 DEF Proc
  <2> QED
    BY <2>1, <1>4 DEF Pass1Knows
<1>8. Pass2Knows' /\ FallbackOnlyIfTaken'
  BY <1>4, <1>5 DEF Pass2Knows, FallbackOnlyIfTaken
<1> QED
  BY <1>1, <1>2, <1>3, <1>4, <1>5, <1>6, <1>7, <1>8

(* After wfi the loop starts again.                                        *)
LEMMA WfiIInv ==
  ASSUME IInv, NEW c \in CPU, Wfi(c)
  PROVE  IInv'
<1>1. /\ pc[c] = "wfi" /\ StartPass1(c) /\ Track({c})
      /\ UNCHANGED <<state, priority, proc>> /\ TypeOK /\ OnOneCpu
  BY DEF Wfi, IInv
<1>2. state' \in [Proc -> {"RUNNABLE", "RUNNING", "SLEEPING"}]
  BY <1>1 DEF TypeOK
<1>3. TypeOK'
  BY <1>1, <1>2, StartPass1Facts DEF TypeOK
<1>4. \A d \in CPU : pc'[d] = "run" <=> pc[d] = "run"
  BY <1>1, <1>2, StartPass1Facts
<1>5. OnOneCpu'
  BY <1>1, <1>4 DEF OnOneCpu
<1> QED
  BY <1>1, <1>2, <1>3, <1>5, StartPass1Facts DEF IInv

(* yield() and sleep(): the process leaves the CPU, and only that CPU.     *)
LEMMA LeaveIInv ==
  ASSUME IInv, NEW c \in CPU, NEW s \in {"RUNNABLE", "SLEEPING"}, Leave(c, s)
  PROVE  IInv'
<1>1. /\ pc[c] = "run" /\ StartPass1(c) /\ Track({c}) /\ UNCHANGED priority
      /\ state' = [state EXCEPT ![proc[c]] = s]
      /\ proc' = [proc EXCEPT ![c] = None]
      /\ TypeOK /\ OnOneCpu
  BY DEF Leave, IInv
<1>2. state' \in [Proc -> {"RUNNABLE", "RUNNING", "SLEEPING"}]
  BY <1>1 DEF TypeOK
<1>3. TypeOK'
  BY <1>1, <1>2, StartPass1Facts DEF TypeOK
<1>4. \A d \in CPU : pc'[d] = "run" <=> d # c /\ pc[d] = "run"
  BY <1>1, <1>2, StartPass1Facts
<1>5. proc[c] \in Proc /\ proc[c] # None
  BY <1>1 DEF TypeOK, OnOneCpu
<1>6. OnOneCpu'
  BY <1>1, <1>4, <1>5 DEF OnOneCpu, TypeOK, Proc, None
<1> QED
  BY <1>1, <1>2, <1>3, <1>6, StartPass1Facts DEF IInv

(* sys_setprio() writes the priority of a RUNNING process, which no        *)
(* history holds.                                                          *)
LEMMA SetPrioIInv ==
  ASSUME IInv, NEW c \in CPU, NEW v \in Prio, SetPrio(c, v)
  PROVE  IInv'
<1>1. /\ pc[c] = "run" /\ priority' = [priority EXCEPT ![proc[c]] = v]
      /\ UNCHANGED <<state, pc, at, any, max, proc, stable>>
  BY DEF SetPrio
<1>2. \A d \in CPU : proc[c] \notin stable[d]
  BY <1>1, StableNotRunning
<1>3. TypeOK'
  BY <1>1 DEF TypeOK, IInv
<1>4. \A d \in CPU : \A q \in stable[d] : priority'[q] = priority[q]
  BY <1>1, <1>2 DEF IInv, TypeOK
<1>5. OnOneCpu' /\ StableWaits'
  BY <1>1 DEF OnOneCpu, StableWaits, Runnable, IInv
<1>6. Pass1Knows' /\ Pass2Knows' /\ FallbackOnlyIfTaken'
  BY <1>1, <1>4 DEF Pass1Knows, Pass2Knows, FallbackOnlyIfTaken, IInv
<1> QED
  BY <1>3, <1>5, <1>6 DEF IInv

(* wakeup() adds an entry only to the history of a CPU that has not looked *)
(* at any entry yet.                                                       *)
LEMMA WakeupIInv ==
  ASSUME IInv, NEW p \in Proc, Wakeup(p)
  PROVE  IInv'
<1>1. /\ state[p] = "SLEEPING" /\ state' = [state EXCEPT ![p] = "RUNNABLE"]
      /\ stable' = [c \in CPU |-> IF pc[c] = "pass1" /\ at[c] = 1 THEN stable[c] \cup {p}
                                  ELSE stable[c]]
      /\ UNCHANGED <<priority, pc, at, any, max, proc>>
  BY DEF Wakeup
<1>2. TypeOK'
  BY <1>1 DEF TypeOK, IInv
<1>3. OnOneCpu' /\ StableWaits'
  BY <1>1 DEF OnOneCpu, StableWaits, Runnable, IInv, TypeOK
<1>4. \A c \in CPU : ~(pc[c] = "pass1" /\ at[c] = 1) => stable'[c] = stable[c]
  BY <1>1
<1>5. \A q \in Proc : ~(q < 1)
  BY DEF Proc
<1>6. Pass1Knows'
  BY <1>1, <1>2, <1>4, <1>5 DEF Pass1Knows, IInv, TypeOK
<1>7. Pass2Knows' /\ FallbackOnlyIfTaken'
  BY <1>1, <1>4 DEF Pass2Knows, FallbackOnlyIfTaken, IInv
<1> QED
  BY <1>2, <1>3, <1>6, <1>7 DEF IInv

(* Every step keeps the invariant. *)
LEMMA NextIInv == IInv /\ [Next]_vars => IInv'
<1> SUFFICES ASSUME IInv, [Next]_vars PROVE IInv'
  OBVIOUS
<1>1. CASE Next
  <2>1. ASSUME NEW c \in CPU, Sched(c) PROVE IInv'
    BY <2>1, Pass1IInv, Pass2IInv, FallbackIInv, WfiIInv DEF Sched
  <2>2. ASSUME NEW c \in CPU, Yield(c) \/ Sleep(c) PROVE IInv'
    BY <2>2, LeaveIInv DEF Yield, Sleep
  <2>3. ASSUME NEW c \in CPU, NEW v \in Prio, SetPrio(c, v) PROVE IInv'
    BY <2>3, SetPrioIInv
  <2>4. ASSUME NEW p \in Proc, Wakeup(p) PROVE IInv'
    BY <2>4, WakeupIInv
  <2> QED
    BY <1>1, <2>1, <2>2, <2>3, <2>4 DEF Next
<1>2. CASE UNCHANGED vars
  BY <1>2 DEF vars, IInv, TypeOK, OnOneCpu, StableWaits, Runnable, Pass1Knows,
              Pass2Knows, FallbackOnlyIfTaken
<1> QED
  BY <1>1, <1>2

---------------------------------------------------------------------------
(* The inductive invariant holds in every reachable state.                 *)
THEOREM Invariance == Spec => []IInv
  BY InitIInv, NextIInv, PTL DEF Spec

(* The variables of scheduler() keep their types; the cursor stays inside  *)
(* the table.                                                              *)
THEOREM TypeCorrect == Spec => []TypeOK
<1>1. IInv => TypeOK
  BY DEF IInv
<1> QED
  BY <1>1, Invariance, PTL

(* No process is on two CPUs, and RUNNING means on a CPU.                  *)
THEOREM OneCpuEach == Spec => []OnOneCpu
<1>1. IInv => OnOneCpu
  BY DEF IInv
<1> QED
  BY <1>1, Invariance, PTL

(* The fallback loop is reached only if every process of the priority that *)
(* pass 1 found was taken by another CPU in between.                       *)
THEOREM FallbackJustified == Spec => []FallbackOnlyIfTaken
<1>1. IInv => FallbackOnlyIfTaken
  BY DEF IInv
<1> QED
  BY <1>1, Invariance, PTL

(* Pass 2 never dispatches a process that is outranked by one that was     *)
(* RUNNABLE during the CPU's whole scan.                                   *)
THEOREM Pass2RespectsPriority == Spec => Pass2Strict
<1>1. ASSUME IInv, [Next]_vars, NEW c \in CPU, Dispatches(c), pc[c] = "pass2"
      PROVE  ~Outranked(c)
  <2>1. Pass2(c)
    <3>1. ASSUME NEW d \in CPU, Sched(d), d # c PROVE FALSE
      BY <1>1, <3>1 DEF Sched, Pass1, Pass2, Fallback, Wfi, Dispatch, Dispatches,
                        IInv, TypeOK
    <3>2. Sched(c) => Pass2(c)
      BY <1>1 DEF Sched, Pass1, Fallback, Wfi, Scan
    <3>3. ASSUME NEW d \in CPU, Yield(d) \/ Sleep(d) \/ \E v \in Prio : SetPrio(d, v)
          PROVE  FALSE
      BY <1>1, <3>3 DEF Yield, Sleep, Leave, SetPrio, Dispatches, IInv, TypeOK
    <3>4. ASSUME NEW p \in Proc, Wakeup(p) PROVE FALSE
      BY <1>1, <3>4 DEF Wakeup, Dispatches
    <3>5. ~UNCHANGED vars
      BY <1>1 DEF vars, Dispatches
    <3> QED
      BY <1>1, <3>1, <3>2, <3>3, <3>4, <3>5 DEF Next
  <2>2. proc'[c] = at[c] /\ priority[at[c]] = max[c]
    BY <1>1, <2>1 DEF Pass2, Dispatch, Dispatches, IInv, TypeOK
  <2>3. \A q \in stable[c] : q \in Proc /\ priority[q] <= max[c]
    BY <1>1 DEF IInv, Pass2Knows, TypeOK
  <2>4. max[c] \in Int /\ \A q \in stable[c] : priority[q] \in Int
    BY <1>1, <2>3, PrioInt DEF IInv, TypeOK
  <2> QED
    BY <2>2, <2>3, <2>4 DEF Outranked
<1>2. IInv /\ [Next]_vars
        => [\A c \in CPU : Dispatches(c) /\ pc[c] = "pass2" => ~Outranked(c)]_vars
  BY <1>1
<1> QED
  BY <1>2, Invariance, PTL DEF Spec, Pass2Strict

----------------------------------------------------------------------------
(***************************************************************************)
(* UserMemory for any process table, pool, page size and address space: no *)
(* frame is shared or lost whichever step of a call fails, mappages() and  *)
(* freewalk() never panic, and eager growth stays within the quota.        *)
(***************************************************************************)

---------------------------------------------------------------------------
(* Rounding to pages *)

(* Integer division by a positive number.                                  *)
LEMMA DivFacts ==
  ASSUME NEW a \in Nat, NEW b \in Nat, b > 0
  PROVE  /\ a \div b \in Nat
         /\ (a \div b) * b <= a
         /\ a < (a \div b) * b + b
  OBVIOUS

(* A smaller factor leaves room for one more.                              *)
LEMMA MultLess ==
  ASSUME NEW a \in Nat, NEW b \in Nat, NEW c \in Nat, c > 0, a < b
  PROVE  a * c + c <= b * c
  OBVIOUS

(* Dividing a multiple.                                                    *)
LEMMA MultDiv ==
  ASSUME NEW a \in Nat, NEW c \in Nat, c > 0
  PROVE  a * c \in Nat /\ (a * c) \div c = a
  OBVIOUS

(* PGROUNDUP() is a whole number of pages, and page i is below the size    *)
(* rounded up exactly if its first byte is below the size.                 *)
LEMMA PagesFacts ==
  ASSUME NEW n \in Nat
  PROVE  /\ Pages(n) \in Nat
         /\ PGROUNDUP(n) = Pages(n) * PGSIZE
         /\ PGROUNDUP(n) \in Nat
         /\ \A i \in Nat : i < Pages(n) <=> i * PGSIZE < n
<1> DEFINE d == (n + PGSIZE - 1) \div PGSIZE
<1>1. PGSIZE \in Nat /\ PGSIZE > 0
  BY MemAssumption
<1>2. n + PGSIZE - 1 \in Nat
  BY <1>1
<1>3. d \in Nat /\ d * PGSIZE <= n + PGSIZE - 1 /\ n + PGSIZE - 1 < d * PGSIZE + PGSIZE
  BY <1>1, <1>2, DivFacts
<1>4. PGROUNDUP(n) = d * PGSIZE
  BY DEF PGROUNDUP
<1> HIDE DEF d
<1>5. Pages(n) = d /\ PGROUNDUP(n) \in Nat
  BY <1>1, <1>3, <1>4, MultDiv DEF Pages
<1>6. ASSUME NEW i \in Nat PROVE i < d <=> i * PGSIZE < n
  <2>1. i * PGSIZE \in Nat /\ d * PGSIZE \in Nat
    BY <1>1, <1>3, MultDiv
  <2>2. CASE i < d
    <3>1. i * PGSIZE + PGSIZE <= d * PGSIZE
      BY <2>2, <1>1, <1>3, MultLess
    <3> QED
      BY <3>1, <2>1, <2>2, <1>1, <1>3
  <2>3. CASE i = d
    BY <2>3, <2>1, <1>1, <1>3
  <2>4. CASE d < i
    <3>1. d * PGSIZE + PGSIZE <= i * PGSIZE
      BY <2>4, <1>1, <1>3, MultLess
    <3> QED
      BY <3>1, <2>1, <2>4, <1>1, <1>3
  <2> QED
    BY <2>2, <2>3, <2>4, <1>3
<1> QED
  BY <1>3, <1>4, <1>5, <1>6

(* A size has as many pages when it is rounded up; k pages have k pages;   *)
(* more bytes have no fewer pages.                                         *)
LEMMA PagesRound ==
  /\ \A n \in Nat : Pages(PGROUNDUP(n)) = Pages(n)
  /\ \A k \in Nat : k * PGSIZE \in Nat /\ Pages(k * PGSIZE) = k
  /\ \A m, n \in Nat : m <= n => Pages(m) <= Pages(n)
  /\ Pages(0) = 0
<1>1. PGSIZE \in Nat /\ PGSIZE > 0
  BY MemAssumption
<1>2. ASSUME NEW k \in Nat PROVE k * PGSIZE \in Nat /\ Pages(k * PGSIZE) = k
  <2>1. k * PGSIZE \in Nat
    BY <1>1, MultDiv
  <2>2. /\ Pages(k * PGSIZE) \in Nat
        /\ k < Pages(k * PGSIZE) <=> k * PGSIZE < k * PGSIZE
        /\ Pages(k * PGSIZE) < Pages(k * PGSIZE)
             <=> Pages(k * PGSIZE) * PGSIZE < k * PGSIZE
    BY <2>1, PagesFacts
  <2>3. Pages(k * PGSIZE) < k => Pages(k * PGSIZE) * PGSIZE + PGSIZE <= k * PGSIZE
    BY <1>1, <2>2, MultLess
  <2>4. Pages(k * PGSIZE) * PGSIZE \in Nat
    BY <1>1, <2>2, MultDiv
  <2> QED
    BY <1>1, <2>1, <2>2, <2>3, <2>4
<1>3. ASSUME NEW m \in Nat, NEW n \in Nat, m <= n PROVE Pages(m) <= Pages(n)
  <2>1. Pages(m) \in Nat /\ Pages(n) \in Nat /\ Pages(n) * PGSIZE \in Nat
    BY <1>2, PagesFacts
  <2>2. /\ Pages(n) < Pages(m) <=> Pages(n) * PGSIZE < m
        /\ Pages(n) < Pages(n) <=> Pages(n) * PGSIZE < n
    BY <2>1, PagesFacts
  <2> QED
    BY <2>1, <2>2, <1>3
<1>4. ASSUME NEW n \in Nat PROVE Pages(PGROUNDUP(n)) = Pages(n)
  BY <1>2, PagesFacts
<1>5. Pages(0) = 0
  <2>1. 0 * PGSIZE = 0
    BY <1>1
  <2> QED
    BY <2>1, <1>2
<1> QED
  BY <1>2, <1>3, <1>4, <1>5

---------------------------------------------------------------------------
(* A page table and the pool it draws from *)

(* The frames of a table. *)
Frames(t) == {t[i] : i \in Mapped(t)}

(* A table and a pool that no operation has corrupted: each frame in one   *)
(* place, once.                                                            *)
Sound(m) ==
  /\ m.t \in [Page -> Frame \cup {Null}]
  /\ m.free \subseteq Frame
  /\ Frames(m.t) \cap m.free = {}
  /\ \A i, j \in Mapped(m.t) : m.t[i] = m.t[j] => i = j

(* Everything the table or the pool has. *)
Owned(m) == m.free \cup Frames(m.t)

(* Pages are natural numbers.                                              *)
LEMMA PageNat == Page \subseteq Nat
  BY MemAssumption DEF Page

(* So are the pages of a table.                                            *)
LEMMA MappedNat == \A t : Mapped(t) \subseteq Nat
  BY PageNat DEF Mapped

(* An empty table is sound with any pool.                                  *)
LEMMA NoPagesSound ==
  ASSUME NEW F \in SUBSET Frame
  PROVE  LET m == [t |-> NoPages, free |-> F]
         IN  Sound(m) /\ Mapped(m.t) = {} /\ Owned(m) = F
  BY DEF Sound, Owned, Frames, Mapped, NoPages

(* kalloc() and mappages() of pages that are not mapped move frames from   *)
(* the pool to the table.                                                  *)
LEMMA MapPagesSound ==
  ASSUME NEW m, Sound(m), NEW pages \in SUBSET Page, pages \cap Mapped(m.t) = {},
         NEW g \in Placements(pages, m.free)
  PROVE  LET u == MapPages(m, pages, g)
         IN  /\ Sound(u) /\ Owned(u) = Owned(m)
             /\ Mapped(u.t) = Mapped(m.t) \cup pages
<1> DEFINE u == MapPages(m, pages, g)
<1>1. /\ g \in [pages -> m.free]
      /\ \A i, j \in pages : g[i] = g[j] => i = j
  BY DEF Placements
<1>2. /\ u.t = [i \in Page |-> IF i \in pages THEN g[i] ELSE m.t[i]]
      /\ u.free = m.free \ {g[i] : i \in pages}
  BY DEF MapPages
<1> HIDE DEF u
<1>3. /\ m.t \in [Page -> Frame \cup {Null}] /\ m.free \subseteq Frame
      /\ Null \notin Frame
  BY MemAssumption DEF Sound
<1>4. Mapped(u.t) = Mapped(m.t) \cup pages
  BY <1>1, <1>2, <1>3 DEF Mapped
<1>5. \A i \in Mapped(m.t) : i \in Page /\ i \notin pages /\ u.t[i] = m.t[i] /\ m.t[i] \notin m.free
  BY <1>2 DEF Mapped, Sound, Frames
<1>6. \A i \in pages : u.t[i] = g[i] /\ g[i] \in m.free
  BY <1>1, <1>2
<1>7. u.t \in [Page -> Frame \cup {Null}] /\ u.free \subseteq Frame
  BY <1>1, <1>2, <1>3
<1>8. Frames(u.t) = Frames(m.t) \cup {g[i] : i \in pages}
  BY <1>4, <1>5, <1>6 DEF Frames
<1>9. Frames(u.t) \cap u.free = {}
  BY <1>2, <1>8 DEF Sound
<1>10. \A i, j \in Mapped(u.t) : u.t[i] = u.t[j] => i = j
  BY <1>1, <1>4, <1>5, <1>6 DEF Sound
<1>11. Owned(u) = Owned(m)
  BY <1>1, <1>2, <1>8 DEF Owned
<1> QED
  BY <1>4, <1>7, <1>9, <1>10, <1>11 DEF Sound, u

(* uvmunmap() moves the frames of the pages it is given back to the pool.  *)
LEMMA UnmapSound ==
  ASSUME NEW m, Sound(m), NEW from \in Nat, NEW to \in Nat
  PROVE  LET u == uvmunmap(m, from, to)
         IN  /\ Sound(u) /\ Owned(u) = Owned(m)
             /\ \A i : i \in Mapped(u.t) <=> i \in Mapped(m.t) /\ ~(from <= i /\ i < to)
<1> DEFINE u == uvmunmap(m, from, to)
           gone == {j \in Mapped(m.t) : from <= j /\ j < to}
           kept == {j \in Mapped(m.t) : ~(from <= j /\ j < to)}
<1>1. /\ u.t = [i \in Page |-> IF from <= i /\ i < to THEN Null ELSE m.t[i]]
      /\ u.free = m.free \cup {m.t[i] : i \in gone}
  BY DEF uvmunmap
<1> HIDE DEF u
<1>2. /\ m.t \in [Page -> Frame \cup {Null}] /\ m.free \subseteq Frame
      /\ Null \notin Frame
  BY MemAssumption DEF Sound
<1>3. Mapped(u.t) = kept
  BY <1>1 DEF Mapped
<1>4. \A i \in kept : u.t[i] = m.t[i] /\ i \in Mapped(m.t)
  BY <1>1 DEF Mapped
<1>5. \A i \in Mapped(m.t) : m.t[i] \in Frame /\ m.t[i] \notin m.free
  BY <1>2 DEF Mapped, Sound, Frames
<1>6. u.t \in [Page -> Frame \cup {Null}] /\ u.free \subseteq Frame
  BY <1>1, <1>2, <1>5
<1>7. Frames(u.t) = {m.t[i] : i \in kept}
  BY <1>3, <1>4 DEF Frames
<1>8. Frames(u.t) \cap u.free = {}
  BY <1>1, <1>5, <1>7 DEF Sound
<1>9. \A i, j \in Mapped(u.t) : u.t[i] = u.t[j] => i = j
  BY <1>3, <1>4 DEF Sound
<1>10. Owned(u) = Owned(m)
  BY <1>1, <1>7 DEF Owned, Frames
<1> QED
  BY <1>3, <1>6, <1>8, <1>9, <1>10 DEF Sound, u

(* uvmfree() of a table that maps nothing past its size empties it.        *)
LEMMA FreeSound ==
  ASSUME NEW m, Sound(m), NEW size \in Nat, \A i \in Mapped(m.t) : i < Pages(size)
  PROVE  LET u == uvmfree(m, size)
         IN  Mapped(u.t) = {} /\ u.free = Owned(m)
<1> DEFINE u == uvmfree(m, size)
<1>1. Pages(size) \in Nat /\ 0 \in Nat
  BY PagesFacts
<1>2. /\ Owned(u) = Owned(m)
      /\ \A i : i \in Mapped(u.t) <=> i \in Mapped(m.t) /\ ~(0 <= i /\ i < Pages(size))
  BY <1>1, UnmapSound DEF uvmfree
<1>3. Mapped(u.t) = {}
  <2>1. \A i \in Mapped(m.t) : 0 <= i /\ i < Pages(size)
    BY MappedNat
  <2> QED
    BY <1>2, <2>1
<1>4. u.free = Owned(u)
  BY <1>3 DEF Owned, Frames
<1> QED
  BY <1>2, <1>3, <1>4

(* uvmalloc() maps every page it was asked for or, whichever page it fails *)
(* at, none: what it had mapped is back in the pool.                       *)
LEMMA AllocSound ==
  ASSUME NEW m, Sound(m), NEW oldsz \in Nat, NEW newsz \in Nat,
         \A i \in Mapped(m.t) : i < Pages(oldsz),
         NEW r \in uvmalloc(m, oldsz, newsz)
  PROVE  /\ Sound(r.m) /\ Owned(r.m) = Owned(m)
         /\ r.ok \in BOOLEAN
         /\ Mapped(r.m.t) = Mapped(m.t) \cup (IF r.ok THEN Grown(oldsz, newsz) ELSE {})
<1> DEFINE pages == Grown(oldsz, newsz)
<1>0. /\ Pages(oldsz) \in Nat /\ PGROUNDUP(oldsz) = Pages(oldsz) * PGSIZE
      /\ PGROUNDUP(oldsz) \in Nat
  BY PagesFacts
<1>1. pages \subseteq Page /\ \A i \in pages : i \in Nat /\ PGROUNDUP(oldsz) <= i * PGSIZE
  BY PageNat DEF Grown
<1>2. \A i \in pages : Pages(oldsz) <= i
  <2> SUFFICES ASSUME NEW i \in pages PROVE Pages(oldsz) <= i
    OBVIOUS
  <2>1. i * PGSIZE \in Nat /\ Pages(i * PGSIZE) = i
    BY <1>1, PagesRound
  <2>2. Pages(PGROUNDUP(oldsz)) <= Pages(i * PGSIZE)
    BY <1>0, <1>1, <2>1, PagesRound
  <2> QED
    BY <2>1, <2>2, PagesRound
<1>3. pages \cap Mapped(m.t) = {}
  BY <1>0, <1>1, <1>2, PageNat DEF Mapped
<1>4. ASSUME NEW g \in Placements(pages, m.free),
             r = [ok |-> TRUE, m |-> MapPages(m, pages, g)]
      PROVE  /\ Sound(r.m) /\ Owned(r.m) = Owned(m) /\ r.ok = TRUE
             /\ Mapped(r.m.t) = Mapped(m.t) \cup pages
  BY <1>1, <1>3, <1>4, MapPagesSound
<1>5. ASSUME NEW k \in pages,
             NEW g \in Placements({i \in pages : i < k}, m.free),
             r = [ok |-> FALSE,
                  m |-> uvmdealloc(MapPages(m, {i \in pages : i < k}, g),
                                   k * PGSIZE, PGROUNDUP(oldsz))]
      PROVE  /\ Sound(r.m) /\ Owned(r.m) = Owned(m) /\ r.ok = FALSE
             /\ Mapped(r.m.t) = Mapped(m.t)
  <2> DEFINE below == {i \in pages : i < k}
             u == MapPages(m, below, g)
  <2>1. /\ Sound(u) /\ Owned(u) = Owned(m)
        /\ Mapped(u.t) = Mapped(m.t) \cup below
    BY <1>1, <1>3, MapPagesSound
  <2> HIDE DEF u
  <2>2. k \in Nat /\ k * PGSIZE \in Nat /\ Pages(k * PGSIZE) = k
    BY <1>1, PagesRound
  <2>3. r.ok = FALSE /\ r.m = uvmdealloc(u, k * PGSIZE, PGROUNDUP(oldsz))
    BY <1>5 DEF u
  <2>4. CASE PGROUNDUP(oldsz) >= k * PGSIZE
    <3>1. Pages(k * PGSIZE) <= Pages(PGROUNDUP(oldsz))
      BY <2>4, <2>2, <1>0, PagesRound
    <3>2. k <= Pages(oldsz)
      BY <3>1, <2>2, PagesRound
    <3>3. below = {}
      <4>1. \A i \in pages : i \in Nat /\ Pages(oldsz) <= i
        BY <1>1, <1>2
      <4>2. k \in Nat /\ Pages(oldsz) \in Nat
        BY <2>2, <1>0
      <4>3. \A i \in pages : ~(i < k)
        BY <3>2, <4>1, <4>2
      <4> QED
        BY <4>3
    <3>4. r.m = u
      BY <2>3, <2>4 DEF uvmdealloc
    <3> QED
      BY <2>1, <2>3, <3>3, <3>4
  <2>5. CASE ~(PGROUNDUP(oldsz) >= k * PGSIZE)
    <3>1. r.m = uvmunmap(u, Pages(oldsz), k)
      BY <2>2, <2>3, <2>5, PagesRound DEF uvmdealloc
    <3>2. /\ Sound(r.m) /\ Owned(r.m) = Owned(u)
          /\ \A i : i \in Mapped(r.m.t)
                   <=> i \in Mapped(u.t) /\ ~(Pages(oldsz) <= i /\ i < k)
      <4>1. Sound(u) /\ Pages(oldsz) \in Nat /\ k \in Nat
        BY <2>1, <2>2, <1>0
      <4> HIDE DEF u
      <4>2. /\ Sound(uvmunmap(u, Pages(oldsz), k))
            /\ Owned(uvmunmap(u, Pages(oldsz), k)) = Owned(u)
            /\ \A i : i \in Mapped(uvmunmap(u, Pages(oldsz), k).t)
                     <=> i \in Mapped(u.t) /\ ~(Pages(oldsz) <= i /\ i < k)
        BY <4>1, UnmapSound
      <4> QED
        BY <3>1, <4>2
    <3>3. \A i \in below : Pages(oldsz) <= i /\ i < k
      BY <1>2
    <3>4. \A i \in Mapped(m.t) : ~(Pages(oldsz) <= i)
      BY <1>0, MappedNat
    <3>5. Mapped(r.m.t) = Mapped(m.t)
      BY <3>2, <3>3, <3>4, <2>1
    <3> QED
      BY <3>2, <3>5, <2>1, <2>3
  <2> QED
    BY <2>4, <2>5
<1>6. \/ \E g \in Placements(pages, m.free) : r = [ok |-> TRUE, m |-> MapPages(m, pages, g)]
      \/ \E k \in pages : \E g \in Placements({i \in pages : i < k}, m.free) :
           r = [ok |-> FALSE,
                m |-> uvmdealloc(MapPages(m, {i \in pages : i < k}, g),
                                 k * PGSIZE, PGROUNDUP(oldsz))]
  BY DEF uvmalloc
<1> HIDE DEF pages
<1> QED
  BY <1>4, <1>5, <1>6 DEF pages

---------------------------------------------------------------------------
(* One entry's memory changes *)

(* The two frames allocproc() gives an entry. *)
Base(p) == {trapframe[p], root[p]} \ {Null}

(* What NoSharing says of one entry by itself. *)
Apart(p) ==
  /\ Held(p) \cap free = {}
  /\ trapframe[p] # Null => trapframe[p] # root[p]
  /\ \A i \in Mapped(pt[p]) :
       /\ pt[p][i] \notin {trapframe[p], root[p]}
       /\ \A j \in Mapped(pt[p]) : pt[p][i] = pt[p][j] => i = j

(* What an entry holds is its two frames and those of its table.           *)
LEMMA HeldIs == \A p \in Slot : Held(p) = Base(p) \cup Frames(pt[p])
  BY DEF Held, Base, Frames, Mapped

(* An entry's memory is sound, and its two frames are not part of it.      *)
LEMMA MemSound ==
  ASSUME MemTypeOK, NoSharing, NEW p \in Slot
  PROVE  /\ Sound(Mem(p))
         /\ Mem(p).t = pt[p] /\ Mem(p).free = free
         /\ Owned(Mem(p)) = free \cup Frames(pt[p])
         /\ Base(p) \cap Owned(Mem(p)) = {}
         /\ Base(p) \subseteq Frame
<1>1. Mem(p).t = pt[p] /\ Mem(p).free = free
  BY DEF Mem
<1>2. pt[p] \in [Page -> Frame \cup {Null}] /\ free \subseteq Frame
  BY DEF MemTypeOK
<1>3. Held(p) \cap free = {} /\ Held(p) = Base(p) \cup Frames(pt[p])
  BY HeldIs DEF NoSharing
<1>4. \A i, j \in Mapped(pt[p]) : pt[p][i] = pt[p][j] => i = j
  BY DEF NoSharing
<1>5. Base(p) \cap Frames(pt[p]) = {}
  BY DEF NoSharing, Base, Frames
<1>6. Base(p) \subseteq Frame
  BY DEF MemTypeOK, Base
<1> QED
  BY <1>1, <1>2, <1>3, <1>4, <1>5, <1>6 DEF Sound, Owned

(* If entry p trades frames with the pool and everything else stays, it is *)
(* enough to look at p: the others hold what they held.                    *)
LEMMA Trade ==
  ASSUME NoSharing, NoLeak, NEW p \in Slot,
         \A q \in Slot \ {p} : /\ trapframe'[q] = trapframe[q] /\ root'[q] = root[q]
                               /\ pt'[q] = pt[q],
         Held(p)' \cup free' = Held(p) \cup free,
         Apart(p)'
  PROVE  NoSharing' /\ NoLeak'
<1>1. \A q \in Slot \ {p} : Held(q)' = Held(q)
  BY DEF Held
<1>2. \A q \in Slot \ {p} : Held(q) \cap (Held(p) \cup free) = {}
  BY DEF NoSharing
<1>3. \A q \in Slot \ {p} : /\ Held(q)' \cap free' = {}
                            /\ Held(p)' \cap Held(q)' = {}
  BY <1>1, <1>2
<1>4. ASSUME NEW q \in Slot \ {p} PROVE Apart(q)'
  BY <1>3 DEF Apart, NoSharing
<1>5. \A q, o \in Slot \ {p} : q # o => Held(q)' \cap Held(o)' = {}
  BY <1>1 DEF NoSharing
<1>6. \A q \in Slot : Apart(q)'
  BY <1>4
<1>7. \A q \in Slot : \A o \in Slot \ {q} : Held(q)' \cap Held(o)' = {}
  BY <1>3, <1>5
<1>8. NoSharing'
  BY <1>6, <1>7 DEF NoSharing, Apart
<1>9. NoLeak'
  <2> SUFFICES ASSUME NEW f \in Frame, f \notin free' PROVE \E q \in Slot : f \in Held(q)'
    BY DEF NoLeak
  <2>1. f \in free \/ \E q \in Slot : f \in Held(q)
    BY DEF NoLeak
  <2>2. CASE f \in Held(p) \cup free
    BY <2>2
  <2>3. CASE \E q \in Slot \ {p} : f \in Held(q)
    BY <2>3, <1>1
  <2> QED
    BY <2>1, <2>2, <2>3
<1> QED
  BY <1>8, <1>9

(* The same for a call that keeps the entry's two frames.                  *)
LEMMA SetMemTrade ==
  ASSUME MemTypeOK, NoSharing, NoLeak, NEW p \in Slot, NEW m,
         Sound(m), Owned(m) = Owned(Mem(p)), SetMem(p, m),
         UNCHANGED <<trapframe, root>>
  PROVE  /\ NoSharing' /\ NoLeak'
         /\ pt'[p] = m.t /\ \A q \in Slot \ {p} : pt'[q] = pt[q]
         /\ free' \subseteq Frame /\ pt' \in [Slot -> [Page -> Frame \cup {Null}]]
<1>1. /\ pt' = [pt EXCEPT ![p] = m.t] /\ free' = m.free
      /\ trapframe' = trapframe /\ root' = root
  BY DEF SetMem
<1>2. pt'[p] = m.t /\ \A q \in Slot \ {p} : pt'[q] = pt[q]
  BY <1>1 DEF MemTypeOK
<1>3. free' \subseteq Frame /\ pt' \in [Slot -> [Page -> Frame \cup {Null}]]
  BY <1>1 DEF MemTypeOK, Sound
<1>4. Held(p)' = Base(p) \cup Frames(m.t)
  BY <1>1, <1>2 DEF Held, Base, Frames, Mapped
<1>5. Held(p)' \cup free' = Held(p) \cup free
  BY <1>1, <1>4, MemSound, HeldIs DEF Owned
<1>6. Apart(p)'
  <2>1. Base(p) \cap (free' \cup Frames(m.t)) = {}
    BY <1>1, MemSound DEF Owned
  <2>2. Held(p)' \cap free' = {}
    BY <1>1, <1>4, <2>1 DEF Sound
  <2>3. trapframe'[p] # Null => trapframe'[p] # root'[p]
    BY <1>1 DEF NoSharing
  <2>4. \A i \in Mapped(m.t) : m.t[i] \notin {trapframe[p], root[p]}
    BY <2>1 DEF Base, Frames, Mapped
  <2>5. \A i, j \in Mapped(m.t) : m.t[i] = m.t[j] => i = j
    BY DEF Sound
  <2> QED
    BY <1>1, <1>2, <2>2, <2>3, <2>4, <2>5 DEF Apart
<1>7. NoSharing' /\ NoLeak'
  BY <1>1, <1>2, <1>5, <1>6, Trade
<1> QED
  BY <1>2, <1>3, <1>7

---------------------------------------------------------------------------
(* Every step keeps the invariant *)

(* A size in use is a number, and what it maps lies below it.              *)
LEMMA SizeNat ==
  ASSUME MemIInv, NEW p \in Slot
  PROVE  /\ sz[p] \in Nat /\ sz[p] <= TRAPFRAME /\ TRAPFRAME \in Nat
         /\ \A i \in Mapped(pt[p]) : i < Pages(sz[p])
<1>1. TRAPFRAME \in Nat
  BY MemAssumption DEF TRAPFRAME
<1> QED
  BY <1>1 DEF MemIInv, MemTypeOK, WithinSize

(* A call that changes p's table and size and nothing else of the table of *)
(* processes.                                                              *)
LEMMA ResizeIInv ==
  ASSUME MemIInv, NEW p \in used, NEW m, NEW n \in Nat, n <= TRAPFRAME,
         Sound(m), Owned(m) = Owned(Mem(p)), SetMem(p, m),
         \A i \in Mapped(m.t) : i < Pages(n),
         sz' = [sz EXCEPT ![p] = n], panicked' = FALSE,
         capped[p] /\ ~lazy[p] => Pages(n) <= mem_quota[p],
         UNCHANGED <<used, trapframe, root, mem_quota, capped, lazy>>
  PROVE  MemIInv'
<1> USE DEF MemIInv
<1>0. p \in Slot
  BY DEF MemTypeOK
<1>1. /\ NoSharing' /\ NoLeak'
      /\ pt'[p] = m.t /\ \A q \in Slot \ {p} : pt'[q] = pt[q]
      /\ free' \subseteq Frame /\ pt' \in [Slot -> [Page -> Frame \cup {Null}]]
  BY <1>0, SetMemTrade
<1>2. TRAPFRAME \in Nat
  BY <1>0, SizeNat
<1>3. sz' \in [Slot -> 0 .. TRAPFRAME]
  BY <1>2 DEF MemTypeOK
<1>5. MemTypeOK' /\ NoPanic'
  BY <1>1, <1>3 DEF MemTypeOK, NoPanic
<1>6. sz'[p] = n /\ \A q \in Slot \ {p} : sz'[q] = sz[q]
  BY <1>0 DEF MemTypeOK
<1>7. WithinSize'
  <2> SUFFICES ASSUME NEW q \in Slot
               PROVE  /\ \A i \in Mapped(pt'[q]) : i < Pages(sz'[q])
                      /\ q \notin used => sz'[q] = 0 /\ trapframe[q] = Null /\ root[q] = Null
    BY DEF WithinSize
  <2> QED
    BY <1>1, <1>6 DEF WithinSize
<1>8. UsedHasFrames' /\ CappedHasQuota'
  BY DEF UsedHasFrames, CappedHasQuota
<1>9. EagerWithinQuota'
  <2> SUFFICES ASSUME NEW q \in used, capped[q], ~lazy[q]
               PROVE  Pages(sz'[q]) <= mem_quota[q]
    BY DEF EagerWithinQuota
  <2> QED
    BY <1>6 DEF EagerWithinQuota, MemTypeOK
<1> QED
  BY <1>1, <1>5, <1>7, <1>8, <1>9

(* A call that moves no frame.                                             *)
LEMMA SameFrames ==
  ASSUME NoSharing, NoLeak, UNCHANGED <<free, trapframe, root, pt>>
  PROVE  NoSharing' /\ NoLeak'
<1>1. \A q \in Slot : Held(q)' = Held(q)
  BY DEF Held
<1>2. NoSharing'
  BY <1>1 DEF NoSharing
<1>3. NoLeak'
  BY <1>1 DEF NoLeak
<1> QED
  BY <1>2, <1>3

(* setquota() takes nothing away: the history starts where it is kept.     *)
LEMMA SetQuotaIInv ==
  ASSUME MemIInv, NEW p \in used, NEW q \in Quotas, SetQuota(p, q)
  PROVE  MemIInv'
<1> USE DEF MemIInv, SetQuota
<1>0. p \in Slot /\ q \in Nat
  BY MemAssumption DEF MemTypeOK
<1>1. MemTypeOK'
  <2>1. mem_quota' \in [Slot -> Quotas \cup {0}]
    BY DEF MemTypeOK
  <2>2. capped' \in [Slot -> BOOLEAN]
    BY DEF MemTypeOK
  <2> QED
    BY <2>1, <2>2 DEF MemTypeOK
<1>2. NoSharing' /\ NoLeak'
  BY SameFrames
<1>3. WithinSize' /\ UsedHasFrames' /\ NoPanic'
  BY DEF WithinSize, UsedHasFrames, NoPanic
<1>4. /\ mem_quota'[p] = q /\ (capped'[p] <=> q > 0 /\ Pages(sz[p]) <= q)
      /\ \A o \in Slot \ {p} : mem_quota'[o] = mem_quota[o] /\ capped'[o] = capped[o]
  BY <1>0 DEF MemTypeOK
<1>5. CappedHasQuota'
  BY <1>4 DEF CappedHasQuota
<1>6. EagerWithinQuota'
  <2> SUFFICES ASSUME NEW o \in used, capped'[o], ~lazy[o]
               PROVE  Pages(sz[o]) <= mem_quota'[o]
    BY DEF EagerWithinQuota
  <2>1. o \in Slot
    BY DEF MemTypeOK
  <2> QED
    BY <2>1, <1>4 DEF EagerWithinQuota
<1> QED
  BY <1>1, <1>2, <1>3, <1>5, <1>6

(* sbrk(n), eager: whether uvmalloc() serves it or not.                    *)
LEMMA SbrkEagerIInv ==
  ASSUME MemIInv, NEW p \in used, NEW n \in SbrkSizes, SbrkEager(p, n)
  PROVE  MemIInv'
<1>0. p \in Slot /\ n \in Nat /\ MemTypeOK /\ NoSharing /\ NoLeak
  BY MemAssumption DEF MemIInv, MemTypeOK
<1>1. /\ sz[p] \in Nat /\ sz[p] <= TRAPFRAME /\ TRAPFRAME \in Nat
      /\ \A i \in Mapped(pt[p]) : i < Pages(sz[p])
  BY <1>0, SizeNat
<1>2. /\ Sound(Mem(p)) /\ Mem(p).t = pt[p]
  BY <1>0, MemSound
<1>3. PICK r \in uvmalloc(Mem(p), sz[p], sz[p] + n) :
         /\ SetMem(p, r.m)
         /\ sz' = IF r.ok THEN [sz EXCEPT ![p] = @ + n] ELSE sz
  BY DEF SbrkEager
<1>4. sz[p] + n \in Nat /\ sz[p] + n <= TRAPFRAME /\ sz[p] <= sz[p] + n
  BY <1>0, <1>1 DEF SbrkEager
<1>5. /\ Sound(r.m) /\ Owned(r.m) = Owned(Mem(p)) /\ r.ok \in BOOLEAN
      /\ Mapped(r.m.t) = Mapped(pt[p]) \cup (IF r.ok THEN Grown(sz[p], sz[p] + n) ELSE {})
  BY <1>1, <1>2, <1>4, AllocSound
<1>6. panicked' = FALSE
  <2>1. Grown(sz[p], sz[p] + n) \cap Mapped(pt[p]) = {}
    <3> SUFFICES ASSUME NEW i \in Mapped(pt[p]) PROVE i \notin Grown(sz[p], sz[p] + n)
      OBVIOUS
    <3>1. i \in Nat /\ i < Pages(sz[p]) /\ Pages(sz[p]) \in Nat
      BY <1>1, MappedNat, PagesFacts
    <3>2. PGSIZE \in Nat /\ PGSIZE > 0
      BY MemAssumption
    <3>3. i * PGSIZE + PGSIZE <= Pages(sz[p]) * PGSIZE
      BY <3>1, <3>2, MultLess
    <3>4. i * PGSIZE \in Nat /\ Pages(sz[p]) * PGSIZE \in Nat
      BY <3>1, <3>2, MultDiv
    <3>5. i * PGSIZE < PGROUNDUP(sz[p]) /\ PGROUNDUP(sz[p]) \in Nat
      BY <3>2, <3>3, <3>4, <1>1, PagesFacts
    <3> QED
      BY <3>4, <3>5 DEF Grown
  <2> QED
    BY <2>1, <1>2 DEF SbrkEager, Remap
<1>7. UNCHANGED <<used, trapframe, root, mem_quota, capped, lazy>>
  BY DEF SbrkEager
<1>8. CASE r.ok
  <2>1. \A i \in Mapped(r.m.t) : i < Pages(sz[p] + n)
    <3>1. \A i \in Grown(sz[p], sz[p] + n) : i < Pages(sz[p] + n)
      BY <1>4, PagesFacts, PageNat DEF Grown
    <3>2. /\ Pages(sz[p]) <= Pages(sz[p] + n)
          /\ Pages(sz[p]) \in Nat /\ Pages(sz[p] + n) \in Nat
      BY <1>1, <1>4, PagesRound, PagesFacts
    <3>3. \A i \in Mapped(pt[p]) : i < Pages(sz[p] + n)
      BY <3>2, <1>1, MappedNat
    <3> QED
      BY <3>1, <3>3, <1>5
  <2>2. capped[p] /\ ~lazy[p] => Pages(sz[p] + n) <= mem_quota[p]
    <3>1. QuotaAllows(p, n)
      BY DEF SbrkEager
    <3>2. capped[p] => mem_quota[p] > 0
      BY <1>0 DEF MemIInv, CappedHasQuota
    <3> QED
      BY <3>1, <3>2 DEF QuotaAllows
  <2>3. sz' = [sz EXCEPT ![p] = sz[p] + n]
    BY <1>3, <1>8
  <2> QED
    BY <1>3, <1>4, <1>5, <1>6, <1>7, <2>1, <2>2, <2>3, ResizeIInv
<1>9. CASE ~r.ok
  <2>1. \A i \in Mapped(r.m.t) : i < Pages(sz[p])
    BY <1>1, <1>5, <1>9
  <2>2. capped[p] /\ ~lazy[p] => Pages(sz[p]) <= mem_quota[p]
    BY DEF MemIInv, EagerWithinQuota
  <2>3. sz' = [sz EXCEPT ![p] = sz[p]]
    BY <1>0, <1>3, <1>9 DEF MemTypeOK
  <2> QED
    BY <1>1, <1>3, <1>5, <1>6, <1>7, <2>1, <2>2, <2>3, ResizeIInv
<1> QED
  BY <1>8, <1>9

(* sbrk(n), lazy: a larger size, and no claim about the quota any more.    *)
LEMMA SbrkLazyIInv ==
  ASSUME MemIInv, NEW p \in used, NEW n \in SbrkSizes, SbrkLazy(p, n)
  PROVE  MemIInv'
<1>0. p \in Slot /\ n \in Nat /\ MemTypeOK
  BY MemAssumption DEF MemIInv, MemTypeOK
<1>1. /\ sz[p] \in Nat /\ TRAPFRAME \in Nat
      /\ \A i \in Mapped(pt[p]) : i < Pages(sz[p])
  BY <1>0, SizeNat
<1>2. /\ sz[p] + n <= TRAPFRAME /\ sz' = [sz EXCEPT ![p] = sz[p] + n]
      /\ lazy' = [lazy EXCEPT ![p] = TRUE]
      /\ UNCHANGED <<free, used, trapframe, root, pt, mem_quota, capped, panicked>>
  BY DEF SbrkLazy
<1>3. MemTypeOK'
  <2>1. sz' \in [Slot -> 0 .. TRAPFRAME]
    BY <1>0, <1>1, <1>2 DEF MemTypeOK
  <2>2. lazy' \in [Slot -> BOOLEAN]
    BY <1>0, <1>2 DEF MemTypeOK
  <2> QED
    BY <1>0, <1>2, <2>1, <2>2 DEF MemTypeOK
<1>4. NoSharing' /\ NoLeak'
  BY <1>2, SameFrames DEF MemIInv
<1>5. UsedHasFrames' /\ NoPanic' /\ CappedHasQuota'
  BY <1>2 DEF MemIInv, UsedHasFrames, NoPanic, CappedHasQuota
<1>6. sz'[p] = sz[p] + n /\ \A q \in Slot \ {p} : sz'[q] = sz[q]
  BY <1>0, <1>2 DEF MemTypeOK
<1>7. WithinSize'
  <2>1. Pages(sz[p]) \in Nat /\ Pages(sz'[p]) \in Nat /\ Pages(sz[p]) <= Pages(sz'[p])
    BY <1>0, <1>1, <1>6, PagesFacts, PagesRound
  <2>2. \A i \in Mapped(pt[p]) : i < Pages(sz'[p])
    BY <2>1, <1>1, MappedNat
  <2> QED
    BY <1>2, <1>6, <2>2 DEF MemIInv, WithinSize
<1>8. EagerWithinQuota'
  <2>1. \A q \in used : ~lazy'[q] => q # p /\ ~lazy[q]
    BY <1>0, <1>2 DEF MemTypeOK
  <2>2. used \subseteq Slot
    BY <1>0 DEF MemTypeOK
  <2> QED
    BY <1>2, <1>6, <2>1, <2>2 DEF MemIInv, EagerWithinQuota
<1> QED
  BY <1>3, <1>4, <1>5, <1>7, <1>8 DEF MemIInv

(* sbrk(-n): the pages past the new size go back.                          *)
LEMMA SbrkShrinkIInv ==
  ASSUME MemIInv, NEW p \in used, NEW n \in SbrkSizes, SbrkShrink(p, n)
  PROVE  MemIInv'
<1>0. p \in Slot /\ n \in Nat /\ n > 0 /\ MemTypeOK /\ NoSharing /\ NoLeak
  BY MemAssumption DEF MemIInv, MemTypeOK
<1>1. /\ sz[p] \in Nat /\ sz[p] <= TRAPFRAME /\ TRAPFRAME \in Nat
      /\ \A i \in Mapped(pt[p]) : i < Pages(sz[p])
  BY <1>0, SizeNat
<1>2. sz[p] - n \in Nat /\ sz[p] - n <= TRAPFRAME /\ sz[p] - n < sz[p]
  BY <1>0, <1>1 DEF SbrkShrink
<1> DEFINE m == uvmunmap(Mem(p), Pages(sz[p] - n), Pages(sz[p]))
<1>3. SetMem(p, m)
  BY <1>1, <1>2 DEF SbrkShrink, uvmdealloc
<1>4. /\ Pages(sz[p] - n) \in Nat /\ Pages(sz[p]) \in Nat
      /\ Pages(sz[p] - n) <= Pages(sz[p])
  BY <1>1, <1>2, PagesFacts, PagesRound
<1>5. Sound(Mem(p)) /\ Mem(p).t = pt[p]
  BY <1>0, MemSound
<1>6. /\ Sound(m) /\ Owned(m) = Owned(Mem(p))
      /\ \A i : i \in Mapped(m.t) <=> i \in Mapped(pt[p])
                                      /\ ~(Pages(sz[p] - n) <= i /\ i < Pages(sz[p]))
  BY <1>4, <1>5, UnmapSound
<1>7. \A i \in Mapped(m.t) : i < Pages(sz[p] - n)
  <2> SUFFICES ASSUME NEW i \in Mapped(m.t) PROVE i < Pages(sz[p] - n)
    OBVIOUS
  <2>1. i \in Nat /\ i < Pages(sz[p]) /\ ~(Pages(sz[p] - n) <= i /\ i < Pages(sz[p]))
    BY <1>1, <1>6, MappedNat
  <2> QED
    BY <2>1, <1>4
<1>8. capped[p] /\ ~lazy[p] => Pages(sz[p] - n) <= mem_quota[p]
  <2>1. mem_quota[p] \in Nat
    <3>1. mem_quota[p] \in Quotas \cup {0}
      BY <1>0 DEF MemTypeOK
    <3>2. Quotas \subseteq Nat
      BY MemAssumption
    <3>3. CASE mem_quota[p] \in Quotas
      BY <3>2, <3>3
    <3>4. CASE mem_quota[p] = 0
      BY <3>4
    <3> QED
      BY <3>1, <3>3, <3>4
  <2>2. capped[p] /\ ~lazy[p] => Pages(sz[p]) <= mem_quota[p]
    BY DEF MemIInv, EagerWithinQuota
  <2> QED
    BY <2>1, <2>2, <1>4
<1>9. /\ sz' = [sz EXCEPT ![p] = sz[p] - n] /\ panicked' = FALSE
      /\ UNCHANGED <<used, trapframe, root, mem_quota, capped, lazy>>
  BY <1>0 DEF SbrkShrink, MemIInv, NoPanic, MemTypeOK
<1> HIDE DEF m
<1> QED
  BY <1>2, <1>3, <1>6, <1>7, <1>8, <1>9, ResizeIInv

(* A page fault maps one page below the size.                              *)
LEMMA VmFaultIInv ==
  ASSUME MemIInv, NEW p \in used, VmFault(p)
  PROVE  MemIInv'
<1>0. p \in Slot /\ MemTypeOK /\ NoSharing /\ NoLeak
  BY DEF MemIInv, MemTypeOK
<1>1. /\ sz[p] \in Nat /\ sz[p] <= TRAPFRAME /\ TRAPFRAME \in Nat
      /\ \A i \in Mapped(pt[p]) : i < Pages(sz[p])
  BY <1>0, SizeNat
<1>2. PICK i \in Page \ Mapped(pt[p]), f \in free :
         /\ i * PGSIZE < sz[p]
         /\ SetMem(p, MapPages(Mem(p), {i}, [j \in {i} |-> f]))
  BY DEF VmFault
<1> DEFINE g == [j \in {i} |-> f]
           m == MapPages(Mem(p), {i}, g)
<1>3. Sound(Mem(p)) /\ Mem(p).t = pt[p] /\ Mem(p).free = free
  BY <1>0, MemSound
<1>4. g \in Placements({i}, Mem(p).free)
  BY <1>3 DEF Placements
<1> HIDE DEF g
<1>5. /\ Sound(m) /\ Owned(m) = Owned(Mem(p))
      /\ Mapped(m.t) = Mapped(pt[p]) \cup {i}
  <2>1. {i} \in SUBSET Page /\ {i} \cap Mapped(Mem(p).t) = {}
    BY <1>3
  <2> QED
    BY <2>1, <1>3, <1>4, MapPagesSound
<1>6. i < Pages(sz[p])
  BY <1>1, <1>2, PageNat, PagesFacts
<1>7. capped[p] /\ ~lazy[p] => Pages(sz[p]) <= mem_quota[p]
  BY DEF MemIInv, EagerWithinQuota
<1>8. SetMem(p, m)
  BY <1>2 DEF g
<1> HIDE DEF m
<1>9. /\ sz' = [sz EXCEPT ![p] = sz[p]] /\ panicked' = FALSE
      /\ UNCHANGED <<used, trapframe, root, mem_quota, capped, lazy>>
  BY <1>0 DEF VmFault, MemIInv, NoPanic, MemTypeOK
<1>10. \A j \in Mapped(m.t) : j < Pages(sz[p])
  BY <1>1, <1>5, <1>6
<1> QED
  BY <1>1, <1>5, <1>7, <1>8, <1>9, <1>10, ResizeIInv

(* An entry's frames change altogether: fork() fills an entry, freeproc()  *)
(* empties one, exec() replaces a page table.                              *)
LEMMA NewFrames ==
  ASSUME MemTypeOK, NoSharing, NoLeak, NEW p \in Slot, NEW a, NEW b, NEW t,
         trapframe' = [trapframe EXCEPT ![p] = a],
         root' = [root EXCEPT ![p] = b],
         pt' = [pt EXCEPT ![p] = t],
         a # Null => a # b,
         ({a, b} \ {Null}) \cap (free' \cup Frames(t)) = {},
         Frames(t) \cap free' = {},
         \A i, j \in Mapped(t) : t[i] = t[j] => i = j,
         free' \cup Frames(t) \cup ({a, b} \ {Null}) = free \cup Held(p)
  PROVE  NoSharing' /\ NoLeak'
<1>1. /\ trapframe'[p] = a /\ root'[p] = b /\ pt'[p] = t
      /\ \A q \in Slot \ {p} : /\ trapframe'[q] = trapframe[q] /\ root'[q] = root[q]
                               /\ pt'[q] = pt[q]
  BY DEF MemTypeOK
<1>2. Held(p)' = Frames(t) \cup ({a, b} \ {Null})
  BY <1>1 DEF Held, Frames, Mapped
<1>3. \A i \in Mapped(t) : t[i] \notin {a, b}
  BY DEF Frames, Mapped
<1>4. Apart(p)'
  BY <1>1, <1>2, <1>3 DEF Apart
<1>5. Held(p)' \cup free' = Held(p) \cup free
  BY <1>2
<1> QED
  BY <1>1, <1>4, <1>5, Trade

(* An entry that is not used holds nothing.                                *)
LEMMA UnusedEmpty ==
  ASSUME MemIInv, NEW p \in Slot \ used
  PROVE  Held(p) = {} /\ trapframe[p] = Null /\ root[p] = Null
<1>1. trapframe[p] = Null /\ root[p] = Null /\ sz[p] = 0
  BY DEF MemIInv, WithinSize
<1>2. Mapped(pt[p]) = {}
  <2>1. \A i \in Mapped(pt[p]) : i \in Nat /\ i < Pages(0)
    BY <1>1, MappedNat DEF MemIInv, WithinSize
  <2>2. \A i \in Mapped(pt[p]) : FALSE
    BY <2>1, PagesRound
  <2> QED
    BY <2>2
<1>3. Frames(pt[p]) = {} /\ Base(p) = {}
  BY <1>1, <1>2 DEF Frames, Base
<1> QED
  BY <1>1, <1>3, HeldIs

(* The pages fork() copies, and what it copies them into.                  *)
Copied(p) == {i \in Mapped(pt[p]) : i * PGSIZE < sz[p]}

(* The pool that is left after allocproc() is sound with an empty table.   *)
LEMMA ForkPool ==
  ASSUME MemIInv, NEW p \in used, NEW fg \in TwoFrames
  PROVE  LET m == [t |-> NoPages, free |-> free \ {fg[1], fg[2]}]
         IN  /\ fg[1] \in Frame /\ fg[2] \in Frame /\ fg[1] # fg[2]
             /\ fg[1] \in free /\ fg[2] \in free
             /\ Sound(m) /\ Mapped(m.t) = {} /\ Owned(m) = m.free
             /\ Copied(p) \subseteq Page /\ Copied(p) \subseteq Nat
<1>1. /\ fg[1] \in free /\ fg[2] \in free /\ fg[1] # fg[2]
  BY DEF TwoFrames
<1>2. free \subseteq Frame
  BY DEF MemIInv, MemTypeOK
<1>3. free \ {fg[1], fg[2]} \in SUBSET Frame
  BY <1>2
<1>4. Copied(p) \subseteq Page /\ Copied(p) \subseteq Nat
  BY PageNat DEF Copied, Mapped
<1> QED
  BY <1>1, <1>2, <1>3, <1>4, NoPagesSound

(* fork(): the child gets frames of its own, and the parent's quota.       *)
LEMMA ForkIInv ==
  ASSUME MemIInv, NEW p \in used, Fork(p)
  PROVE  MemIInv'
<1>0. p \in Slot /\ MemTypeOK /\ NoSharing /\ NoLeak
  BY DEF MemIInv, MemTypeOK
<1>1. PICK np \in Slot \ used, fg \in TwoFrames :
        LET m == [t |-> NoPages, free |-> free \ {fg[1], fg[2]}] IN
        /\ \E g \in Placements(Copied(p), m.free) : SetMem(np, MapPages(m, Copied(p), g))
        /\ used' = used \cup {np}
        /\ trapframe' = [trapframe EXCEPT ![np] = fg[1]]
        /\ root' = [root EXCEPT ![np] = fg[2]]
        /\ sz' = [sz EXCEPT ![np] = sz[p]]
        /\ mem_quota' = [mem_quota EXCEPT ![np] = mem_quota[p]]
        /\ capped' = [capped EXCEPT ![np] = capped[p]]
        /\ lazy' = [lazy EXCEPT ![np] = lazy[p]]
        /\ UNCHANGED panicked
  BY DEF Fork, Copied
<1> DEFINE m == [t |-> NoPages, free |-> free \ {fg[1], fg[2]}]
<1>2. PICK g \in Placements(Copied(p), m.free) : SetMem(np, MapPages(m, Copied(p), g))
  BY <1>1
<1> DEFINE u == MapPages(m, Copied(p), g)
<1>3. /\ fg[1] \in Frame /\ fg[2] \in Frame /\ fg[1] # fg[2]
      /\ fg[1] \in free /\ fg[2] \in free
      /\ Sound(m) /\ Mapped(m.t) = {} /\ Owned(m) = m.free
      /\ Copied(p) \subseteq Page /\ Copied(p) \subseteq Nat
  BY ForkPool
<1>4. m.free = free \ {fg[1], fg[2]}
  OBVIOUS
<1> HIDE DEF m
<1>5. /\ Sound(u) /\ Owned(u) = m.free /\ Mapped(u.t) = Copied(p)
  <2>1. Copied(p) \in SUBSET Page /\ Copied(p) \cap Mapped(m.t) = {}
    BY <1>3
  <2>2. /\ Sound(u) /\ Owned(u) = Owned(m)
        /\ Mapped(u.t) = Mapped(m.t) \cup Copied(p)
    BY <1>3, <2>1, MapPagesSound
  <2> QED
    BY <1>3, <2>2
<1>6. pt' = [pt EXCEPT ![np] = u.t] /\ free' = u.free
  BY <1>2 DEF SetMem
<1> HIDE DEF u
<1>7. /\ u.t \in [Page -> Frame \cup {Null}] /\ u.free \subseteq Frame
      /\ Frames(u.t) \cap u.free = {} /\ u.free \cup Frames(u.t) = m.free
      /\ \A i, j \in Mapped(u.t) : u.t[i] = u.t[j] => i = j
  BY <1>5 DEF Sound, Owned
<1>8. Held(np) = {} /\ Null \notin Frame
  BY UnusedEmpty, MemAssumption
<1>9. NoSharing' /\ NoLeak'
  <2>1. ({fg[1], fg[2]} \ {Null}) \cap (free' \cup Frames(u.t)) = {}
    BY <1>4, <1>6, <1>7
  <2>2. Frames(u.t) \cap free' = {}
    BY <1>6, <1>7
  <2>3. free' \cup Frames(u.t) \cup ({fg[1], fg[2]} \ {Null}) = free \cup Held(np)
    BY <1>3, <1>4, <1>6, <1>7, <1>8
  <2> QED
    BY <1>0, <1>1, <1>3, <1>6, <1>7, <2>1, <2>2, <2>3, NewFrames
<1>10. /\ sz[p] \in Nat /\ \A i \in Mapped(pt[p]) : i < Pages(sz[p])
  BY <1>0, SizeNat
<1>11. MemTypeOK'
  <2>1. /\ free' \subseteq Frame /\ used' \subseteq Slot
        /\ pt' \in [Slot -> [Page -> Frame \cup {Null}]]
    BY <1>0, <1>1, <1>6, <1>7 DEF MemTypeOK
  <2>2. /\ trapframe' \in [Slot -> Frame \cup {Null}]
        /\ root' \in [Slot -> Frame \cup {Null}]
        /\ sz' \in [Slot -> 0 .. TRAPFRAME]
        /\ mem_quota' \in [Slot -> Quotas \cup {0}]
    BY <1>0, <1>1, <1>3 DEF MemTypeOK
  <2>3. capped' \in [Slot -> BOOLEAN] /\ lazy' \in [Slot -> BOOLEAN] /\ panicked' \in BOOLEAN
    BY <1>0, <1>1 DEF MemTypeOK
  <2> QED
    BY <2>1, <2>2, <2>3 DEF MemTypeOK
<1>12. /\ pt'[np] = u.t /\ trapframe'[np] = fg[1] /\ root'[np] = fg[2] /\ sz'[np] = sz[p]
       /\ mem_quota'[np] = mem_quota[p] /\ capped'[np] = capped[p] /\ lazy'[np] = lazy[p]
       /\ \A q \in Slot \ {np} :
            /\ pt'[q] = pt[q] /\ trapframe'[q] = trapframe[q] /\ root'[q] = root[q]
            /\ sz'[q] = sz[q] /\ mem_quota'[q] = mem_quota[q]
            /\ capped'[q] = capped[q] /\ lazy'[q] = lazy[q]
  BY <1>0, <1>1, <1>6 DEF MemTypeOK
<1>13. WithinSize'
  <2>1. \A i \in Mapped(u.t) : i < Pages(sz[p])
    BY <1>5, <1>10 DEF Copied
  <2>2. ASSUME NEW q \in Slot
        PROVE  /\ \A i \in Mapped(pt'[q]) : i < Pages(sz'[q])
               /\ q \notin used' => sz'[q] = 0 /\ trapframe'[q] = Null /\ root'[q] = Null
    <3>1. CASE q = np
      BY <1>1, <1>12, <2>1, <3>1
    <3>2. CASE q # np
      <4>1. /\ pt'[q] = pt[q] /\ trapframe'[q] = trapframe[q] /\ root'[q] = root[q]
            /\ sz'[q] = sz[q] /\ (q \notin used' => q \notin used)
        BY <1>1, <1>12, <3>2
      <4>2. /\ \A i \in Mapped(pt[q]) : i < Pages(sz[q])
            /\ q \notin used => sz[q] = 0 /\ trapframe[q] = Null /\ root[q] = Null
        BY DEF MemIInv, WithinSize
      <4> QED
        BY <4>1, <4>2
    <3> QED
      BY <3>1, <3>2
  <2>3. \A t : Mapped(t)' = Mapped(t)
    BY DEF Mapped
  <2> QED
    BY <2>2, <2>3 DEF WithinSize
<1>14. UsedHasFrames' /\ NoPanic'
  BY <1>0, <1>1, <1>3, <1>8, <1>12 DEF MemIInv, UsedHasFrames, NoPanic, MemTypeOK
<1>15. CappedHasQuota'
  BY <1>0, <1>12 DEF MemIInv, CappedHasQuota
<1>16. EagerWithinQuota'
  BY <1>0, <1>1, <1>12 DEF MemIInv, EagerWithinQuota, MemTypeOK
<1> QED
  BY <1>9, <1>11, <1>13, <1>14, <1>15, <1>16 DEF MemIInv

(* A fork() that fails at page k returns every frame it had taken.         *)
LEMMA ForkFailsIInv ==
  ASSUME MemIInv, NEW p \in used, ForkFails(p)
  PROVE  MemIInv'
<1>1. PICK np \in Slot \ used, fg \in TwoFrames, k \in Copied(p) :
        LET m == [t |-> NoPages, free |-> free \ {fg[1], fg[2]}] IN
        \E g \in Placements({i \in Copied(p) : i < k}, m.free) :
        LET u == uvmfree(CopyUndo(MapPages(m, {i \in Copied(p) : i < k}, g), k), 0)
        IN /\ free' = u.free \cup {fg[1], fg[2]}
           /\ panicked' = (Mapped(u.t) # {})
           /\ UNCHANGED <<used, trapframe, root, pt, sz, mem_quota, capped, lazy>>
  BY DEF ForkFails, Copied
<1> DEFINE m == [t |-> NoPages, free |-> free \ {fg[1], fg[2]}]
           below == {i \in Copied(p) : i < k}
<1>2. PICK g \in Placements(below, m.free) :
        LET u == uvmfree(CopyUndo(MapPages(m, below, g), k), 0)
        IN /\ free' = u.free \cup {fg[1], fg[2]}
           /\ panicked' = (Mapped(u.t) # {})
  BY <1>1
<1> DEFINE c == MapPages(m, below, g)
           d == CopyUndo(c, k)
           u == uvmfree(d, 0)
<1>3. /\ fg[1] \in free /\ fg[2] \in free
      /\ Sound(m) /\ Mapped(m.t) = {} /\ Owned(m) = m.free
      /\ Copied(p) \subseteq Page /\ Copied(p) \subseteq Nat
  BY ForkPool
<1>4. m.free = free \ {fg[1], fg[2]}
  OBVIOUS
<1> HIDE DEF m
<1>5. below \in SUBSET Page /\ below \cap Mapped(m.t) = {} /\ k \in Nat /\ 0 \in Nat
  BY <1>3
<1>6. Sound(c) /\ Owned(c) = m.free /\ Mapped(c.t) = below
  <2> HIDE DEF below
  <2>1. /\ Sound(c) /\ Owned(c) = Owned(m)
        /\ Mapped(c.t) = Mapped(m.t) \cup below
    BY <1>3, <1>5, MapPagesSound
  <2> QED
    BY <1>3, <2>1
<1> HIDE DEF c
<1>7. /\ Sound(d) /\ Owned(d) = Owned(c)
      /\ \A i : i \in Mapped(d.t) <=> i \in Mapped(c.t) /\ ~(0 <= i /\ i < k)
  BY <1>5, <1>6, UnmapSound DEF CopyUndo
<1> HIDE DEF d
<1>8. \A i \in Mapped(d.t) : i < Pages(0)
  <2>1. \A i \in Mapped(d.t) : i \in Nat /\ i < k /\ ~(0 <= i /\ i < k)
    BY <1>3, <1>6, <1>7
  <2> QED
    BY <2>1
<1>9. Mapped(u.t) = {} /\ u.free = Owned(d)
  BY <1>5, <1>7, <1>8, FreeSound
<1>10. free' = free /\ panicked' = FALSE
  <2>1. free' = u.free \cup {fg[1], fg[2]} /\ panicked' = (Mapped(u.t) # {})
    BY <1>2 DEF c, d
  <2> QED
    BY <2>1, <1>3, <1>4, <1>6, <1>7, <1>9
<1>11. UNCHANGED memvars
  BY <1>1, <1>10 DEF memvars, MemIInv, NoPanic, MemTypeOK
<1> QED
  BY <1>11, SameFrames DEF memvars, MemIInv, MemTypeOK, WithinSize, UsedHasFrames, NoPanic,
       CappedHasQuota, EagerWithinQuota

(* freeproc() returns all an entry held.                                   *)
LEMMA FreeProcIInv ==
  ASSUME MemIInv, NEW p \in used, FreeProc(p)
  PROVE  MemIInv'
<1>0. p \in Slot /\ MemTypeOK /\ NoSharing /\ NoLeak
  BY DEF MemIInv, MemTypeOK
<1>1. sz[p] \in Nat /\ \A i \in Mapped(pt[p]) : i < Pages(sz[p])
  BY <1>0, SizeNat
<1>2. /\ Sound(Mem(p)) /\ Mem(p).t = pt[p]
      /\ Owned(Mem(p)) = free \cup Frames(pt[p])
      /\ Base(p) \cap Owned(Mem(p)) = {} /\ Base(p) \subseteq Frame
  BY <1>0, MemSound
<1> DEFINE u == uvmfree(Mem(p), sz[p])
<1>3. Mapped(u.t) = {} /\ u.free = free \cup Frames(pt[p])
  BY <1>1, <1>2, FreeSound
<1>4. /\ free' = u.free \cup {trapframe[p], root[p]}
      /\ panicked' = (Mapped(u.t) # {})
  BY DEF FreeProc
<1> HIDE DEF u
<1>5. /\ used' = used \ {p}
      /\ trapframe' = [trapframe EXCEPT ![p] = Null]
      /\ root' = [root EXCEPT ![p] = Null]
      /\ pt' = [pt EXCEPT ![p] = NoPages]
      /\ sz' = [sz EXCEPT ![p] = 0]
      /\ mem_quota' = [mem_quota EXCEPT ![p] = 0]
      /\ capped' = [capped EXCEPT ![p] = FALSE]
      /\ lazy' = [lazy EXCEPT ![p] = FALSE]
  BY DEF FreeProc
<1>6. Base(p) = {trapframe[p], root[p]}
  BY DEF MemIInv, UsedHasFrames, Base
<1>7. free' = free \cup Held(p) /\ panicked' = FALSE
  BY <1>0, <1>3, <1>4, <1>6, HeldIs
<1>8. Mapped(NoPages) = {} /\ Frames(NoPages) = {} /\ NoPages \in [Page -> Frame \cup {Null}]
  BY DEF Mapped, NoPages, Frames
<1>9. NoSharing' /\ NoLeak'
  <2>1. {Null, Null} \ {Null} = {}
    OBVIOUS
  <2>2. ({Null, Null} \ {Null}) \cap (free' \cup Frames(NoPages)) = {}
    BY <2>1
  <2>3. Frames(NoPages) \cap free' = {}
    BY <1>8
  <2>4. \A i, j \in Mapped(NoPages) : NoPages[i] = NoPages[j] => i = j
    BY <1>8
  <2>5. free' \cup Frames(NoPages) \cup ({Null, Null} \ {Null}) = free \cup Held(p)
    BY <1>7, <1>8
  <2> QED
    BY <1>0, <1>5, <2>2, <2>3, <2>4, <2>5, NewFrames
<1>10. MemTypeOK'
  <2>1. /\ free' \subseteq Frame /\ used' \subseteq Slot
        /\ pt' \in [Slot -> [Page -> Frame \cup {Null}]]
    <3>1. Frames(pt[p]) \subseteq Frame
      BY <1>0 DEF MemTypeOK, Frames, Mapped
    <3> QED
      BY <1>0, <1>2, <1>3, <1>4, <1>5, <1>6, <1>8, <3>1 DEF MemTypeOK
  <2>2. /\ trapframe' \in [Slot -> Frame \cup {Null}]
        /\ root' \in [Slot -> Frame \cup {Null}]
        /\ mem_quota' \in [Slot -> Quotas \cup {0}]
    BY <1>0, <1>5 DEF MemTypeOK
  <2>3. sz' \in [Slot -> 0 .. TRAPFRAME]
    BY <1>0, <1>5, SizeNat DEF MemTypeOK
  <2>4. capped' \in [Slot -> BOOLEAN] /\ lazy' \in [Slot -> BOOLEAN] /\ panicked' \in BOOLEAN
    BY <1>0, <1>5, <1>7 DEF MemTypeOK
  <2> QED
    BY <2>1, <2>2, <2>3, <2>4 DEF MemTypeOK
<1>11. /\ pt'[p] = NoPages /\ trapframe'[p] = Null /\ root'[p] = Null /\ sz'[p] = 0
       /\ ~capped'[p] /\ \A q \in Slot \ {p} :
            /\ pt'[q] = pt[q] /\ trapframe'[q] = trapframe[q] /\ root'[q] = root[q]
            /\ sz'[q] = sz[q] /\ mem_quota'[q] = mem_quota[q]
            /\ capped'[q] = capped[q] /\ lazy'[q] = lazy[q]
  BY <1>0, <1>5 DEF MemTypeOK
<1>12. WithinSize' /\ NoPanic'
  BY <1>5, <1>7, <1>8, <1>11 DEF MemIInv, WithinSize, NoPanic
<1>13. UsedHasFrames' /\ CappedHasQuota'
  BY <1>0, <1>5, <1>11 DEF MemIInv, UsedHasFrames, CappedHasQuota, MemTypeOK
<1>14. EagerWithinQuota'
  BY <1>0, <1>5, <1>11 DEF MemIInv, EagerWithinQuota, MemTypeOK
<1> QED
  BY <1>9, <1>10, <1>12, <1>13, <1>14 DEF MemIInv

(* exec(): however far it gets, the new table owns the pool it drew from,  *)
(* and maps nothing past the size exec() has on record for it.             *)
LEMMA BuiltSound ==
  ASSUME MemIInv, NEW f \in free, NEW s \in ImageSizes, NEW b \in Built(f, s)
  PROVE  /\ Sound(b.m) /\ Owned(b.m) = free \ {f}
         /\ b.sz \in Nat /\ b.sz <= TRAPFRAME
         /\ \A i \in Mapped(b.m.t) : i < Pages(b.sz)
<1> DEFINE m == [t |-> NoPages, free |-> free \ {f}]
<1>1. Sound(m) /\ Mapped(m.t) = {} /\ Owned(m) = free \ {f}
  <2>1. free \ {f} \in SUBSET Frame
    BY DEF MemIInv, MemTypeOK
  <2> QED
    BY <2>1, NoPagesSound
<1>2. /\ s \in Nat /\ 0 \in Nat /\ PGSIZE \in Nat /\ PGSIZE > 0 /\ USERSTACK \in Nat
      /\ TRAPFRAME \in Nat
  BY MemAssumption DEF TRAPFRAME
<1>3. PICK r \in uvmalloc(m, 0, s) :
        b \in (IF ~r.ok THEN {[ok |-> FALSE, m |-> r.m, sz |-> 0]}
               ELSE {[ok |-> q.ok, m |-> q.m, sz |-> IF q.ok THEN Image(s) ELSE PGROUNDUP(s)] :
                       q \in uvmalloc(r.m, PGROUNDUP(s), Image(s))})
  BY DEF Built
<1> HIDE DEF m
<1>4. /\ Sound(r.m) /\ Owned(r.m) = free \ {f} /\ r.ok \in BOOLEAN
      /\ Mapped(r.m.t) = IF r.ok THEN Grown(0, s) ELSE {}
  <2>1. \A i \in Mapped(m.t) : i < Pages(0)
    BY <1>1
  <2>2. /\ Sound(r.m) /\ Owned(r.m) = Owned(m) /\ r.ok \in BOOLEAN
        /\ Mapped(r.m.t) = Mapped(m.t) \cup (IF r.ok THEN Grown(0, s) ELSE {})
    <3>1. Sound(m) /\ s \in Nat /\ 0 \in Nat /\ r \in uvmalloc(m, 0, s)
      BY <1>1, <1>2
    <3> QED
      BY <3>1, <2>1, AllocSound
  <2> QED
    BY <1>1, <2>2
<1>5. /\ PGROUNDUP(s) \in Nat /\ Image(s) \in Nat
      /\ PGROUNDUP(s) <= Image(s) /\ Image(s) <= TRAPFRAME
  <2>1. PGROUNDUP(s) \in Nat
    BY <1>2, PagesFacts
  <2>2. (USERSTACK + 1) * PGSIZE \in Nat
    BY <1>2, MultDiv
  <2> QED
    BY <2>1, <2>2, ImageAssumption DEF Image
<1>6. CASE ~r.ok
  <2>1. b = [ok |-> FALSE, m |-> r.m, sz |-> 0]
    BY <1>3, <1>6
  <2> QED
    BY <2>1, <1>2, <1>4, <1>6
<1>7. CASE r.ok
  <2>1. PICK q \in uvmalloc(r.m, PGROUNDUP(s), Image(s)) :
          b = [ok |-> q.ok, m |-> q.m, sz |-> IF q.ok THEN Image(s) ELSE PGROUNDUP(s)]
    BY <1>3, <1>7
  <2>2. \A i \in Mapped(r.m.t) : i < Pages(PGROUNDUP(s))
    <3>1. \A i \in Grown(0, s) : i < Pages(s)
      BY <1>2, PagesFacts, PageNat DEF Grown
    <3> QED
      BY <3>1, <1>2, <1>4, <1>7, PagesRound
  <2>3. /\ Sound(q.m) /\ Owned(q.m) = Owned(r.m) /\ q.ok \in BOOLEAN
        /\ Mapped(q.m.t) = Mapped(r.m.t)
                             \cup (IF q.ok THEN Grown(PGROUNDUP(s), Image(s)) ELSE {})
    BY <1>4, <1>5, <2>2, AllocSound
  <2>4. \A i \in Grown(PGROUNDUP(s), Image(s)) : i < Pages(Image(s))
    BY <1>5, PagesFacts, PageNat DEF Grown
  <2>5. \A i \in Mapped(r.m.t) : i < Pages(Image(s))
    <3>1. /\ Pages(PGROUNDUP(s)) <= Pages(Image(s))
          /\ Pages(PGROUNDUP(s)) \in Nat /\ Pages(Image(s)) \in Nat
      BY <1>5, PagesRound, PagesFacts
    <3> QED
      BY <3>1, <2>2, MappedNat
  <2>6. b.m = q.m /\ b.sz = IF q.ok THEN Image(s) ELSE PGROUNDUP(s)
    BY <2>1
  <2>7. b.sz \in Nat /\ b.sz <= TRAPFRAME
    BY <1>2, <1>5, <2>6
  <2>8. \A i \in Mapped(b.m.t) : i < Pages(b.sz)
    BY <2>2, <2>3, <2>4, <2>5, <2>6
  <2> QED
    BY <1>4, <2>3, <2>6, <2>7, <2>8
<1> QED
  BY <1>4, <1>6, <1>7

(* exec() that succeeds: the old image goes back to the pool.              *)
LEMMA ExecIInv ==
  ASSUME MemIInv, NEW p \in used, NEW s \in ImageSizes, Exec(p, s)
  PROVE  MemIInv'
<1>0. p \in Slot /\ MemTypeOK /\ NoSharing /\ NoLeak
  BY DEF MemIInv, MemTypeOK
<1> DEFINE Result(f, b) ==
             LET old == uvmfree([t |-> pt[p], free |-> b.m.free], sz[p]) IN
             /\ pt' = [pt EXCEPT ![p] = b.m.t]
             /\ free' = old.free \cup {root[p]}
             /\ panicked' = (Mapped(old.t) # {})
             /\ root' = [root EXCEPT ![p] = f]
             /\ sz' = [sz EXCEPT ![p] = b.sz]
<1>a. PICK f \in free : \E b \in Built(f, s) : Result(f, b)
  BY DEF Exec
<1>1. PICK b \in Built(f, s) : Result(f, b)
  BY <1>a
<1>2. /\ capped' = [capped EXCEPT ![p] = FALSE]
      /\ lazy' = [lazy EXCEPT ![p] = FALSE]
      /\ UNCHANGED <<used, trapframe, mem_quota>>
  BY DEF Exec
<1>3. /\ Sound(b.m) /\ Owned(b.m) = free \ {f}
      /\ b.sz \in Nat /\ b.sz <= TRAPFRAME
      /\ \A i \in Mapped(b.m.t) : i < Pages(b.sz)
  BY BuiltSound
<1>4. /\ b.m.t \in [Page -> Frame \cup {Null}] /\ b.m.free \subseteq Frame
      /\ Frames(b.m.t) \cap b.m.free = {} /\ b.m.free \cup Frames(b.m.t) = free \ {f}
      /\ \A i, j \in Mapped(b.m.t) : b.m.t[i] = b.m.t[j] => i = j
  BY <1>3 DEF Sound, Owned
<1>5. sz[p] \in Nat /\ \A i \in Mapped(pt[p]) : i < Pages(sz[p])
  BY <1>0, SizeNat
<1>6. /\ Sound(Mem(p)) /\ Mem(p).t = pt[p] /\ Mem(p).free = free
      /\ Owned(Mem(p)) = free \cup Frames(pt[p])
      /\ Base(p) \cap Owned(Mem(p)) = {} /\ Base(p) \subseteq Frame
  BY <1>0, MemSound
<1> DEFINE o == [t |-> pt[p], free |-> b.m.free]
           old == uvmfree(o, sz[p])
<1>7. o.t = pt[p] /\ o.free = b.m.free
  OBVIOUS
<1>8. free' = old.free \cup {root[p]} /\ panicked' = (Mapped(old.t) # {})
  BY <1>1
<1> HIDE DEF o
<1>9. Sound(o) /\ Owned(o) = b.m.free \cup Frames(pt[p])
  BY <1>4, <1>6, <1>7 DEF Sound, Owned
<1>10. Mapped(old.t) = {} /\ old.free = b.m.free \cup Frames(pt[p])
  BY <1>5, <1>7, <1>9, FreeSound
<1> HIDE DEF old
<1>11. /\ Base(p) = {trapframe[p], root[p]} /\ trapframe[p] # Null /\ root[p] # Null
       /\ trapframe[p] # root[p]
  BY <1>0 DEF MemIInv, UsedHasFrames, Base, NoSharing
<1>12. free' = b.m.free \cup Frames(pt[p]) \cup {root[p]} /\ panicked' = FALSE
  BY <1>8, <1>10
<1>13. Frames(pt[p]) \cap free = {} /\ f \in Frame /\ Null \notin Frame
  BY <1>0, <1>6, MemAssumption DEF Sound, MemTypeOK
<1>14. NoSharing' /\ NoLeak'
  <2>1. trapframe' = [trapframe EXCEPT ![p] = trapframe[p]]
    BY <1>0, <1>2 DEF MemTypeOK
  <2>2. {trapframe[p], f} \ {Null} = {trapframe[p], f}
    BY <1>11, <1>13
  <2>3. trapframe[p] \notin free \cup Frames(pt[p]) /\ root[p] \notin free \cup Frames(pt[p])
    BY <1>6, <1>11
  <2>4. trapframe[p] # f
    BY <2>3
  <2>5. ({trapframe[p], f} \ {Null}) \cap (free' \cup Frames(b.m.t)) = {}
    <3>1. f \notin free' \cup Frames(b.m.t)
      BY <1>4, <1>12, <1>13, <2>3
    <3>2. trapframe[p] \notin free' \cup Frames(b.m.t)
      BY <1>4, <1>11, <1>12, <2>3
    <3> QED
      BY <2>2, <3>1, <3>2
  <2>6. Frames(b.m.t) \cap free' = {}
    BY <1>4, <1>12, <1>13, <2>3
  <2>7. free' \cup Frames(b.m.t) \cup ({trapframe[p], f} \ {Null}) = free \cup Held(p)
    <3>1. Held(p) = {trapframe[p], root[p]} \cup Frames(pt[p])
      BY <1>0, <1>11, HeldIs
    <3> QED
      BY <3>1, <2>2, <1>4, <1>12
  <2> QED
    BY <1>0, <1>1, <1>4, <2>1, <2>4, <2>5, <2>6, <2>7, NewFrames
<1>15. MemTypeOK'
  <2>1. /\ free' \subseteq Frame
        /\ pt' \in [Slot -> [Page -> Frame \cup {Null}]]
    <3>1. Frames(pt[p]) \subseteq Frame
      BY <1>0 DEF MemTypeOK, Frames, Mapped
    <3>2. root[p] \in Frame
      BY <1>6, <1>11
    <3>3. free' \subseteq Frame
      BY <1>4, <1>12, <3>1, <3>2
    <3> QED
      BY <1>0, <1>1, <1>4, <3>3 DEF MemTypeOK
  <2>2. root' \in [Slot -> Frame \cup {Null}]
    BY <1>0, <1>1, <1>13 DEF MemTypeOK
  <2>3. sz' \in [Slot -> 0 .. TRAPFRAME]
    BY <1>0, <1>1, <1>3, SizeNat DEF MemTypeOK
  <2>4. capped' \in [Slot -> BOOLEAN] /\ lazy' \in [Slot -> BOOLEAN] /\ panicked' \in BOOLEAN
    BY <1>0, <1>2, <1>12 DEF MemTypeOK
  <2> QED
    BY <1>0, <1>2, <2>1, <2>2, <2>3, <2>4 DEF MemTypeOK
<1>16. /\ pt'[p] = b.m.t /\ root'[p] = f /\ sz'[p] = b.sz /\ ~capped'[p]
       /\ \A q \in Slot \ {p} : /\ pt'[q] = pt[q] /\ root'[q] = root[q] /\ sz'[q] = sz[q]
                                /\ capped'[q] = capped[q] /\ lazy'[q] = lazy[q]
  BY <1>0, <1>1, <1>2 DEF MemTypeOK
<1>17. WithinSize' /\ NoPanic'
  BY <1>2, <1>3, <1>12, <1>16 DEF MemIInv, WithinSize, NoPanic
<1>18. UsedHasFrames' /\ CappedHasQuota'
  BY <1>0, <1>2, <1>13, <1>16 DEF MemIInv, UsedHasFrames, CappedHasQuota, MemTypeOK
<1>19. EagerWithinQuota'
  BY <1>0, <1>2, <1>16 DEF MemIInv, EagerWithinQuota, MemTypeOK
<1> QED
  BY <1>14, <1>15, <1>17, <1>18, <1>19 DEF MemIInv

(* exec() that fails, wherever it does, leaves everything as it was.       *)
LEMMA ExecBadUnchanged ==
  ASSUME MemIInv, NEW p \in used, NEW s \in ImageSizes, ExecBad(p, s)
  PROVE  UNCHANGED memvars
<1>a. PICK f \in free : \E b \in Built(f, s) :
        LET new == uvmfree(b.m, b.sz) IN
        free' = new.free \cup {f} /\ panicked' = (Mapped(new.t) # {})
  BY DEF ExecBad
<1>1. PICK b \in Built(f, s) :
        LET new == uvmfree(b.m, b.sz) IN
        free' = new.free \cup {f} /\ panicked' = (Mapped(new.t) # {})
  BY <1>a
<1> DEFINE new == uvmfree(b.m, b.sz)
<1>2. Mapped(new.t) = {} /\ new.free = free \ {f}
  <2>1. /\ Sound(b.m) /\ Owned(b.m) = free \ {f} /\ b.sz \in Nat
        /\ \A i \in Mapped(b.m.t) : i < Pages(b.sz)
    BY BuiltSound
  <2>2. Mapped(new.t) = {} /\ new.free = Owned(b.m)
    BY <2>1, FreeSound
  <2> QED
    BY <2>1, <2>2
<1>3. free' = new.free \cup {f} /\ panicked' = (Mapped(new.t) # {})
  BY <1>1
<1> HIDE DEF new
<1>4. free' = free /\ panicked' = FALSE
  BY <1>2, <1>3
<1> QED
  BY <1>4 DEF ExecBad, memvars, MemIInv, NoPanic, MemTypeOK

---------------------------------------------------------------------------
(* At boot two frames are in use, by init's entry.                         *)
LEMMA InitMemIInv == MemInit => MemIInv
<1> SUFFICES ASSUME MemInit PROVE MemIInv
  OBVIOUS
<1>1. PICK f \in Frame, g \in Frame :
         /\ f # g
         /\ trapframe = [p \in Slot |-> IF p = initproc THEN f ELSE Null]
         /\ root = [p \in Slot |-> IF p = initproc THEN g ELSE Null]
         /\ free = Frame \ {f, g}
  BY DEF MemInit
<1>2. /\ used = {initproc} /\ pt = [p \in Slot |-> NoPages]
      /\ sz = [p \in Slot |-> 0] /\ mem_quota = [p \in Slot |-> 0]
      /\ capped = [p \in Slot |-> FALSE] /\ lazy = [p \in Slot |-> FALSE]
      /\ panicked = FALSE
  BY DEF MemInit
<1>3. initproc \in Slot /\ Null \notin Frame /\ TRAPFRAME \in Nat
  BY MemAssumption DEF TRAPFRAME
<1>4. Mapped(NoPages) = {} /\ NoPages \in [Page -> Frame \cup {Null}]
  BY DEF Mapped, NoPages
<1>5. MemTypeOK
  <2>1. /\ free \subseteq Frame /\ used \subseteq Slot
        /\ trapframe \in [Slot -> Frame \cup {Null}] /\ root \in [Slot -> Frame \cup {Null}]
        /\ pt \in [Slot -> [Page -> Frame \cup {Null}]]
    BY <1>1, <1>2, <1>3, <1>4
  <2>2. sz \in [Slot -> 0 .. TRAPFRAME] /\ mem_quota \in [Slot -> Quotas \cup {0}]
    BY <1>2, <1>3
  <2>3. capped \in [Slot -> BOOLEAN] /\ lazy \in [Slot -> BOOLEAN] /\ panicked \in BOOLEAN
    BY <1>2
  <2> QED
    BY <2>1, <2>2, <2>3 DEF MemTypeOK
<1>6. \A p \in Slot : Held(p) = IF p = initproc THEN {f, g} ELSE {}
  <2>1. \A p \in Slot : Base(p) = IF p = initproc THEN {f, g} ELSE {}
    BY <1>1, <1>3 DEF Base
  <2>2. \A p \in Slot : Frames(pt[p]) = {}
    BY <1>2, <1>4 DEF Frames
  <2> QED
    BY <2>1, <2>2, HeldIs
<1>7. NoSharing
  BY <1>1, <1>2, <1>3, <1>4, <1>6 DEF NoSharing
<1>8. NoLeak
  BY <1>1, <1>3, <1>6 DEF NoLeak
<1>9. WithinSize
  BY <1>1, <1>2, <1>4 DEF WithinSize
<1>10. UsedHasFrames /\ NoPanic
  BY <1>1, <1>2, <1>3 DEF UsedHasFrames, NoPanic
<1>11. CappedHasQuota /\ EagerWithinQuota
  BY <1>2, <1>3 DEF CappedHasQuota, EagerWithinQuota
<1> QED
  BY <1>5, <1>7, <1>8, <1>9, <1>10, <1>11 DEF MemIInv

(* A step that changes nothing.                                            *)
LEMMA StutterIInv == MemIInv /\ UNCHANGED memvars => MemIInv'
  BY SameFrames DEF memvars, MemIInv, MemTypeOK, WithinSize, UsedHasFrames, NoPanic,
       CappedHasQuota, EagerWithinQuota

(* Every system call keeps the invariant.                                  *)
LEMMA NextMemIInv == MemIInv /\ [MemNext]_memvars => MemIInv'
<1> SUFFICES ASSUME MemIInv, [MemNext]_memvars PROVE MemIInv'
  OBVIOUS
<1>1. ASSUME NEW p \in used, Step(p) PROVE MemIInv'
  <2>1. CASE \E q \in Quotas : SetQuota(p, q)
    BY <2>1, SetQuotaIInv
  <2>2. CASE \E n \in SbrkSizes : SbrkEager(p, n) \/ SbrkLazy(p, n) \/ SbrkShrink(p, n)
    BY <2>2, SbrkEagerIInv, SbrkLazyIInv, SbrkShrinkIInv
  <2>3. CASE VmFault(p) \/ Fork(p) \/ ForkFails(p) \/ FreeProc(p)
    BY <2>3, VmFaultIInv, ForkIInv, ForkFailsIInv, FreeProcIInv
  <2>4. CASE \E s \in ImageSizes : Exec(p, s) \/ ExecBad(p, s)
    BY <2>4, ExecIInv, ExecBadUnchanged, StutterIInv
  <2> QED
    BY <1>1, <2>1, <2>2, <2>3, <2>4 DEF Step
<1> QED
  BY <1>1, StutterIInv DEF MemNext

(* The inductive invariant holds in every reachable state.                 *)
THEOREM MemInvariance == MemSpec => []MemIInv
  BY InitMemIInv, NextMemIInv, PTL DEF MemSpec

(* No frame is free and in use, and none serves two purposes.              *)
THEOREM NoFrameShared == MemSpec => []NoSharing
<1>1. MemIInv => NoSharing
  BY DEF MemIInv
<1> QED
  BY <1>1, MemInvariance, PTL

(* Whichever step of sbrk(), fork() or exec() fails, no frame is lost.     *)
THEOREM NoFrameLost == MemSpec => []NoLeak
<1>1. MemIInv => NoLeak
  BY DEF MemIInv
<1> QED
  BY <1>1, MemInvariance, PTL

(* mappages() never meets a page that is mapped, freewalk() never a leaf.  *)
THEOREM NeverPanics == MemSpec => []NoPanic
<1>1. MemIInv => NoPanic
  BY DEF MemIInv
<1> QED
  BY <1>1, MemInvariance, PTL

(* A process that set a quota it was within stays within it as long as it  *)
(* grows with SBRK_EAGER.                                                  *)
THEOREM QuotaKept == MemSpec => []EagerWithinQuota
<1>1. MemIInv => EagerWithinQuota
  BY DEF MemIInv
<1> QED
  BY <1>1, MemInvariance, PTL

============================================================================
