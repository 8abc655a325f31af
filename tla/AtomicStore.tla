---------------------------- MODULE AtomicStore ----------------------------
(***************************************************************************)
(* What the file system's log promises: a store of disk blocks whose       *)
(* operations survive a crash as a whole or not at all.  An operation is   *)
(* the part of a system call between begin_op() and end_op(); a commit     *)
(* happens only while no operation is under way.                           *)
(***************************************************************************)
CONSTANTS Proc, Block, Val, Blank

VARIABLES
  current,   \* what reads see
  durable,   \* what a crash leaves
  active     \* processes inside an operation

vars == <<current, durable, active>>

Init ==
  /\ current = [b \in Block |-> Blank]
  /\ durable = current
  /\ active = {}

Begin(p) ==
  /\ p \notin active
  /\ active' = active \cup {p}
  /\ UNCHANGED <<current, durable>>

Write(p, b, v) ==
  /\ p \in active
  /\ current' = [current EXCEPT ![b] = v]
  /\ UNCHANGED <<durable, active>>

End(p) ==
  /\ p \in active
  /\ active' = active \ {p}
  /\ UNCHANGED <<current, durable>>

Commit ==
  /\ active = {}
  /\ durable' = current
  /\ UNCHANGED <<current, active>>

Crash ==
  /\ current' = durable
  /\ active' = {}
  /\ UNCHANGED durable

Next ==
  \/ \E p \in Proc :
       Begin(p) \/ End(p) \/ \E b \in Block, v \in Val : Write(p, b, v)
  \/ Commit
  \/ Crash

Spec == Init /\ [][Next]_vars
============================================================================
