---------------------------- MODULE BlockStore -----------------------------
(***************************************************************************)
(* What bread(), bwrite() and brelse() promise their callers: every block  *)
(* has one content, and between bread() and brelse() a process has the     *)
(* block to itself.                                                        *)
(***************************************************************************)
CONSTANTS Proc, Block, Val, Blank

VARIABLES
  content,   \* of each block
  holders    \* of each block: the processes that have it

vars == <<content, holders>>

Init ==
  /\ content = [b \in Block |-> Blank]
  /\ holders = [b \in Block |-> {}]

Acquire(p, b) ==
  /\ holders[b] = {}
  /\ holders' = [holders EXCEPT ![b] = {p}]
  /\ UNCHANGED content

Change(p, b, v) ==
  /\ holders[b] = {p}
  /\ content' = [content EXCEPT ![b] = v]
  /\ UNCHANGED holders

Release(p, b) ==
  /\ holders[b] = {p}
  /\ holders' = [holders EXCEPT ![b] = {}]
  /\ UNCHANGED content

Next ==
  \E p \in Proc, b \in Block :
    \/ Acquire(p, b) \/ Release(p, b)
    \/ \E v \in Val : Change(p, b, v)

Spec == Init /\ [][Next]_vars
============================================================================
