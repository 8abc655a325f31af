--------------------------- MODULE AbstractLock ---------------------------
(***************************************************************************)
(* What a long-term lock promises its users: at most one process owns it, *)
(* and only its owner gives it back.  SleepLock (kernel/sleeplock.c) is    *)
(* shown to implement this specification.                                  *)
(***************************************************************************)
EXTENDS Naturals

CONSTANT Proc           \* the processes that use the lock

VARIABLE owner          \* the owner, or Nobody

Nobody == 0

Init == owner = Nobody

Acquire(p) == owner = Nobody /\ owner' = p

Release(p) == owner = p /\ owner' = Nobody

Next == \E p \in Proc : Acquire(p) \/ Release(p)

Spec == Init /\ [][Next]_owner
===========================================================================
