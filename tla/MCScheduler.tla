---------------------------- MODULE MCScheduler ----------------------------
(* Scheduler for TLC: the default priority, and one below it.               *)
EXTENDS Scheduler

DefaultOnly == {0}
LowAndDefault == {-1, 0}
===========================================================================
