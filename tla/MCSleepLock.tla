---------------------------- MODULE MCSleepLock ----------------------------
(* SleepLock for TLC: a table of N entries, every process may be killed.   *)
EXTENDS SleepLock
===========================================================================
