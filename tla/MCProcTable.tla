---------------------------- MODULE MCProcTable ----------------------------
(* ProcTable for TLC: kill() is called with 0 and with pids that are, were *)
(* or will be in use.                                                      *)
EXTENDS ProcTable

Pids == 0 .. MAXPID
===========================================================================
