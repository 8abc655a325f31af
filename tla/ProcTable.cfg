\* init and two more entries; processes 2 .. MAXPID are created one after
\* the other, so that entries are used again.
CONSTANTS
  NPROC = 3
  MAXPID = 4
  KillPids <- Pids
SPECIFICATION FairSpec
INVARIANT ParentAlive
INVARIANT NoZombieMissed
INVARIANT NotFreedOnCpu
PROPERTY ExitIsNoticed
\* The kernel may panic, and no process is created beyond MAXPID.
CHECK_DEADLOCK FALSE
