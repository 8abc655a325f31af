\* Three processes and one lock: one holds it, one sleeps, one comes along.
CONSTANTS
  N = 3
SPECIFICATION FairSpec
INVARIANT NoLostWakeup
PROPERTY ImplementsLock
PROPERTY SleepersWake
