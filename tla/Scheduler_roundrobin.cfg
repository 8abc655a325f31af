\* One CPU, everybody at the default priority.
CONSTANTS
  NPROC = 2
  NCPU = 1
  Prio <- DefaultOnly
SPECIFICATION FairSpec
PROPERTY RoundRobin
