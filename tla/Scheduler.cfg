\* Two CPUs: the table changes between a CPU's pass 1 and its pass 2.
CONSTANTS
  NPROC = 3
  NCPU = 2
  Prio <- LowAndDefault
SPECIFICATION FairSpec
INVARIANT OnOneCpu
INVARIANT FallbackOnlyIfTaken
PROPERTY LeaderRuns
