\* The same instance, with what the quota is said to cap.
CONSTANTS
  Slot = {1, 2}
  initproc = 1
  Frame = {f1, f2, f3, f4, f5, f6, f7}
  Null = Null
  PGSIZE = 2
  MAXPAGES = 3
  USERSTACK = 1
  Quotas = {0, 2}
  SbrkSizes = {1, 3}
  ImageSizes = {1}
SPECIFICATION MemSpec
SYMMETRY FrameSymmetry
INVARIANT ResidentWithinQuota
