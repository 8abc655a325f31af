CONSTANTS
  Proc = {p1, p2}
  First = p1
  NINODES = 4
  FSSIZE = 4
  Names = {"x", "y"}
  Requests <- SomeRequests
  Nested <- SomeNested
  NewPaths <- SomeNewPaths
  Modes = {"rdonly", "trunc"}
  NFILE = 1
  NOFILE = 2
  NINODE = 4
  NDIRECT = 1
  NINDIRECT = 1
  MAXCALLS = 4
SPECIFICATION Spec
CHECK_DEADLOCK FALSE
INVARIANT LastPutFrees
