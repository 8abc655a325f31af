CONSTANTS
  Proc = {p1, p2, p3}
  NoOne = NoOne
  Block = {b1, b2, b3, b4}
  p1 = p1
  p2 = p2
  p3 = p3
  b1 = b1
  b2 = b2
  b3 = b3
  b4 = b4
  Uses <- SomeUses
  NoBlock = NoBlock
  Val = {0, 1}
  Blank = 0
  Writes = {1}
  Victims = {p1}
  NBUF = 2
  LOGBLOCKS = 2
  NUMS = {5, 6}
  MAXCALLS = 4
SPECIFICATION Spec
CHECK_DEADLOCK FALSE
PROPERTY ImplementsBlocks
PROPERTY EveryCallReturns
