\* The log has room for two operations of two blocks each.
CONSTANTS
  Proc = {p1, p2}
  Block = {b1, b2, b3, b4}
  Val = {0, 1}
  Blank = 0
  NotCached = NotCached
  MAXOPBLOCKS = 2
  LOGBLOCKS = 4
SPECIFICATION Spec
SYMMETRY Symmetry
INVARIANT SpaceReserved
INVARIANT NobodyStranded
PROPERTY ImplementsStore
