\* The sweeper and two requests append to one chain, over two incidents.
SPECIFICATION Spec
CONSTANTS
  w1 = w1
  w2 = w2
  Sweeper = Sweeper
  Writers = {w1, w2, Sweeper}
  Rows = {i1, i2}
  None = None
  MaxLog = 3
SYMMETRY RequestSymmetry
INVARIANTS
  ChainIntact
  DamageIsFound
  RowsAgreeWithLog
  NoDeadlock
PROPERTIES
  ImplementsAtomicAudit
CHECK_DEADLOCK FALSE
