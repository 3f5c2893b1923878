SPECIFICATION Spec
CONSTANTS
  None = None
  r1 = r1
  r2 = r2
  Readers = {r1, r2}
  Nodes = {1, 2}
  Rings = {2}
  Default = 3
  Batch = 2
  Limits = {1, 3}
  Plans <- ReadingAndActing
INVARIANTS TypeOK NothingMissed ActsOnItsOwn
CHECK_DEADLOCK FALSE
