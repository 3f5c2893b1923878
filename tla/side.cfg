SPECIFICATION Spec
CONSTANTS
  Plans <- AnyPlan
  Frames = {f1}
  Urls = {u1, u2}
  NoNav = NoNav
  NoFrame = NoFrame
  Freed = Freed
  NoUrl = NoUrl
  None = None
  MaxRequests = 3
  Targets = {t1}
  MaxInflight = 3
  MaxAttach = 2
  MaxPipe = 1
  MaxEvents = 1
INVARIANTS NavNeedsNews BooksBalance
CHECK_DEADLOCK FALSE
SYMMETRY Addresses
