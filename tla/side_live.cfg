SPECIFICATION FairSpec
CONSTANTS
  Plans <- OneByOne
  Frames = {f1}
  Urls = {u1}
  NoNav = NoNav
  NoFrame = NoFrame
  Freed = Freed
  NoUrl = NoUrl
  None = None
  MaxRequests = 2
  Targets = {t1}
  MaxInflight = 3
  MaxAttach = 1
  MaxPipe = 1
  MaxEvents = 0
INVARIANT TypeOK
PROPERTY EveryRequestAnswered
CHECK_DEADLOCK FALSE
