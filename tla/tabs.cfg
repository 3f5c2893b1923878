SPECIFICATION FairSpec
CONSTANTS
  None = None
  c1 = c1
  c2 = c2
  Callers = {c1, c2}
  MaxId = 3
  MaxTarget = 2
  MaxSession = 3
  MaxInbox = 2
  MaxTroubles = 1
  Script <- OpenAndUse
  Faults = {"exit", "stuck", "slow", "refuse", "stop"}
  Events = {"popup", "close", "reattach", "reload"}
INVARIANTS TypeOK NothingLeftOver TabsAgree
PROPERTIES ToolsReturn
CHECK_DEADLOCK FALSE
