SPECIFICATION FairSpec
CONSTANTS
  None = None
  p1 = p1
  p2 = p2
  c1 = c1
  c2 = c2
  Procs = {p1}
  Calls = {c1, c2}
  Home <- OneServer
  Engines = {e1, e2, e3}
  Kinds = {"shadow", "mirage"}
  Tools = {"start", "stop", "promote"}
  Faults = {"crash", "refuse"}
INVARIANTS NoOrphan
PROPERTIES ReapBeforePublish CallsReturn
