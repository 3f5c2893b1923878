SPECIFICATION Spec
CONSTANTS
  None = None
  p1 = p1
  p2 = p2
  c1 = c1
  c2 = c2
  Procs = {p1, p2}
  Calls = {c1, c2}
  Home <- TwoServers
  Engines = {e1, e2, e3}
  Kinds = {"shadow", "mirage"}
  Tools = {"start", "heal"}
  Faults = {"transport", "slow", "cancel"}
SYMMETRY Interchangeable
INVARIANTS TypeOK PublishedHoldsSlot
