SPECIFICATION Spec
CONSTANTS
  None = None
  p1 = p1
  p2 = p2
  c1 = c1
  c2 = c2
  Procs = {p1, p2}
  Calls = {c1, c2}
  Home <- TwoServers
  Engines = {e1, e2, e3}
  Kinds = {"shadow", "mirage"}
  Tools = {"start", "stop"}
  Faults = {"crash", "refuse"}
SYMMETRY Interchangeable
INVARIANTS IdleFreesSlot
PROPERTIES SlotSpec
