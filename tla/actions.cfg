SPECIFICATION Spec
CONSTANTS
  None = None
  c1 = c1
  c2 = c2
  Callers = {c1, c2}
  Tabs = {t1, t2}
  Script <- AnyAndMouse
  Layouts = {TRUE, FALSE}
  MaxChanges = 1
INVARIANTS TypeOK PressLands OneTabPerAction SuccessIsReal
CHECK_DEADLOCK FALSE
