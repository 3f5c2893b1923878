SPECIFICATION Spec
CONSTANTS
  None = None
  c1 = c1
  c2 = c2
  c3 = c3
  Callers = {c1, c2, c3}
  Tabs = {t1, t2}
  Plans <- Everything
  Window = 1
  Ids = {1, 2}
  Matching = {1, 2}
  ChooserCap = 2
INVARIANTS TypeOK RoutedOnce NothingStranded StreamSound NobodyOverslept FedByItsTab
CHECK_DEADLOCK FALSE
