SPECIFICATION Spec
CONSTANTS
  c1 = c1
  c2 = c2
  Clients = {c1, c2}
  Retained = 1
  Ledger = 2
  Limits = {1, 2}
  MaxJobs = 4
  MaxResults = 3
  Plans <- StartingAndReading
INVARIANTS TypeOK RegistrySound NothingSkipped
CHECK_DEADLOCK FALSE
