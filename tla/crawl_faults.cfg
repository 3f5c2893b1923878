SPECIFICATION FairSpec
CONSTANTS
  u1 = u1
  u2 = u2
  u3 = u3
  Url <- Urls3
  Seeds <- OneSeed
  MaxPages = 2
  MaxDepth = 1
  MaxQueue = 2
  RotationEvery = 1
  BackoffRetries = 1
  ChallengeRetries = 1
  MaxPauses = 1
  Faults <- EngineFaults
INVARIANTS TypeOK SiteRespected ReportsTrue
PROPERTIES CrawlSettles StopEndsJob
CHECK_DEADLOCK FALSE
