SPECIFICATION FairSpec
CONSTANTS
  Targets = {0, 1, 2, 4}
  ConnectionLimits = {0, 1, 2, 3}
  URL <- MCURL
  Seed = "seed"
  Links <- MCLinks
  IsPng <- MCIsPng
  EffectiveURL <- MCEffectiveURL
  TableSize = 6
  MaxFaults = 2
INVARIANTS ConnectionsBounded
PROPERTIES CrawlEnds ImplementsCrawl
CHECK_DEADLOCK FALSE
