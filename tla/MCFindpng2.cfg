SPECIFICATION FairSpec
CONSTANTS
  Threads = {t1, t2, t3}
  Targets = {1, 3}
  URL <- MCURL
  Seed = "seed"
  NoUrl = NoUrl
  Links <- MCLinks
  IsPng <- MCIsPng
  EffectiveURL <- MCEffectiveURL
  TableSize = 5
  MaxFaults = 1
INVARIANTS BlockedCount NoneLeftWaiting
PROPERTIES CrawlEnds ImplementsCrawl
CHECK_DEADLOCK FALSE
