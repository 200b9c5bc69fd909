SPECIFICATION Spec
CONSTANTS
  Threads = {t1, t2}
  Targets = {1, 3}
  URL <- MCURL
  Seed = "seed"
  NoUrl = NoUrl
  Links <- MCLinks
  IsPng <- MCIsPng
  EffectiveURL <- MCEffectiveURL
  TableSize = 3
  MaxFaults = 1
INVARIANTS EnterSucceeds
CHECK_DEADLOCK FALSE
