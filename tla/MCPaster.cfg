SPECIFICATION FairSpec
CONSTANTS
  Threads = {t1, t2, t3}
  NumParts = 2
  MaxFaults = 1
INVARIANTS OverrunBounded MissingOnlyIfCountedTwice
PROPERTIES EndsUnlessIncrementLost
CHECK_DEADLOCK FALSE
