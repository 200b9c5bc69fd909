SPECIFICATION Spec
CONSTANTS
  Threads = {t1, t2}
  NumParts = 3
  MaxFaults = 0
INVARIANTS RetrievesAll
CHECK_DEADLOCK FALSE
