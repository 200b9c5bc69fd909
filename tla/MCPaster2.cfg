SPECIFICATION FairSpec
CONSTANTS
  Producers = {p1, p2}
  Consumers = {c1, c2}
  NoProc = NoProc
  NumParts = 3
  MaxSize = 2
  NoSeq <- MCNoSeq
  MaxFaults = 1
INVARIANTS TypeOK RaceOnlyAfterFailedWrite IgnoredReturnCodes SemaphoreBalance SegmentsWhole
PROPERTIES ImplementsPipeline Completes
CHECK_DEADLOCK FALSE
