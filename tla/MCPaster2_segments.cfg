SPECIFICATION Spec
CONSTANTS
  Producers = {p1, p2}
  Consumers = {c1, c2}
  NoProc = NoProc
  NumParts = 2
  MaxSize = 1
  NoSeq <- MCNoSeq
  MaxFaults = 2
INVARIANTS SegmentsExist
CHECK_DEADLOCK FALSE
