SPECIFICATION SuiteSpec
CONSTANTS
  BoardSizes = {1, 2, 3, 4}
  Right = 4
  distances <- MCDistances
  OldRoutes <- MCOldRoutes
  NoFile = NoFile
  NoResult = NoResult
  MaxDeaths = 2
  FileSizes = {0, 1, 3, 4, 9}
  INT_MAX = 3
INVARIANTS DepthBounded CountsEachSolutionOnce TriesEveryRouteOnce StaleResultIsHarmless SendsAllInOrder
PROPERTIES EachRunEnds
CHECK_DEADLOCK FALSE
