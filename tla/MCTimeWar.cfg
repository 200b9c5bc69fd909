SPECIFICATION FairSpec
CONSTANTS
  num_doctors = 4
  Coordinates = {0, 1}
  coordinateOf <- MCCoordinateOf
  correct <- MCCorrect
  NoOne = NoOne
INVARIANTS ReadyCountsTheDone AllGatheredFirst VerdictIsRight
PROPERTIES GallifreyStands
CHECK_DEADLOCK FALSE
