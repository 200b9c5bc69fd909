SPECIFICATION FairSpec
CONSTANTS
  Elves = {e1, e2, e3}
  Dobby = Dobby
  NoOne = NoOne
  total_tasks = 5
  BatchSize = 2
INVARIANTS TypeOK TaskForEveryElf ListHasOneUser TasksOfTheDay
PROPERTIES DayEnds
CHECK_DEADLOCK FALSE
