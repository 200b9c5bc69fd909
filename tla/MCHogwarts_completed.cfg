SPECIFICATION Spec
CONSTANTS
  Elves = {e1, e2}
  Dobby = Dobby
  NoOne = NoOne
  total_tasks = 3
  BatchSize = 2
INVARIANTS AllTasksCompleted
CHECK_DEADLOCK FALSE
