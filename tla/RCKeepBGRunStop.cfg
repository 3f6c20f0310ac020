SPECIFICATION Spec
CONSTANTS
  MaxStarts = 1
  MaxTasks = 2
  MaxQueued = 2
PROPERTY StopAlwaysStops
CHECK_DEADLOCK FALSE
