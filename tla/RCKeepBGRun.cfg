SPECIFICATION Spec
CONSTANTS
  MaxStarts = 3
  MaxTasks = 4
  MaxQueued = 2
INVARIANTS CrashesOnlyHasty Stoppable HeldTaskIsLive
PROPERTIES StopsWhatRuns Silenced
CHECK_DEADLOCK FALSE
