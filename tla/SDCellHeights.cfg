SPECIFICATION Spec
CONSTANTS
  Sections = {0, 1}
  Rows = {r1, r2, r3}
  MaxLength = 3
  MaxAtOnce = 2
  Widths = {1, 2}
  MaxPending = 1
INVARIANTS TypeOK CachesFit CrashesOnlyWhenTurning
PROPERTIES ImplementsMemo
SYMMETRY RowSymmetry
CHECK_DEADLOCK FALSE
