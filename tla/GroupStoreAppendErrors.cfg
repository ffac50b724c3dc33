SPECIFICATION Spec
CONSTANTS
  MaxSeq = 3
  MaxBody = 2
  MaxClock = 1
  MaxCrashes = 0
  SegmentTarget = 4
  Budgets = {0, 5}
  Readers = {r1}
  None = None
  AppendMayFail = TRUE
CHECK_DEADLOCK FALSE
INVARIANT ReadsAreSound
