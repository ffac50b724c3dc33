SPECIFICATION Spec
CONSTANTS
  MaxSeq = 4
  MaxBody = 1
  MaxClock = 1
  MaxCrashes = 2
  SegmentTarget = 3
  Budgets = {0, 5}
  Readers = {r1}
  None = None
  AppendMayFail = FALSE
CHECK_DEADLOCK FALSE
INVARIANTS
  ReadsAreSound
  AckedGroupsReadBack
  HighWaterCovers
PROPERTIES
  GcDropsOnlyWhatItMay
  GcReachesItsBounds
  ImplementsReplayLog
