SPECIFICATION Spec
CONSTANTS
  GroupSize = 2
  MaxSeq = 4
  MaxFrames = 5
  MaxRuns = 3
  MaxLegacy = 1
  PersistMayFail = TRUE
CHECK_DEADLOCK FALSE
INVARIANTS
  SequenceNeverReused
  StoredIsWhole
  EveryFrameAccounted
PROPERTIES
  UsesReplayLog
