SPECIFICATION ReplaySpec
CONSTANTS
  GroupSize = 1
  MaxSeq = 4
  MaxFrames = 3
  MaxRuns = 2
  MaxLegacy = 0
  PersistMayFail = FALSE
  Subscribers = {s1}
  Latest = Latest
  Races = {}
CHECK_DEADLOCK FALSE
INVARIANTS
  NoGap
  ServedOnceInOrder
PROPERTIES
  EventuallyServed
