SPECIFICATION Spec
CONSTANTS
  MaxSeq = 3
  Rejected = {2}
  Capacity = 1
  GroupSize = 2
  Flags <- ColdOrResumed
  MaxDrops = 2
  MaxCrashes = 1
  MaxSignals = 1
INVARIANTS
  PublishedOnceInOrder
  ResumedWithoutGap
  CursorCoversPublished
  LossIsBounded
PROPERTIES
  EventuallyPublished
