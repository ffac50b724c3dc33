SPECIFICATION Spec
CONSTANTS
  Subs = {s1, s2}
  Attentive = {s2}
  MaxGroups = 2
  MaxStreams = 3
  GroupFrames = 2
  Cap = 1
CHECK_DEADLOCK FALSE
INVARIANTS
  FramesInOrder
  NothingSkipped
  QueuedIsSeen
PROPERTIES
  AttentiveServed
  ShutsDown
