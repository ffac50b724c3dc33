SPECIFICATION Spec
CONSTANTS
  GroupSize = 2
  MaxFrames = 3
  MaxSessions = 3
  MaxLives = 2
CHECK_DEADLOCK FALSE
INVARIANTS
  TypeOK
  GroupIdsUnique
  WrittenOnceInOrder
  DeadSessionsTakeOneFrame
PROPERTIES
  WriteReturns
