SPECIFICATION Spec
CONSTANTS
  MaxDepth = 2
  VarintBits = 8
  Pieces <- Documents
  MaxPieces = 4
  CarEntries <- CarsTried
  MaxEntries = 3
CHECK_DEADLOCK FALSE
INVARIANTS
  AcceptsExactlyCanonical
  BoundaryUnique
  ReadsWholeEntries
