SPECIFICATION Spec
CONSTANTS
  Clients = {c1, c2}
  Names = {d1, d2, d3, junk}
  Dids = {d1, d2, d3}
  MaxTracks = 2
  MaxMade = 3
  Races = {}
CHECK_DEADLOCK FALSE
INVARIANTS
  TypeOK
  NeverStarved
PROPERTIES
  IdleTrackDropped
  ImplementsSelectiveSync
