SPECIFICATION Spec
CONSTANTS
  Clients = {c1, c2}
  Names = {d1}
  Dids = {d1}
  MaxTracks = 2
  MaxMade = 4
  Races = {"backlog"}
CHECK_DEADLOCK FALSE
INVARIANT NeverStarved
