SPECIFICATION Spec
CONSTANTS
  Main = main
  alice = alice
  bob = bob
  Dids <- Accounts
  Scenarios <- Tried
  MaxLives = 2
  GroupSize = 2
  Capacity = 1
  Limit = 1
  MaxOps = 2
CHECK_DEADLOCK FALSE
PROPERTIES
  ResubscribesAcrossRestarts
