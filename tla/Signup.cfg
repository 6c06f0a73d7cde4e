CONSTANTS
  Ephemerals = {k1, k2}
  Devices = {d1, d2}
  CostDarc = 1
  CostCoin = 1
  CostCredential = 2
  Balance = 14
  MaxKeys = 2
  MaxEvolves = 3
  creator = creator
  admin = admin
SPECIFICATION Spec
SYMMETRY KeyAndBrowserSymmetry
INVARIANTS TypeOK SpawnedInOrder  RightsFollowOwners
PROPERTIES ImplementsAccount
CHECK_DEADLOCK FALSE
