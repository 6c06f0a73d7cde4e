CONSTANTS
  q = 5
  Users = {o1, o2, a}
  Organisers = {o1, o2}
  Scannable = {a}
  Initially <- MCInitially
  Games = {g}
  costDarc = 0
  costParty = 0
  costRoPaSci = 1
  Stake = 1
  Reward = 2
  Players = {o1, o2}
  Choices = {0, 4}
  MaxReloads = 1
  MaxBadges = 1
SYMMETRY Symmetry
SPECIFICATION Spec
INVARIANTS TypeOK FinalListScannedByAll AttendeesCanAnswer StakesCanBePaid
PROPERTIES ScannedIsKept
CHECK_DEADLOCK FALSE
