CONSTANTS
  Trustees = {t1, t2, t3}
  Accounts = {x, y}
  Thresholds = {2}
  Owned = {x}
  Lag = 1
  MaxLoads = 2
  MaxVersion = 3
  MaxBlocks = 3
  MaxSignatures = 2
SYMMETRY Symmetry
SPECIFICATION Spec
INVARIANTS TypeOK TrusteesAreWanted
PROPERTIES  SignaturesKept
CHECK_DEADLOCK FALSE
