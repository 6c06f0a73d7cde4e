CONSTANTS
  Tabs = {t1, t2}
  Games = {g}
  MaxKeys = 3
  MaxLoads = 3
  MaxEdits = 1
SYMMETRY TabSymmetry
SPECIFICATION Spec
INVARIANTS StoredKeyActs
PROPERTIES LossIsExplained NothingComesBack
CHECK_DEADLOCK FALSE
