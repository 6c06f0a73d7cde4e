CONSTANTS
  Tabs = {t1, t2}
  MaxLoads = 3
  MaxEdits = 2
  MaxSends = 2
SPECIFICATION Spec
SYMMETRY TabSymmetry
INVARIANTS TypeOK SessionMovesForward VersionNamesContent CacheIsLedgerOrUnresolved ViewerStuckNeedsConflict
CHECK_DEADLOCK FALSE
