CONSTANTS
  Tabs = {t1}
  MaxLoads = 1
  MaxEdits = 1
  MaxSends = 1
SPECIFICATION Spec
INVARIANTS SendUpdateSendsEdits
CHECK_DEADLOCK FALSE
