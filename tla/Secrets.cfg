CONSTANTS
  q = 5
  WriterPages = {p1, p2}
  ReaderPages = {r}
  Coins = 4
  costDarc = 1
  costCWrite = 1
  costCRead = 2
  MaxWrites = 2
  MaxLoads = 2
  MaxVersion = 2
SYMMETRY Symmetry
SPECIFICATION Spec
INVARIANTS ReadIsWritten
PROPERTIES  OursIsKept 
CHECK_DEADLOCK FALSE
