CONSTANTS
  device = device
  admin = admin
  transfer = transfer
  darcs4 = darcs4
  firstUser = firstUser
  malformed = malformed
  Signers <- MCSigners
  Nodes = {n1, n2}
  Ops <- MCOps
  Instrs <- MCInstrs
  SignersArg <- MCSignersArg
  Transactions <- MCTransactions
  MaxCalls <- MCMaxCalls
SPECIFICATION Spec
INVARIANTS TypeOK  CounterRefusalIsConflict RetryNeverRaces IdsAreNew
CHECK_DEADLOCK FALSE
