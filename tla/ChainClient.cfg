CONSTANTS
  a = a
  b = b
  c = c
  Conodes = {a, b, c}
  Rosters <- MCRosters
  Keys <- MCKeys
  Span = 2
  MaxBlocks = 3
  MaxRequests = 3
SPECIFICATION ChainSpec
INVARIANTS AcceptedChainIsReal LaggingIsNotInvalid VerifiedProofIsOfOneBlock 
CHECK_DEADLOCK FALSE
