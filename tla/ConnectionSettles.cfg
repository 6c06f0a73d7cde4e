CONSTANTS
  getProof = getProof
  addTx = addTx
  unregistered = unregistered
  nowhere = nowhere
  Nodes = {n1, n2}
  Requests <- MCRequests
  Roster <- MCRoster
  Registered <- MCRegistered
SPECIFICATION Spec
PROPERTIES EverySendSettles
CHECK_DEADLOCK FALSE
