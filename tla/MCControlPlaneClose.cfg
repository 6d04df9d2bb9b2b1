CONSTANTS
  c1 = c1
  c2 = c2
  Client <- TwoClients
  Listen = Listen
  MSG_PORT_ADD = MSG_PORT_ADD
  NUMPORTS = 3
  MaxRequests = 2
SPECIFICATION Spec
INVARIANT ListedAreConnected
CHECK_DEADLOCK FALSE
